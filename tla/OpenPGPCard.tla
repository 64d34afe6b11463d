----------------------------- MODULE OpenPGPCard -----------------------------
(***************************************************************************)
(* The OpenPGP smart card of internal/icc: its personalisation, the        *)
(* passphrase verification status, the APDU commands, the PKCS#11 export   *)
(* and the management commands of the SSH console that act on it.          *)
(*                                                                         *)
(* Every call into icc.Interface is one atomic step here, except Init from *)
(* a console session: it tests card.initialized, waits for the DCP, and    *)
(* only then personalises the card, so that several sessions can be        *)
(* between the two.  A console `lock' or `unlock' makes several calls,     *)
(* with a passphrase prompt in between, and is a sequence of steps that    *)
(* anything may interleave with.                                           *)
(*                                                                         *)
(* A subkey is an index into entity, the sequence of subkeys that the      *)
(* bundled armored key decodes to; 0 is the nil *openpgp.Subkey.           *)
(***************************************************************************)
EXTENDS Integers, Sequences, FiniteSets

CONSTANTS
    Builds,       \* firmware configurations to consider
    Entities,     \* OpenPGP keys to consider, as sequences of subkeys
    Passphrases,  \* non-empty passphrases a user may type
    NoPassphrase, \* protection of a subkey that was exported without one
    Sessions,     \* SSH sessions of the management console
    DEFAULT_PW1_ERROR_COUNTER,
    DSCLimit,     \* 0xffffff in the code
    DSCModulus    \* 2^32 in the code, digitalSignatureCounter is a uint32

Flags == {"sign", "encryptStorage", "encryptCommunications", "authenticate"}

(***************************************************************************)
(* flags: those of a valid binding signature, {} when there is none.       *)
(* priv : the *packet.PrivateKey is nil, a GNU stub without key material   *)
(*        (never marked Encrypted), or a key.                              *)
(* alg  : the dynamic type of the key.                                     *)
(***************************************************************************)
Subkey ==
    [flags: SUBSET Flags,
     priv : {"nil", "stub", "key"},
     alg  : {"rsa", "ecdsa", "ecdh", "other"},
     pass : Passphrases \cup {NoPassphrase}]

(***************************************************************************)
(* platform  : USB armory firmware or the vpcd process                     *)
(* hab       : imx6ul.SNVS.Available(), the unit is secure booted          *)
(* SNVS      : bundled keys are wrapped for one device                     *)
(* initAtBoot: false only when bundled with SNVS=ssh                       *)
(* ssh       : a management console is configured                          *)
(* decodes   : the bundled text is a well formed armored key               *)
(***************************************************************************)
Build ==
    [platform: {"imx6", "vpcd"}, hab: BOOLEAN, SNVS: BOOLEAN,
     initAtBoot: BOOLEAN, ssh: BOOLEAN, decodes: BOOLEAN]

ASSUME CardAssumption ==
    /\ Builds \subseteq Build
    /\ \A b \in Builds : /\ ~b.initAtBoot => b.SNVS /\ b.ssh
                         /\ b.platform = "vpcd" => ~b.hab /\ ~b.ssh
    /\ Entities \subseteq Seq(Subkey)
    /\ NoPassphrase \notin Passphrases
    /\ DEFAULT_PW1_ERROR_COUNTER \in 1..255
    /\ DSCLimit \in Nat
    /\ DSCModulus \in Nat
    /\ DSCModulus > DSCLimit + 1

VARIABLES
    build, entity,            \* fixed by the firmware image
    power,                    \* "off", "starting", "up", "panic", "exit"
    armored,                  \* card.ArmoredKey: "wrapped", "plain", "nil"
    initialized, selected,
    Sig, Dec, Aut,            \* subkeys by role
    encrypted,                \* entity.Subkeys[i].PrivateKey.Encrypted
    autEncrypted, autShared,  \* see Alias below
    cached,                   \* subkeys with a copy in card.sig, dec or aut
    errorCounterPW1, digitalSignatureCounter,
    blue, white,              \* LEDs
    todo,                     \* command in progress, by SSH session
    resp,                     \* response APDU or RPC answer of the last step
    wrong,                    \* history: wrong passphrases tried in a row
    uses,                     \* history: uses granted since Sig was unlocked
    granted                   \* history: callers whose Init succeeded, that is
                              \* a set of sessions, or {"boot"} for main()

(***************************************************************************)
(* Alias: decodeSubkeys points Sig and Dec into entity.Subkeys, but Aut at *)
(* a copy of the element.  The copy shares the PrivateKey object with the  *)
(* element until a PW_LOCK stores another object in the element.           *)
(* autEncrypted is the Encrypted flag of the object that Aut reaches,      *)
(* autShared tells whether the element still points at the same object.    *)
(***************************************************************************)

keys   == <<encrypted, autEncrypted, autShared>>
roles  == <<initialized, Sig, Dec, Aut, cached, granted>>
fixed  == <<build, entity>>
pwVars == <<errorCounterPW1, wrong, uses>>
vars   == <<fixed, power, armored, roles, selected, keys, pwVars,
            digitalSignatureCounter, blue, white, todo, resp>>

(***************************************************************************)
(* Helpers.  The definitions named Mut_ are faulty variants of the one that *)
(* follows them, each breaking a property below; nothing uses them.        *)
(***************************************************************************)

\* The subkey carries its own passphrase.
Protected(i) == entity[i].priv = "key" /\ entity[i].pass # NoPassphrase

\* subkey != nil && subkey.PrivateKey != nil
Present(i) == i # 0 /\ entity[i].priv # "nil"

Unlocked(i) == Present(i) /\ ~encrypted[i]

\* A key whose private part is in memory in the clear.
Clear(i) == i # 0 /\ entity[i].priv = "key" /\ ~encrypted[i]

IMX6 == build.platform = "imx6"

\* The last subkey with all of the flags F, 0 when there is none.
decodeSubkeys(F) ==
    LET M == {i \in 1..Len(entity) : F \subseteq entity[i].flags} IN
    IF M = {} THEN 0 ELSE CHOOSE i \in M : \A j \in M : j <= i

\* LED(), a no-op on the vpcd build.
LED(old, on) == IF IMX6 THEN on ELSE old

Mut_signal_SigOnly(sig, dec, enc) ==
    LED(blue, sig # 0 /\ entity[sig].priv = "key" /\ ~enc[sig])

signalVerificationStatus(sig, dec, enc) ==
    LED(blue, \E i \in {sig, dec} : i # 0 /\ entity[i].priv = "key" /\ ~enc[i])

(***************************************************************************)
(* card.Init, after the card.initialized check                             *)
(***************************************************************************)

\* snvs.Decrypt of the text arg; its output becomes ArmoredKey on failure too.
Unwrap(arg, dcp) ==
    IF ~build.SNVS THEN arg
    ELSE IF IMX6 /\ dcp /\ arg = "wrapped" THEN "plain" ELSE "nil"

Mut_Caches_NoDec(sig, dec, aut) == {i \in {sig, aut} : Present(i)}

\* The copies kept in card.sig, card.dec and card.aut for PW_LOCK.
Caches(sig, dec, aut) == {i \in {sig, dec, aut} : Present(i)}

\* c is the caller.  Keys and counter are new whatever they were before.
Init_Personalize(c) ==
    /\ Sig' = decodeSubkeys({"sign"})
    /\ Dec' = decodeSubkeys({"encryptStorage", "encryptCommunications"})
    /\ Aut' = decodeSubkeys({"authenticate"})
    /\ encrypted' = [i \in 1..Len(entity) |-> Protected(i)]
    /\ autEncrypted' = (Aut' # 0 /\ Protected(Aut'))
    /\ autShared' = (Aut' # 0)
    /\ cached' = Caches(Sig', Dec', Aut')
    /\ errorCounterPW1' = DEFAULT_PW1_ERROR_COUNTER
    /\ initialized' = TRUE
    /\ white' = LED(white, FALSE)
    /\ blue' = signalVerificationStatus(Sig', Dec', encrypted')
    /\ uses' = 0
    /\ granted' = granted \cup {c}
    /\ UNCHANGED wrong

\* The rest of Init with the ArmoredKey it had read, arg; dcp tells whether
\* the hardware key derivation succeeds.  initialized is not looked at again.
CardInit(c, arg, dcp) ==
    /\ armored' = Unwrap(arg, dcp)
    /\ \/ /\ armored' = "plain" /\ build.decodes
          /\ Init_Personalize(c)
       \/ /\ ~(armored' = "plain" /\ build.decodes)
          /\ UNCHANGED <<roles, keys, pwVars, blue, white>>

(***************************************************************************)
(* Power on and off                                                        *)
(***************************************************************************)

\* op "derive": in Init, waiting for the DCP with ArmoredKey as it was, arg.
NoWork == [op |-> "none", pws |-> {}, pass |-> NoPassphrase, arg |-> "nil"]
NoResponse == [ins |-> "none", sw |-> "none", n |-> 0]

\* A step that answers no APDU and no RPC call.
NoAnswer == resp' = NoResponse

\* A fresh icc.Interface; the boot ROM leaves both LEDs on.
Fresh ==
    /\ armored = IF build.SNVS THEN "wrapped" ELSE "plain"
    /\ initialized = FALSE
    /\ selected = FALSE
    /\ Sig = 0 /\ Dec = 0 /\ Aut = 0
    /\ encrypted = [i \in 1..Len(entity) |-> Protected(i)]
    /\ autEncrypted = FALSE
    /\ autShared = FALSE
    /\ cached = {}
    /\ errorCounterPW1 = 0
    /\ digitalSignatureCounter = 0
    /\ blue = IMX6
    /\ white = IMX6
    /\ todo = [s \in Sessions |-> NoWork]
    /\ resp = NoResponse
    /\ wrong = 0
    /\ uses = 0
    /\ granted = {}

Reset ==
    /\ armored' = IF build.SNVS THEN "wrapped" ELSE "plain"
    /\ initialized' = FALSE
    /\ selected' = FALSE
    /\ Sig' = 0 /\ Dec' = 0 /\ Aut' = 0
    /\ encrypted' = [i \in 1..Len(entity) |-> Protected(i)]
    /\ autEncrypted' = FALSE
    /\ autShared' = FALSE
    /\ cached' = {}
    /\ errorCounterPW1' = 0
    /\ digitalSignatureCounter' = 0
    /\ blue' = IMX6
    /\ white' = IMX6
    /\ todo' = [s \in Sessions |-> NoWork]
    /\ resp' = NoResponse
    /\ wrong' = 0
    /\ uses' = 0
    /\ granted' = {}

Init ==
    /\ build \in Builds
    /\ entity \in Entities
    /\ power = "off"
    /\ Fresh

PowerOn ==
    /\ power = "off"
    /\ power' = "starting"
    /\ NoAnswer
    /\ UNCHANGED <<fixed, armored, roles, selected, keys, pwVars,
                   digitalSignatureCounter, blue, white, todo>>

\* main() up to the start of the USB or vpcd service: no session exists yet.
Main(dcp) ==
    /\ power = "starting"
    /\ \/ /\ IMX6 /\ build.SNVS /\ ~build.hab      \* log.Fatalf
          /\ power' = "exit"
          /\ UNCHANGED <<armored, roles, keys, pwVars, blue, white>>
       \/ /\ ~(IMX6 /\ build.SNVS /\ ~build.hab)
          /\ power' = "up"
          /\ IF ~IMX6 \/ build.initAtBoot
             THEN CardInit("boot", armored, dcp)
             ELSE UNCHANGED <<armored, roles, keys, pwVars, blue, white>>
    /\ NoAnswer
    /\ UNCHANGED <<fixed, selected, digitalSignatureCounter, todo>>

\* The `reboot' command, a power cycle or a restart of the process.
PowerOff ==
    /\ power # "off"
    /\ power' = "off"
    /\ UNCHANGED fixed
    /\ Reset

(***************************************************************************)
(* VERIFY                                                                  *)
(***************************************************************************)

PWSubkey(pw) ==
    CASE pw = "PW1_CDS" -> Sig
      [] pw = "PW1"     -> Dec
      [] OTHER          -> 0

\* subkey.PrivateKey.Decrypt(passphrase), external
Decrypts(i, pass) == entity[i].pass = pass

Mut_Unlock_NoReset(i) ==
    /\ encrypted' = [encrypted EXCEPT ![i] = FALSE]
    /\ autEncrypted' = (autEncrypted /\ ~(autShared /\ i = Aut))
    /\ wrong' = 0
    /\ uses' = IF i = Sig THEN 0 ELSE uses
    /\ UNCHANGED <<autShared, errorCounterPW1>>

\* The object reached through subkey i is decrypted in place.
Unlock(i) ==
    /\ encrypted' = [encrypted EXCEPT ![i] = FALSE]
    /\ autEncrypted' = (autEncrypted /\ ~(autShared /\ i = Aut))
    /\ errorCounterPW1' = DEFAULT_PW1_ERROR_COUNTER
    /\ wrong' = 0
    /\ uses' = IF i = Sig THEN 0 ELSE uses
    /\ UNCHANGED autShared

Mut_VerifyUnlock_NoBlock(i, pass) ==
    \/ /\ encrypted[i] /\ Decrypts(i, pass)
       /\ Unlock(i)
    \/ /\ encrypted[i] /\ ~Decrypts(i, pass)
       /\ errorCounterPW1' = (errorCounterPW1 - 1) % 256
       /\ wrong' = wrong + 1
       /\ UNCHANGED <<keys, uses>>
    \/ ~encrypted[i] /\ UNCHANGED <<keys, pwVars>>

Mut_VerifyUnlock_BlockLast(i, pass) ==
    \/ /\ encrypted[i] /\ Decrypts(i, pass)
       /\ Unlock(i)
    \/ /\ encrypted[i] /\ errorCounterPW1 # 0 /\ ~Decrypts(i, pass)
       /\ errorCounterPW1' = errorCounterPW1 - 1
       /\ wrong' = wrong + 1
       /\ UNCHANGED <<keys, uses>>
    \/ /\ ~encrypted[i] \/ (errorCounterPW1 = 0 /\ ~Decrypts(i, pass))
       /\ UNCHANGED <<keys, pwVars>>

\* PW_VERIFY with a passphrase on a key that is present.
VerifyUnlock(i, pass) ==
    \/ /\ encrypted[i] /\ errorCounterPW1 # 0 /\ Decrypts(i, pass)
       /\ Unlock(i)
    \/ /\ encrypted[i] /\ errorCounterPW1 # 0 /\ ~Decrypts(i, pass)
       /\ errorCounterPW1' = errorCounterPW1 - 1
       /\ wrong' = wrong + 1
       /\ UNCHANGED <<keys, uses>>
    \/ /\ ~encrypted[i] \/ errorCounterPW1 = 0
       /\ UNCHANGED <<keys, pwVars>>

\* PW_LOCK on the subkeys I: Restore() stores a fresh copy of the cached key.
Relocked(I) == {i \in I : Unlocked(i)}

VerifyLock(I) ==
    /\ encrypted' = [i \in 1..Len(entity) |->
                        IF i \in Relocked(I) THEN Protected(i) ELSE encrypted[i]]
    /\ autShared' = (autShared /\ Aut \notin Relocked(I))
    /\ UNCHANGED autEncrypted

\* Restore() finds no copy and the nil result is dereferenced.
RestorePanics(I) == ~(Relocked(I) \subseteq cached)

PanicIf(condition) == power' = IF condition THEN "panic" ELSE power

Reply(ins, sw, n) == resp' = [ins |-> ins, sw |-> sw, n |-> n]

Ready == power = "up"

\* The deferred signalVerificationStatus of Verify.
Signal == blue' = signalVerificationStatus(Sig, Dec, encrypted')

\* VERIFY for PW3, a missing key, or a P1 that is neither PW_VERIFY nor PW_LOCK
VerifyRefused ==
    /\ Ready
    /\ UNCHANGED keys
    /\ Signal
    /\ Reply("VERIFY", "NotAllowed", 0)
    /\ UNCHANGED <<fixed, power, armored, roles, selected, pwVars,
                   digitalSignatureCounter, white, todo>>

\* VERIFY with an empty passphrase reports the access status.
VerifyStatus(pw) ==
    LET i == PWSubkey(pw) IN
    /\ Ready
    /\ Present(i)
    /\ UNCHANGED keys
    /\ Signal
    /\ \/ ~encrypted[i] /\ Reply("STATUS", "9000", 0)
       \/ encrypted[i] /\ Reply("STATUS", "63xx", errorCounterPW1)
    /\ UNCHANGED <<fixed, power, armored, roles, selected, pwVars,
                   digitalSignatureCounter, white, todo>>

\* VERIFY with a passphrase.
VerifyPassphrase(pw, pass) ==
    LET i == PWSubkey(pw) IN
    /\ Ready
    /\ Present(i)
    /\ VerifyUnlock(i, pass)
    /\ Signal
    /\ \/ ~encrypted'[i] /\ Reply("VERIFY", "9000", 0)
       \/ encrypted'[i] /\ Reply("VERIFY", "63xx", errorCounterPW1')
    /\ UNCHANGED <<fixed, power, armored, roles, selected,
                   digitalSignatureCounter, white, todo>>

\* VERIFY with P1 = PW_LOCK.
VerifyPWLock(pw) ==
    LET i == PWSubkey(pw) IN
    /\ Ready
    /\ Present(i)
    /\ VerifyLock({i})
    /\ PanicIf(RestorePanics({i}))
    /\ Signal
    /\ Reply("LOCK", "9000", 0)
    /\ UNCHANGED <<fixed, armored, roles, selected, pwVars,
                   digitalSignatureCounter, white, todo>>

Verify ==
    \/ VerifyRefused
    \/ \E pw \in {"PW1_CDS", "PW1"} :
        \/ VerifyStatus(pw)
        \/ VerifyPWLock(pw)
        \/ \E pass \in Passphrases : VerifyPassphrase(pw, pass)

(***************************************************************************)
(* SELECT, GET DATA and the commands that leave the card as it is          *)
(***************************************************************************)

SelectOpenPGP ==
    /\ Ready
    /\ selected' = TRUE
    /\ Reply("SELECT", "9000", 0)
    /\ UNCHANGED <<fixed, power, armored, roles, keys, pwVars,
                   digitalSignatureCounter, blue, white, todo>>

Mut_SelectOther_SigOnly ==
    /\ Ready
    /\ Reply("DESELECT", "FileNotFound", 0)
    /\ \/ /\ selected
          /\ selected' = FALSE
          /\ VerifyLock({Sig})
          /\ PanicIf(RestorePanics({Sig}))
          /\ Signal
       \/ /\ ~selected
          /\ UNCHANGED <<power, selected, keys, blue>>
    /\ UNCHANGED <<fixed, armored, roles, pwVars,
                   digitalSignatureCounter, white, todo>>

SelectOther ==
    /\ Ready
    /\ Reply("DESELECT", "FileNotFound", 0)
    /\ \/ /\ selected
          /\ selected' = FALSE
          /\ VerifyLock({Sig, Dec})
          /\ PanicIf(RestorePanics({Sig, Dec}))
          /\ Signal
       \/ /\ ~selected
          /\ UNCHANGED <<power, selected, keys, blue>>
    /\ UNCHANGED <<fixed, armored, roles, pwVars,
                   digitalSignatureCounter, white, todo>>

Select == SelectOpenPGP \/ SelectOther

\* The counter is reset when it is read, once it no longer fits three bytes.
DigitalSignatureCounter ==
    IF digitalSignatureCounter > DSCLimit THEN 0 ELSE digitalSignatureCounter

\* "static" stands for the data objects that depend on no mutable state.
GetData(do) ==
    /\ Ready
    /\ \/ do = "static" /\ Reply("GET DATA", "9000", 0)
       \/ do = "PW status" /\ Reply("PW STATUS", "9000", errorCounterPW1)
       \/ do = "security support"
          /\ Reply("GET DSC", "9000", DigitalSignatureCounter)
       \/ do = "unsupported" /\ Reply("GET DATA", "8800", 0)
    /\ digitalSignatureCounter' =
          IF do = "security support" THEN DigitalSignatureCounter
          ELSE digitalSignatureCounter
    /\ UNCHANGED <<fixed, power, armored, roles, selected, keys, pwVars,
                   blue, white, todo>>

\* A handler returned an error: RawCommand has no response to send, and the
\* vpcd process ends in log.Fatalf.
Fails(ins) ==
    /\ Reply(ins, "Error", 0)
    /\ power' = IF IMX6 THEN power ELSE "exit"

GenerateAsymmetricKeyPair(crt) ==
    LET i == CASE crt = "Sig" -> Sig [] crt = "Dec" -> Dec
               [] crt = "Aut" -> Aut [] OTHER -> 0
    IN
    /\ Ready
    /\ \/ /\ crt = "unsupported"
          /\ Reply("GENERATE", "NotAllowed", 0)
          /\ UNCHANGED power
       \/ /\ crt # "unsupported" /\ i = 0
          /\ Reply("GENERATE", "6a88", 0)
          /\ UNCHANGED power
       \/ /\ i # 0 /\ entity[i].alg # "other"
          /\ Reply("GENERATE", "9000", 0)
          /\ UNCHANGED power
       \/ /\ i # 0 /\ entity[i].alg = "other"
          /\ Fails("GENERATE")
    /\ UNCHANGED <<fixed, armored, roles, selected, keys, pwVars,
                   digitalSignatureCounter, blue, white, todo>>

\* GET CHALLENGE; a class other than 0x00, PUT DATA, an unknown instruction;
\* a buffer that is no APDU.
Command_Other ==
    /\ Ready
    /\ \/ Reply("GET CHALLENGE", "9000", 0) /\ UNCHANGED power
       \/ Reply("OTHER", "NotAllowed", 0) /\ UNCHANGED power
       \/ Fails("OTHER")
    /\ UNCHANGED <<fixed, armored, roles, selected, keys, pwVars,
                   digitalSignatureCounter, blue, white, todo>>

(***************************************************************************)
(* PERFORM SECURITY OPERATION; the white LED is on meanwhile, off after.   *)
(***************************************************************************)

PSO ==
    /\ Ready
    /\ white' = LED(white, FALSE)
    /\ UNCHANGED <<fixed, armored, roles, selected, todo>>

PSO_Unsupported ==
    /\ PSO
    /\ Reply("PSO", "NotAllowed", 0)
    /\ UNCHANGED <<power, keys, pwVars, digitalSignatureCounter, blue>>

Mut_UseSig_NoLock ==
    /\ Unlocked(Sig)
    /\ UNCHANGED <<power, keys, errorCounterPW1, wrong>>
    /\ Signal
    /\ uses' = IF Protected(Sig) THEN uses + 1 ELSE uses

\* One use of the signature key; the deferred PW_LOCK ends its verification.
UseSig ==
    /\ Unlocked(Sig)
    /\ VerifyLock({Sig})
    /\ PanicIf(RestorePanics({Sig}))
    /\ Signal
    /\ uses' = IF Protected(Sig) THEN uses + 1 ELSE uses
    /\ UNCHANGED <<errorCounterPW1, wrong>>

\* data: "empty", "digest" (DigestInfo of a supported hash) or "other".
CDS_Status(data, ok) ==
    CASE Clear(Sig) /\ entity[Sig].alg = "rsa" /\ data # "digest" -> "6a80"
      [] Clear(Sig) /\ \/ entity[Sig].alg = "rsa" /\ data = "digest"
                       \/ entity[Sig].alg = "ecdsa" -> IF ok THEN "9000"
                                                            ELSE "91a1"
      [] OTHER -> "6382"

ComputeDigitalSignature(data, ok) ==
    /\ PSO
    /\ \/ /\ data = "empty" \/ ~Unlocked(Sig)
          /\ \/ data = "empty" /\ Reply("CDS", "6a80", 0)
             \/ data # "empty" /\ ~Present(Sig) /\ Reply("CDS", "6382", 0)
             \/ data # "empty" /\ Present(Sig) /\ Reply("CDS", "6982", 0)
          /\ UNCHANGED <<power, keys, pwVars, digitalSignatureCounter, blue>>
       \/ /\ data # "empty"
          /\ UseSig
          /\ Reply("CDS", CDS_Status(data, ok), 0)
          /\ digitalSignatureCounter' =
                IF CDS_Status(data, ok) = "9000"
                THEN (digitalSignatureCounter + 1) % DSCModulus
                ELSE digitalSignatureCounter

\* aesCBC() on the USB armory, the stubs elsewhere.
AES(ins, data, dcp) ==
    \/ /\ IMX6
       /\ UNCHANGED power
       /\ \/ ~(build.hab /\ dcp) /\ Reply(ins, "NotAllowed", 0)
          \/ build.hab /\ dcp /\ data = "aes" /\ Reply(ins, "9000", 0)
          \/ build.hab /\ dcp /\ data # "aes" /\ Reply(ins, "6a80", 0)
    \/ ~IMX6 /\ Fails(ins)

(***************************************************************************)
(* data: "empty"; "aes" or "aes partial" (padding indicator 0x02, whole    *)
(* blocks or not); "rsa" (0x00); with 0xa6 "point" or "no point" (the      *)
(* external public key is well formed or not) or "cut short" (the data     *)
(* ends where v() expects a length byte, or v() meets a two-byte length,   *)
(* and indexes past its slice); "other".                                   *)
(***************************************************************************)
DecipherData ==
    {"empty", "aes", "aes partial", "rsa", "point", "no point", "cut short",
     "other"}

Decipher_Status(data, ok) ==
    LET fits == \/ entity[Dec].alg = "rsa" /\ data = "rsa"
                \/ entity[Dec].alg = "ecdh" /\ data = "point"
    IN
    CASE Clear(Dec) /\ fits /\ ok  -> "9000"
      [] Clear(Dec) /\ fits /\ ~ok -> "91a1"
      [] Clear(Dec) /\ entity[Dec].alg = "ecdh" /\ data = "no point" -> "6a80"
      [] OTHER -> "6382"

Decipher(data, ok) ==
    /\ PSO
    /\ \/ /\ data = "empty"
          /\ Reply("DEC", "6a80", 0)
          /\ UNCHANGED power
       \/ /\ data \in {"aes", "aes partial"}
          /\ AES("DEC AES", data, ok)
       \/ /\ data \notin {"empty", "aes", "aes partial"}
          /\ \/ /\ ~Present(Dec)
                /\ Reply("DEC", "6382", 0)
                /\ UNCHANGED power
             \/ /\ Present(Dec) /\ encrypted[Dec]
                /\ Reply("DEC", "6982", 0)
                /\ UNCHANGED power
             \/ /\ Unlocked(Dec)
                /\ Reply("DEC", Decipher_Status(data, ok), 0)
                /\ PanicIf(/\ data = "cut short"
                           /\ Clear(Dec) /\ entity[Dec].alg = "ecdh")
    /\ UNCHANGED <<keys, pwVars, digitalSignatureCounter, blue>>

Mut_Encipher_NoPW1(data, dcp) ==
    /\ PSO
    /\ AES("ENC", data, dcp)
    /\ UNCHANGED <<keys, pwVars, digitalSignatureCounter, blue>>

\* card.Dec is dereferenced without a check.
Encipher(data, dcp) ==
    /\ PSO
    /\ \/ /\ ~Present(Dec)
          /\ PanicIf(TRUE)
          /\ Reply("ENC", "Error", 0)
       \/ /\ Present(Dec) /\ encrypted[Dec]
          /\ Reply("ENC", "6982", 0)
          /\ UNCHANGED power
       \/ /\ Unlocked(Dec)
          /\ AES("ENC", data, dcp)
    /\ UNCHANGED <<keys, pwVars, digitalSignatureCounter, blue>>

SecurityOperation ==
    \/ PSO_Unsupported
    \/ \E ok \in BOOLEAN :
        \/ \E data \in {"empty", "digest", "other"} :
               ComputeDigitalSignature(data, ok)
        \/ \E data \in DecipherData : Decipher(data, ok)
        \/ \E data \in {"aes", "aes partial"} : Encipher(data, ok)

(***************************************************************************)
(* PKCS#11 export of the signature key                                     *)
(***************************************************************************)

RPCServed == ~IMX6 \/ build.ssh

\* Only a key of type crypto/rsa is ever recognised.
getObjects(ok) ==
    /\ Ready /\ RPCServed
    /\ \/ /\ ~Unlocked(Sig)
          /\ Reply("RPC", "Error", 0)
          /\ UNCHANGED <<power, keys, pwVars, blue>>
       \/ /\ UseSig
          /\ Reply("RPC", IF Clear(Sig) /\ entity[Sig].alg = "rsa" /\ ok
                          THEN "objects" ELSE "Error", 0)
    /\ UNCHANGED <<fixed, armored, roles, selected,
                   digitalSignatureCounter, white, todo>>

(***************************************************************************)
(* The management console                                                  *)
(***************************************************************************)

Console(s) == Ready /\ build.ssh /\ todo[s] = NoWork

Work(s, op, pws, pass, arg) ==
    todo' = [todo EXCEPT ![s] =
                [op |-> op, pws |-> pws, pass |-> pass, arg |-> arg]]

(***************************************************************************)
(* Init up to the DCP wait; pws is what an `unlock' is to open afterwards. *)
(* Without SNVS there is no wait, but then main() has called Init, with    *)
(* success or with the failure that it would have here again.              *)
(***************************************************************************)
Init_Begin(s, pws) ==
    /\ ~initialized
    /\ Work(s, "derive", pws, NoPassphrase, armored)

\* The end of the wait and the rest of Init; `unlock' then goes on.
Init_End(s, dcp) ==
    /\ Ready
    /\ todo[s].op = "derive"
    /\ CardInit(s, todo[s].arg, dcp)
    /\ IF todo[s].pws # {} /\ armored' = "plain" /\ build.decodes
       THEN Work(s, "prompt", todo[s].pws, NoPassphrase, "nil")
       ELSE todo' = [todo EXCEPT ![s] = NoWork]
    /\ NoAnswer
    /\ UNCHANGED <<fixed, power, selected, digitalSignatureCounter>>

ConsoleQuiet ==
    /\ NoAnswer
    /\ UNCHANGED <<fixed, power, armored, roles, selected, keys, pwVars,
                   digitalSignatureCounter, blue, white>>

\* `init'; on an initialized card it only reports that.
ConsoleInit(s) ==
    /\ Console(s)
    /\ Init_Begin(s, {})
    /\ ConsoleQuiet

\* sig, dec, all
PWS == {{"PW1_CDS"}, {"PW1"}, {"PW1_CDS", "PW1"}}

lockCommand_lock(s, pws) ==
    /\ Console(s)
    /\ initialized
    /\ Work(s, "lock", pws, NoPassphrase, "nil")
    /\ ConsoleQuiet

\* `unlock' up to the passphrase prompt, or into Init.
lockCommand_unlock(s, pws) ==
    /\ Console(s)
    /\ \/ initialized /\ Work(s, "prompt", pws, NoPassphrase, "nil")
       \/ Init_Begin(s, pws)
    /\ ConsoleQuiet

\* An empty passphrase makes each Verify a status query.
ReadPassword(s, pass) ==
    /\ Ready
    /\ todo[s].op = "prompt"
    /\ Work(s, "unlock", todo[s].pws, pass, "nil")
    /\ ConsoleQuiet

ReadPassword_Error(s) ==
    /\ Ready
    /\ todo[s].op = "prompt"
    /\ todo' = [todo EXCEPT ![s] = NoWork]
    /\ ConsoleQuiet

\* One Verify call of lockCommand's loop, which takes PW1_CDS before PW1.
lockCommand_Verify(s) ==
    LET pw == IF "PW1_CDS" \in todo[s].pws THEN "PW1_CDS" ELSE "PW1"
        i  == PWSubkey(pw)
        rest == todo[s].pws \ {pw}
    IN
    /\ Ready
    /\ todo[s].op \in {"lock", "unlock"}
    /\ todo' = [todo EXCEPT ![s] =
                   IF rest = {} THEN NoWork ELSE [@ EXCEPT !.pws = rest]]
    /\ \/ /\ \/ ~Present(i)
             \/ todo[s].op = "unlock" /\ todo[s].pass = NoPassphrase
          /\ UNCHANGED <<power, keys, pwVars>>
       \/ /\ Present(i) /\ todo[s].op = "unlock" /\ todo[s].pass # NoPassphrase
          /\ VerifyUnlock(i, todo[s].pass)
          /\ UNCHANGED power
       \/ /\ Present(i) /\ todo[s].op = "lock"
          /\ VerifyLock({i})
          /\ PanicIf(RestorePanics({i}))
          /\ UNCHANGED pwVars
    /\ Signal
    /\ NoAnswer
    /\ UNCHANGED <<fixed, armored, roles, selected,
                   digitalSignatureCounter, white>>

lockCommand ==
    \E s \in Sessions :
        \/ \E pws \in PWS :
            \/ lockCommand_lock(s, pws)
            \/ lockCommand_unlock(s, pws)
        \/ \E pass \in Passphrases \cup {NoPassphrase} : ReadPassword(s, pass)
        \/ ReadPassword_Error(s)
        \/ lockCommand_Verify(s)

-----------------------------------------------------------------------------

Command ==
    \/ Select
    \/ \E do \in {"static", "PW status", "security support", "unsupported"} :
           GetData(do)
    \/ Verify
    \/ \E crt \in {"Sig", "Dec", "Aut", "unsupported"} :
           GenerateAsymmetricKeyPair(crt)
    \/ Command_Other
    \/ SecurityOperation

Next ==
    \/ PowerOn
    \/ \E dcp \in BOOLEAN : Main(dcp)
    \/ PowerOff
    \/ Command
    \/ \E ok \in BOOLEAN : getObjects(ok)
    \/ \E s \in Sessions : ConsoleInit(s)
    \/ \E s \in Sessions, dcp \in BOOLEAN : Init_End(s, dcp)
    \/ lockCommand

Spec == Init /\ [][Next]_vars

(***************************************************************************)
(* Properties                                                              *)
(***************************************************************************)

\* The type invariant.
TypeOK ==
    /\ build \in Builds
    /\ entity \in Entities
    /\ power \in {"off", "starting", "up", "panic", "exit"}
    /\ armored \in {"wrapped", "plain", "nil"}
    /\ initialized \in BOOLEAN /\ selected \in BOOLEAN
    /\ {Sig, Dec, Aut} \subseteq 0..Len(entity)
    /\ encrypted \in [1..Len(entity) -> BOOLEAN]
    /\ autEncrypted \in BOOLEAN /\ autShared \in BOOLEAN
    /\ cached \subseteq 1..Len(entity)
    /\ errorCounterPW1 \in 0..255
    /\ digitalSignatureCounter \in 0..(DSCModulus - 1)
    /\ blue \in BOOLEAN /\ white \in BOOLEAN
    /\ todo \in [Sessions -> [op  : {"none", "derive", "prompt", "lock", "unlock"},
                              pws : SUBSET {"PW1_CDS", "PW1"},
                              pass: Passphrases \cup {NoPassphrase},
                              arg : {"wrapped", "plain", "nil"}]]
    /\ wrong \in Nat
    /\ uses \in Nat
    /\ granted \subseteq Sessions \cup {"boot"}

(***************************************************************************)
(* Wrong passphrases in a row, from the host and from every session, are   *)
(* compared with the keys at most three times for every caller whose Init  *)
(* succeeded since power on: a card that main() initializes gives three in *)
(* all, one that sessions initialize gives three to each session that was  *)
(* past the test of card.initialized when the first of them set it, once.  *)
(***************************************************************************)
BruteForceBound ==
    wrong <= DEFAULT_PW1_ERROR_COUNTER * Cardinality(granted)

\* One verification of PW1_CDS pays for one use of the signature key, whether
\* PSO:CDS or the PKCS#11 export takes it, and whatever that use answers.
OneUsePerVerification == uses <= 1

\* Between calls the blue LED is on exactly while the signature or the
\* decryption key is in memory in the clear.
BlueLED ==
    Ready /\ initialized /\ IMX6 => (blue <=> Clear(Sig) \/ Clear(Dec))

\* Restore() finds the cached copy of every key that may have to be locked,
\* so that PW_LOCK, also deferred or from SELECT, never dereferences nil.
LockFindsCache == Ready => ~RestorePanics({Sig, Dec})

\* The error counter is zero, and no session is past the test in Init.
Blocked ==
    /\ initialized
    /\ errorCounterPW1 = 0
    /\ \A s \in Sessions : todo[s].op # "derive"

\* A blocked card stays blocked and opens no key until it is restarted; only
\* an Init that was already waiting for the DCP could fill the counter again.
BlockedUntilRestart ==
    [][(Blocked /\ power' # "off")
          => /\ Blocked'
             /\ \A i \in 1..Len(entity) : encrypted[i] => encrypted'[i]]_vars

\* Selecting away from the OpenPGP application ends every verification.
DeselectLocks ==
    [][(selected /\ ~selected' /\ initialized')
          => \A i \in {Sig, Dec} \ {0} : Protected(i) => encrypted'[i]]_vars

(***************************************************************************)
(* The inductive invariant behind the properties above                     *)
(***************************************************************************)

\* Roles exist from the initialization on, each with its cached copy, and a
\* card that has not been started has none.
RolesConsistent ==
    /\ power \in {"off", "starting"} => ~initialized
    /\ ~initialized => /\ Sig = 0 /\ Dec = 0 /\ Aut = 0
                       /\ errorCounterPW1 = 0 /\ wrong = 0 /\ uses = 0
                       /\ granted = {}
    /\ {i \in {Sig, Dec, Aut} : Present(i)} \subseteq cached
    /\ \A i \in 1..Len(entity) : encrypted[i] => Protected(i)

\* Each caller of Init grants its retries once, to a card that is still
\* powered, and not before the end of its wait.
GrantsOnce ==
    /\ IsFiniteSet(granted)
    /\ initialized => granted # {}
    /\ \A s \in Sessions : todo[s].op = "derive" => s \notin granted
    /\ power \in {"off", "starting"} => \A s \in Sessions : todo[s].op # "derive"

\* No retry is lost, and retries left and wrong passphrases tried make up no
\* more than what was granted: after a single Init they are exactly that.
RetryBudget ==
    initialized =>
        /\ errorCounterPW1 <= DEFAULT_PW1_ERROR_COUNTER
        /\ errorCounterPW1 + wrong >= DEFAULT_PW1_ERROR_COUNTER
        /\ errorCounterPW1 + wrong
              <= DEFAULT_PW1_ERROR_COUNTER * Cardinality(granted)

\* While the signature key is open its verification has not been used.
UseBudget ==
    /\ uses <= 1
    /\ Unlocked(Sig) /\ Protected(Sig) => uses = 0

\* The inductive invariant of the card.
CardInv == TypeOK /\ RolesConsistent /\ GrantsOnce /\ RetryBudget /\ UseBudget

(***************************************************************************)
(* The abstract specification, by verification state instead of subkey.    *)
(***************************************************************************)
openPWs == {pw \in {"PW1_CDS", "PW1"} : Unlocked(PWSubkey(pw))}
freePWs == {pw \in {"PW1_CDS", "PW1"} :
               Present(PWSubkey(pw)) /\ ~Protected(PWSubkey(pw))}
\* Data from the decryption key or, with ENC, on behalf of its holder; data
\* from the AES key of the device, which PSO:DEC serves to anyone.
lastOut ==
    IF resp.sw # "9000" THEN "none"
    ELSE IF resp.ins \in {"DEC", "ENC"} THEN "protected"
    ELSE IF resp.ins = "DEC AES" THEN "device" ELSE "none"

\* Sessions that are past the test of card.initialized.
inInit == {s \in Sessions : todo[s].op = "derive"}

Auth == INSTANCE CardholderAuth WITH
            MaxTries <- DEFAULT_PW1_ERROR_COUNTER,
            on <- initialized, free <- freePWs, open <- openPWs,
            tries <- errorCounterPW1, used <- uses, out <- lastOut,
            starting <- inInit

\* Every behaviour of the card is one that CardholderAuth allows.
RefinesAuth == Auth!AuthSpec

(***************************************************************************)
(* Statements of the documentation that the code does not meet             *)
(***************************************************************************)

\* interface.go: Command returns an APDU response.  Encipher dereferences a
\* missing decryption key instead.
CommandAnswers == power # "panic"


\* verify.go: the verification status matches the presence of a decrypted
\* subkey in memory.  The copy that Aut points to outlives PW_LOCK.
StatusMatchesMemory ==
    \A i \in {Sig, Dec} \ {0} :
        Present(i) /\ encrypted[i] => ~(i = Aut /\ ~autEncrypted)

=============================================================================
