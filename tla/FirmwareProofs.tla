---------------------------- MODULE FirmwareProofs ----------------------------
(***************************************************************************)
(* Proofs about Firmware, for any number of units, any of them secure      *)
(* booted.                                                                 *)
(***************************************************************************)
EXTENDS Firmware, TLAPS

(***************************************************************************)
(* Types                                                                   *)
(***************************************************************************)

\* What is bundled.
BundleTypes ==
    /\ secure \subseteq Units /\ here \in Units
    /\ bundle \in Private \cup Public \cup {"SNVS", "built", "fatal"}
    /\ SNVS \in {"", "on", "ssh"}
    /\ private \in [Private -> Blob \cup {Nil}]
    /\ public \in [Public -> {"nil", "good", "bad"}]

\* What runs.
BootTypes ==
    /\ unit \in Units
    /\ main \in {"off", "SNVS", "card", "token", "init", "network", "console",
                 "wait", "port", "serving", "fatal", "panic"}
    /\ sshd \in {"none", "starting", "started", "accept"}
    /\ hostKey \in {"none", "bundled", "device", "random"}
    /\ card \in {"none", "configured", "failed", "ready"}
    /\ token \in {"none", "failed", "initialized", "configured", "ready"}
    /\ functions \subseteq {"CCID", "U2F", "ECM"}
    /\ fault \in BOOLEAN

\* What the clients of the age plugin have.
ClientTypes ==
    /\ identity \in Blob \cup {Nil}
    /\ answer \in [data: Blob \cup {Nil}, dcp: BOOLEAN, opened: BOOLEAN]

\* Derived keys are keys.
LEMMA DerivedKey ==
    ASSUME secure \subseteq Units, NEW u \in Units, NEW d \in Diversifiers
    PROVE  DeriveKey(u, d) \in Key
    BY DEF DeriveKey, Key

\* What is encrypted is a blob.
LEMMA EncryptedBlob ==
    ASSUME secure \subseteq Units, NEW u \in Units, NEW d \in Diversifiers,
           NEW data \in {"good", "bad"}
    PROVE  Encrypt(data, u, d) \in Blob
    BY DerivedKey DEF Encrypt, Blob

(***************************************************************************)
(* The bundling                                                            *)
(***************************************************************************)

\* The diversifiers of bundle_keys.go.
DivOf(k) == IF k = "sshPrivateKey" THEN "SSH" ELSE
            IF k = "pgpSecretKey" THEN "PGP" ELSE "U2F"

\* A private key that is bundled: in the clear without SNVS, and with SNVS for
\* the unit it is bundled on.
Bundled(k, blob) ==
    \/ blob = Nil
    \/ SNVS = "" /\ blob.by = Plain
    \/ SNVS # "" /\ blob.by = DeriveKey(here, DivOf(k))

\* SNVS is known before the first key is; SNVS=ssh has an SSH key.
BundleInv ==
    /\ BundleTypes
    /\ bundle = "SNVS" => \A k \in Private : private[k] = Nil
    /\ \A k \in Private : Bundled(k, private[k])
    /\ SNVS = "ssh" /\ bundle \notin {"SNVS", "sshPublicKey", "fatal"}
          => public["sshPublicKey"] # "nil"

\* One private key is bundled.
LEMMA PrivateBundled ==
    ASSUME BundleInv, NEW k \in Private,
           NEW file \in {"unset", "missing", "empty", "good", "bad"},
           NEW driver \in BOOLEAN,
           NEW next \in {"pgpSecretKey", "u2fPublicKey", "built"},
           Bundle_Private(k, DivOf(k), file, driver, next)
    PROVE  BundleInv' /\ bundle # "built" /\ UNCHANGED <<secure, here, boot, client>>
<1>1. /\ bundle = k /\ bundle' \in {next, "fatal"}
      /\ UNCHANGED <<secure, here, SNVS, public, boot, client>>
    BY Zenon DEF Bundle_Private
<1>2. \E b \in Blob \cup {Nil} :
         private' = [private EXCEPT ![k] = b] /\ Bundled(k, b)
    <2>1. CASE UNCHANGED private
        <3>1. private' = [private EXCEPT ![k] = private[k]]
            BY <2>1 DEF BundleInv, BundleTypes
        <3> QED
            BY <3>1 DEF BundleInv, BundleTypes
    <2>2. CASE /\ SNVS # "" /\ file \in {"good", "bad"}
               /\ private' = [private EXCEPT ![k] = Encrypt(file, here, DivOf(k))]
        <3>1. DivOf(k) \in Diversifiers
            BY DEF DivOf, Diversifiers
        <3>2. Encrypt(file, here, DivOf(k)) \in Blob
            BY <2>2, <3>1, EncryptedBlob DEF BundleInv, BundleTypes
        <3>3. Bundled(k, Encrypt(file, here, DivOf(k)))
            BY <2>2 DEF Bundled, Encrypt
        <3> QED
            BY <2>2, <3>2, <3>3
    <2>3. CASE /\ SNVS = "" /\ file \in {"good", "bad"}
               /\ private' = [private EXCEPT ![k] = [data |-> file, by |-> Plain]]
        <3>1. [data |-> file, by |-> Plain] \in Blob
            BY <2>3 DEF Blob
        <3>2. Bundled(k, [data |-> file, by |-> Plain])
            BY <2>3 DEF Bundled
        <3> QED
            BY <2>3, <3>1, <3>2
    <2>4. CASE private' = [private EXCEPT ![k] = Nil]
        BY <2>4 DEF Bundled
    <2>5. CASE /\ SNVS = "" /\ file \in {"good", "bad", "empty"}
               /\ private' = [private EXCEPT ![k] =
                                IF file = "empty" THEN Nil
                                ELSE [data |-> file, by |-> Plain]]
        <3>1. CASE file = "empty"
            BY <2>4, <2>5, <3>1
        <3>2. CASE file # "empty"
            BY <2>3, <2>5, <3>2
        <3> QED
            BY <3>1, <3>2
    <2> QED
        BY <2>1, <2>2, <2>5, Zenon DEF Bundle_Private
<1>3. PICK b \in Blob \cup {Nil} :
         private' = [private EXCEPT ![k] = b] /\ Bundled(k, b)
    BY <1>2
<1>4. private' \in [Private -> Blob \cup {Nil}]
    BY <1>3 DEF BundleInv, BundleTypes
<1>5. \A j \in Private : Bundled(j, private'[j])
    BY <1>3 DEF BundleInv, BundleTypes
<1>6. \A j \in Private : Bundled(j, private[j])'
    BY <1>1, <1>5 DEF Bundled, DeriveKey
<1>7. k \notin {"SNVS", "built", "sshPublicKey", "fatal"} /\ bundle' # "SNVS"
    BY <1>1 DEF Private
<1>8. BundleTypes'
    BY <1>1, <1>4 DEF BundleInv, BundleTypes, Private, Public
<1> QED
    BY <1>1, <1>6, <1>7, <1>8 DEF BundleInv

\* One public key is bundled.
LEMMA PublicBundled ==
    ASSUME BundleInv, NEW k \in Public,
           NEW file \in {"unset", "missing", "empty", "good", "bad"},
           NEW next \in {"sshPrivateKey", "u2fPrivateKey"},
           Bundle_Public(k, file, next)
    PROVE  BundleInv' /\ bundle # "built" /\ UNCHANGED <<secure, here, boot, client>>
<1>1. /\ bundle = k /\ bundle' \in {next, "fatal"}
      /\ UNCHANGED <<secure, here, SNVS, private, boot, client>>
    BY Zenon DEF Bundle_Public
<1>2. \A j \in Private : Bundled(j, private[j])'
    BY <1>1 DEF Bundled, DeriveKey, BundleInv
<1>3. BundleTypes'
    BY <1>1 DEF Bundle_Public, BundleInv, BundleTypes, Private, Public
<1>4. SNVS' = "ssh" /\ bundle' # "fatal" => public'["sshPublicKey"] # "nil"
    BY <1>1 DEF Bundle_Public, BundleInv, BundleTypes, Public
<1> QED
    BY <1>1, <1>2, <1>3, <1>4 DEF BundleInv, Public, Private

\* Every step of the bundling.
LEMMA BundleStep ==
    ASSUME BundleInv, Bundle
    PROVE  BundleInv' /\ bundle # "built" /\ UNCHANGED <<secure, here, boot, client>>
<1>1. ASSUME NEW value \in {"", "on", "ssh"}, NEW driver \in BOOLEAN,
             Bundle_SNVS(value, driver)
      PROVE  BundleInv' /\ bundle # "built" /\ UNCHANGED <<secure, here, boot, client>>
    <2>1. /\ bundle = "SNVS" /\ SNVS' = value /\ bundle' \in {"fatal", "sshPublicKey"}
          /\ UNCHANGED <<secure, here, private, public, boot, client>>
        BY <1>1, Zenon DEF Bundle_SNVS
    <2>2. \A k \in Private : Bundled(k, private[k])'
        BY <2>1 DEF BundleInv, Bundled, Nil
    <2>3. BundleTypes'
        BY <2>1 DEF BundleInv, BundleTypes, Public
    <2> QED
        BY <2>1, <2>2, <2>3 DEF BundleInv
<1>2. /\ "sshPublicKey" \in Public /\ "u2fPublicKey" \in Public
      /\ "sshPrivateKey" \in Private /\ DivOf("sshPrivateKey") = "SSH"
      /\ "pgpSecretKey" \in Private /\ DivOf("pgpSecretKey") = "PGP"
      /\ "u2fPrivateKey" \in Private /\ DivOf("u2fPrivateKey") = "U2F"
    BY DEF Public, Private, DivOf
<1> QED
    BY <1>1, <1>2, PublicBundled, PrivateBundled DEF Bundle

(***************************************************************************)
(* The boot                                                                *)
(***************************************************************************)

\* Nothing is bundled anymore once the firmware runs, and a device that is off
\* has no state.
RunInv ==
    /\ main # "off" => bundle = "built"
    /\ main \in {"off", "SNVS", "card"} =>
          card = "none" /\ token = "none" /\ hostKey = "none" /\ functions = {}
    /\ main = "off" => unit = here /\ answer = NoAnswer /\ fault = FALSE
    /\ main = "off" => sshd = "none"
    /\ main = "token" => token = "none"
    /\ main \in {"token", "init", "network", "console"} => hostKey = "none"
    /\ SNVS # "" /\ main \notin {"off", "SNVS", "fatal"} => unit \in secure

\* The bundled keys are in use only where they may be.
UseInv ==
    SNVS # "" /\ here \in secure /\ unit # here =>
        card # "ready" /\ token \notin {"configured", "ready"} /\ hostKey # "bundled"

\* What the clients of the age plugin have.
AgeInv ==
    /\ identity # Nil => identity.data = "good"
    /\ IdentityStaysHome

FirmwareInv == BundleInv /\ BootTypes /\ ClientTypes /\ RunInv /\ UseInv /\ AgeInv

\* A key bundled on a secure booted unit does not decrypt elsewhere, whatever
\* unit that is.
LEMMA OpensNowhereElse ==
    ASSUME BundleInv, NEW k \in Private, NEW u \in Units, NEW dcp \in BOOLEAN,
           SNVS # "", here \in secure, u # here, private[k] # Nil
    PROVE  /\ ~Decrypts(private[k], u, DivOf(k), dcp)
           /\ private[k].by # Plain
<1>1. private[k].by = DeriveKey(here, DivOf(k))
    BY DEF BundleInv, Bundled
<1>2. DeriveKey(here, DivOf(k)).unit = here /\ DeriveKey(u, DivOf(k)).unit # here
    BY FirmwareAssumption DEF DeriveKey, BundleInv, BundleTypes, NVTK
<1>3. DeriveKey(here, DivOf(k)).div # Plain.div
    BY DEF DeriveKey, DivOf, Plain
<1> QED
    BY <1>1, <1>2, <1>3 DEF Decrypts

\* The initial states.
LEMMA FirstFirmware == FirmwareInit => FirmwareInv
<1> SUFFICES ASSUME FirmwareInit PROVE FirmwareInv
    OBVIOUS
<1>1. BundleInv
    BY DEF FirmwareInit, BundleInv, BundleTypes, Bundled, Nil
<1>2. BootTypes /\ RunInv /\ UseInv
    BY DEF FirmwareInit, BootTypes, RunInv, UseInv
<1>3. ClientTypes /\ AgeInv
    BY Zenon DEF FirmwareInit, ClientTypes, AgeInv, IdentityStaysHome, NoAnswer
<1> QED
    BY <1>1, <1>2, <1>3 DEF FirmwareInv

\* What is bundled stays as it is.
LEMMA BundleKept ==
    ASSUME BundleInv, UNCHANGED bundled
    PROVE  BundleInv'
    BY DEF BundleInv, BundleTypes, Bundled, DeriveKey, bundled

\* The device runs as it did.
LEMMA DeviceKept ==
    ASSUME FirmwareInv, UNCHANGED <<bundled, boot>>, answer' = answer \/ main # "off"
    PROVE  BundleInv' /\ BootTypes' /\ RunInv' /\ UseInv'
<1>1. BundleInv'
    BY BundleKept DEF FirmwareInv
<1>2. BootTypes' /\ UseInv'
    <2>1. UNCHANGED fault
        BY DEF boot
    <2>2. UNCHANGED <<secure, here, SNVS, unit, main, sshd, hostKey, card, token, functions>>
        BY DEF bundled, boot
    <2>3. UseInv'
        BY <2>2 DEF FirmwareInv, UseInv
    <2>4. fault' \in BOOLEAN
        BY <2>1, Zenon DEF FirmwareInv, BootTypes
    <2> QED
        BY <2>2, <2>3, <2>4 DEF FirmwareInv, BootTypes
<1>3. RunInv'
    BY DEF FirmwareInv, RunInv, bundled, boot
<1> QED
    BY <1>1, <1>2, <1>3

\* The clients have what they had, of the same unit.
LEMMA ClientKept ==
    ASSUME ClientTypes, AgeInv, UNCHANGED <<client, unit>>
    PROVE  ClientTypes' /\ AgeInv'
    BY DEF ClientTypes, AgeInv, IdentityStaysHome, client

\* card.Init, at boot or from the console.
LEMMA CardInitUse ==
    ASSUME FirmwareInv, NEW dcp \in BOOLEAN, CardInit(dcp)
    PROVE  /\ card' \in {"ready", "failed"}
           /\ SNVS # "" /\ here \in secure /\ unit # here => card' # "ready"
<1>1. card' \in {"ready", "failed"}
    BY Zenon DEF CardInit
<1>2. ASSUME SNVS # "", here \in secure, unit # here, card' = "ready" PROVE FALSE
    <2>1. "pgpSecretKey" \in Private /\ DivOf("pgpSecretKey") = "PGP"
        BY DEF Private, DivOf
    <2>2. private["pgpSecretKey"].data = "good"
          /\ Decrypts(private["pgpSecretKey"], unit, "PGP", dcp)
        BY <1>2 DEF CardInit
    <2>3. private["pgpSecretKey"] # Nil
        BY <2>2 DEF Nil
    <2> QED
        BY <1>2, <2>1, <2>2, <2>3, OpensNowhereElse DEF FirmwareInv, BootTypes
<1> QED
    BY <1>1, <1>2

\* The steps of the boot and of the console that only concern the device.
LEMMA DeviceStep ==
    ASSUME FirmwareInv,
           \/ Boot \/ Console_status
           \/ \E ok \in BOOLEAN : Console_init(ok) \/ Console_u2f(ok)
    PROVE  BootTypes' /\ RunInv' /\ UseInv' /\ UNCHANGED <<bundled, client, unit>>
<1> USE DEF bundled
<1>1. CASE Main_SNVS
    BY <1>1 DEF FirmwareInv, Main_SNVS, BootTypes, RunInv, UseInv
<1>2. ASSUME NEW dcp \in BOOLEAN, initCard(dcp)
      PROVE  BootTypes' /\ RunInv' /\ UseInv' /\ UNCHANGED <<bundled, client, unit>>
    <2>1. CASE UNCHANGED <<card, functions, fault>>
        BY <1>2, <2>1 DEF FirmwareInv, initCard, BootTypes, RunInv, UseInv
    <2>2. CASE /\ IF initAtBoot THEN CardInit(dcp) ELSE card' = "configured"
               /\ fault' = (fault \/ ~dcp)
               /\ functions' = functions \cup {"CCID"}
        <3>1. /\ card' \in {"ready", "failed", "configured"}
              /\ SNVS # "" /\ here \in secure /\ unit # here => card' # "ready"
            BY <2>2, CardInitUse
        <3>2. fault' \in BOOLEAN
            BY <2>2
        <3> QED
            BY <1>2, <2>2, <3>1, <3>2 DEF FirmwareInv, initCard, BootTypes, RunInv, UseInv
    <2> QED
        BY <1>2, <2>1, <2>2 DEF initCard
<1>3. ASSUME NEW dcp \in BOOLEAN, Configure(dcp)
      PROVE  BootTypes' /\ RunInv' /\ UseInv' /\ UNCHANGED <<bundled, client, unit>>
    <2>1. /\ main = "token" /\ main' \in {"init", "network"}
          /\ UNCHANGED <<bundled, unit, sshd, hostKey, card, client>>
          /\ token' \in {token, "configured", "failed"}
          /\ functions' \in {functions, functions \cup {"U2F"}}
        BY <1>3 DEF Configure
    <2>2. fault' \in BOOLEAN
        BY <1>3 DEF Configure, FirmwareInv, BootTypes
    <2>3. ASSUME SNVS # "", here \in secure, unit # here, token' = "configured"
          PROVE  FALSE
        <3>1. "u2fPrivateKey" \in Private /\ DivOf("u2fPrivateKey") = "U2F"
            BY DEF Private, DivOf
        <3>2. private["u2fPrivateKey"].data = "good"
              /\ Decrypts(private["u2fPrivateKey"], unit, "U2F", dcp)
            BY <1>3, <2>1, <2>3 DEF Configure, FirmwareInv, RunInv
        <3>3. private["u2fPrivateKey"] # Nil
            BY <3>2 DEF Nil
        <3> QED
            BY <2>3, <3>1, <3>2, <3>3, OpensNowhereElse DEF FirmwareInv, BootTypes
    <2>4. BootTypes'
        BY <2>1, <2>2 DEF FirmwareInv, BootTypes
    <2>5. RunInv'
        BY <2>1 DEF FirmwareInv, RunInv
    <2>6. UseInv'
        BY <2>1, <2>3 DEF FirmwareInv, UseInv
    <2> QED
        BY <2>1, <2>4, <2>5, <2>6
<1>4. ASSUME NEW ok \in BOOLEAN, initToken(ok)
      PROVE  BootTypes' /\ RunInv' /\ UseInv' /\ UNCHANGED <<bundled, client, unit>>
    <2>1. /\ main = "init" /\ main' \in {"panic", "network"}
          /\ token' \in {token, "ready", "initialized"}
          /\ token' = "ready" => token \in {"configured", "ready"}
          /\ UNCHANGED <<bundled, unit, sshd, hostKey, card, functions, client>>
        BY <1>4 DEF initToken, TokenInit
    <2>2. fault' \in BOOLEAN
        BY <1>4, Zenon DEF initToken, TokenInit
    <2>3. BootTypes'
        BY <2>1, <2>2 DEF FirmwareInv, BootTypes
    <2>4. RunInv'
        BY <2>1 DEF FirmwareInv, RunInv
    <2>5. UseInv'
        BY <2>1 DEF FirmwareInv, UseInv
    <2> QED
        BY <2>1, <2>3, <2>4, <2>5
<1>5. ASSUME NEW ok \in BOOLEAN, configureNetworking(ok)
      PROVE  BootTypes' /\ RunInv' /\ UseInv' /\ UNCHANGED <<bundled, client, unit>>
    <2>1. /\ main = "network" /\ main' \in {"port", "console", "fatal"}
          /\ functions' \in {functions, functions \cup {"ECM"}}
          /\ UNCHANGED <<bundled, unit, sshd, hostKey, card, token, client>>
        BY <1>5 DEF configureNetworking
    <2>2. fault' \in BOOLEAN
        BY <1>5, Zenon DEF configureNetworking, FirmwareInv, BootTypes
    <2>3. BootTypes'
        BY <2>1, <2>2 DEF FirmwareInv, BootTypes
    <2>4. RunInv'
        BY <2>1 DEF FirmwareInv, RunInv
    <2>5. UseInv'
        BY <2>1 DEF FirmwareInv, UseInv
    <2> QED
        BY <2>1, <2>3, <2>4, <2>5
<1>6. ASSUME NEW dcp \in BOOLEAN, Start(dcp)
      PROVE  BootTypes' /\ RunInv' /\ UseInv' /\ UNCHANGED <<bundled, client, unit>>
    <2>1. /\ main = "console" /\ main' \in {"fatal", "wait"}
          /\ UNCHANGED <<bundled, unit, card, token, functions, client>>
          /\ sshd' \in {sshd, "starting"}
          /\ hostKey' \in {"none", "bundled", "device", "random"}
        BY <1>6 DEF Start
    <2>2. fault' \in BOOLEAN
        BY <1>6 DEF Start, FirmwareInv, BootTypes
    <2>3. ASSUME SNVS # "", here \in secure, unit # here, hostKey' = "bundled"
          PROVE  FALSE
        <3>1. "sshPrivateKey" \in Private /\ DivOf("sshPrivateKey") = "SSH"
            BY DEF Private, DivOf
        <3>2. private["sshPrivateKey"] # Nil
              /\ \/ Decrypts(private["sshPrivateKey"], unit, "SSH", dcp)
                 \/ private["sshPrivateKey"].by = Plain
            BY <1>6, <2>3 DEF Start
        <3> QED
            BY <2>3, <3>1, <3>2, OpensNowhereElse DEF FirmwareInv, BootTypes
    <2>4. BootTypes'
        BY <2>1, <2>2 DEF FirmwareInv, BootTypes
    <2>5. RunInv'
        BY <2>1 DEF FirmwareInv, RunInv
    <2>6. UseInv'
        BY <2>1, <2>3 DEF FirmwareInv, UseInv
    <2> QED
        BY <2>1, <2>4, <2>5, <2>6
<1>7. CASE start \/ Started \/ StartInterruptHandler \/ Console_status
    <2>1. /\ main \in {"wait", "port", "serving"}
          /\ main' \in {"wait", "port", "serving", "fatal", "panic"}
          /\ sshd' \in {sshd, "started", "accept"}
          /\ UNCHANGED <<bundled, unit, hostKey, card, token, functions, client>>
        BY <1>7 DEF start, Started, StartInterruptHandler, Console_status, Console
    <2>2. UNCHANGED fault
        BY <1>7 DEF start, Started, StartInterruptHandler, Console_status
    <2>3. fault' \in BOOLEAN
        BY <2>2, Zenon DEF FirmwareInv, BootTypes
    <2>4. BootTypes'
        BY <2>1, <2>3 DEF FirmwareInv, BootTypes
    <2>5. RunInv' /\ UseInv'
        BY <2>1 DEF FirmwareInv, RunInv, UseInv
    <2> QED
        BY <2>1, <2>4, <2>5
<1>8. ASSUME NEW ok \in BOOLEAN, Console_u2f(ok)
      PROVE  BootTypes' /\ RunInv' /\ UseInv' /\ UNCHANGED <<bundled, client, unit>>
    <2>1. /\ main = "serving" /\ main' \in {"serving", "panic"}
          /\ token' \in {token, "ready", "initialized"}
          /\ token' = "ready" => token \in {"configured", "ready"}
          /\ token # "none"
          /\ UNCHANGED <<bundled, unit, sshd, hostKey, card, functions, client>>
        BY <1>8 DEF Console_u2f, TokenInit, Console
    <2>2. fault' \in BOOLEAN
        BY <1>8, Zenon DEF Console_u2f, TokenInit, FirmwareInv, BootTypes
    <2>3. BootTypes'
        BY <2>1, <2>2 DEF FirmwareInv, BootTypes
    <2>4. RunInv'
        BY <2>1 DEF FirmwareInv, RunInv
    <2>5. UseInv'
        BY <2>1 DEF FirmwareInv, UseInv
    <2> QED
        BY <2>1, <2>3, <2>4, <2>5
<1>9. ASSUME NEW dcp \in BOOLEAN, Console_init(dcp)
       PROVE  BootTypes' /\ RunInv' /\ UseInv' /\ UNCHANGED <<bundled, client, unit>>
    <2>1. /\ card' \in {"ready", "failed"}
          /\ SNVS # "" /\ here \in secure /\ unit # here => card' # "ready"
        BY <1>9, CardInitUse DEF Console_init
    <2>2. /\ fault' \in BOOLEAN /\ main = "serving"
          /\ UNCHANGED <<bundled, unit, main, sshd, hostKey, token, functions, client>>
        BY <1>9 DEF Console_init, Console
    <2>3. BootTypes'
        BY <2>1, <2>2 DEF FirmwareInv, BootTypes
    <2>4. RunInv'
        BY <2>1, <2>2 DEF FirmwareInv, RunInv
    <2>5. UseInv'
        BY <2>1, <2>2 DEF FirmwareInv, UseInv
    <2> QED
        BY <2>2, <2>3, <2>4, <2>5
<1>10. CASE Boot
    <2>1. CASE \E ok \in BOOLEAN : initCard(ok) \/ Configure(ok) \/ initToken(ok)
        BY <2>1, <1>2, <1>3, <1>4
    <2>2. CASE \E ok \in BOOLEAN : configureNetworking(ok) \/ Start(ok)
        BY <2>2, <1>5, <1>6
    <2> QED
        BY <1>1, <1>7, <1>10, <2>1, <2>2, Zenon DEF Boot
<1>11. CASE \E ok \in BOOLEAN : Console_init(ok) \/ Console_u2f(ok)
    BY <1>11, <1>8, <1>9
<1> QED
    BY <1>7, <1>10, <1>11, Zenon

\* An identity is handled by a unit that is secure booted, and the bundled keys
\* have other diversifiers.
LEMMA HandledIdentity ==
    ASSUME FirmwareInv, NEW data \in {identity} \cup {private[k] : k \in Private},
           NEW dcp \in BOOLEAN, data # Nil, HandleIdentity(data, dcp)
    PROVE  ClientTypes' /\ IdentityStaysHome'
<1>1. data \in Blob
    BY DEF FirmwareInv, BundleInv, BundleTypes, ClientTypes
<1>2. /\ SNVS # "" /\ UNCHANGED <<identity, unit>>
      /\ answer' = [data |-> data, dcp |-> dcp,
                    opened |-> Decrypts(data, unit, "AGE", dcp) /\ data.data = "good"]
    BY DEF HandleIdentity, boot
<1>3. unit \in secure
    BY <1>2 DEF HandleIdentity, Console, FirmwareInv, RunInv
<1>4. DeriveKey(unit, "AGE") = [unit |-> unit, div |-> "AGE"]
    BY <1>3 DEF DeriveKey
<1>5. data.by = DeriveKey(unit, "AGE") => data.data = "good"
    <2>1. CASE data = identity
        BY <2>1 DEF FirmwareInv, AgeInv
    <2>2. ASSUME NEW k \in Private, data = private[k]
          PROVE  data.by # DeriveKey(unit, "AGE")
        <3>1. data.by = DeriveKey(here, DivOf(k))
            BY <1>2, <2>2 DEF FirmwareInv, BundleInv, Bundled
        <3>2. DeriveKey(here, DivOf(k)).div # "AGE" /\ DeriveKey(unit, "AGE").div = "AGE"
            BY DEF DeriveKey, DivOf
        <3> QED
            BY <3>1, <3>2
    <2> QED
        BY <2>1, <2>2
<1>6. Decrypts(data, unit, "AGE", dcp) <=> dcp /\ data.by = [unit |-> unit, div |-> "AGE"]
    BY <1>4 DEF Decrypts
<1>7. answer'.opened <=> answer'.dcp /\ answer'.data.by = [unit |-> unit, div |-> "AGE"]
    BY <1>2, <1>4, <1>5, <1>6
<1>8. answer' \in [data: Blob \cup {Nil}, dcp: BOOLEAN, opened: BOOLEAN]
    <2>1. (Decrypts(data, unit, "AGE", dcp) /\ data.data = "good") \in BOOLEAN
        BY Zenon
    <2> QED
        BY <1>1, <1>2, <2>1
<1> QED
    BY <1>2, <1>7, <1>8 DEF FirmwareInv, ClientTypes, IdentityStaysHome

\* Every step keeps the invariant.
LEMMA NextFirmware ==
    ASSUME FirmwareInv, [FirmwareNext]_fvars
    PROVE  FirmwareInv'
<1>1. CASE Bundle
    <2>1. BundleInv' /\ bundle # "built" /\ UNCHANGED <<secure, here, boot, client>>
        BY <1>1, BundleStep DEF FirmwareInv
    <2>2. BootTypes' /\ main = "off" /\ unit = here /\ main' = "off"
        BY <2>1 DEF FirmwareInv, BootTypes, RunInv, boot
    <2>3. RunInv' /\ UseInv'
        BY <2>1, <2>2 DEF FirmwareInv, RunInv, UseInv, boot, client
    <2>4. ClientTypes' /\ AgeInv'
        BY <2>1, ClientKept DEF FirmwareInv, boot
    <2> QED
        BY <2>1, <2>2, <2>3, <2>4 DEF FirmwareInv
<1>2. ASSUME NEW u \in Units, PowerOn(u) PROVE FirmwareInv'
    <2>1. BundleInv'
        BY <1>2, BundleKept DEF PowerOn, FirmwareInv
    <2>2. BootTypes' /\ RunInv' /\ UseInv'
        BY <1>2 DEF PowerOn, FirmwareInv, BootTypes, RunInv, UseInv, bundled
    <2>3. ClientTypes' /\ AgeInv'
        BY <1>2 DEF PowerOn, FirmwareInv, ClientTypes, RunInv, AgeInv, IdentityStaysHome, client
    <2> QED
        BY <2>1, <2>2, <2>3 DEF FirmwareInv
<1>3. CASE PowerOff
    <2>1. BundleInv'
        BY <1>3, BundleKept DEF PowerOff, FirmwareInv
    <2>2. BootTypes' /\ RunInv' /\ UseInv'
        BY <1>3 DEF PowerOff, FirmwareInv, BundleInv, BundleTypes, BootTypes, RunInv,
           UseInv, bundled
    <2>3. ClientTypes' /\ AgeInv'
        <3>1. NoAnswer \in [data: Blob \cup {Nil}, dcp: BOOLEAN, opened: BOOLEAN]
            BY Zenon DEF NoAnswer
        <3> QED
            BY <1>3, <3>1 DEF PowerOff, FirmwareInv, ClientTypes, AgeInv, IdentityStaysHome
    <2> QED
        BY <2>1, <2>2, <2>3 DEF FirmwareInv
<1>4. CASE \/ Boot \/ Console_status
           \/ \E ok \in BOOLEAN : Console_init(ok) \/ Console_u2f(ok)
    <2>1. BootTypes' /\ RunInv' /\ UseInv' /\ UNCHANGED <<bundled, client, unit>>
        BY <1>4, DeviceStep
    <2> QED
        BY <2>1, BundleKept, ClientKept DEF FirmwareInv
<1>5. CASE generate
    <2>1. UNCHANGED <<bundled, boot, answer>> /\ identity' = Encrypt("good", unit, "AGE")
        BY <1>5 DEF generate
    <2>2. Encrypt("good", unit, "AGE") \in Blob /\ Encrypt("good", unit, "AGE").data = "good"
        BY EncryptedBlob DEF FirmwareInv, BundleInv, BundleTypes, BootTypes, Encrypt, Diversifiers
    <2>3. ClientTypes' /\ AgeInv'
        BY <2>1, <2>2 DEF FirmwareInv, ClientTypes, AgeInv, IdentityStaysHome, boot
    <2>4. main # "off"
        BY <1>5 DEF generate, Console
    <2> QED
        BY <2>1, <2>3, <2>4, DeviceKept DEF FirmwareInv
<1>6. ASSUME NEW data \in {identity} \cup {private[k] : k \in Private},
             NEW dcp \in BOOLEAN, data # Nil, HandleIdentity(data, dcp)
      PROVE  FirmwareInv'
    <2>1. UNCHANGED <<bundled, boot, identity>> /\ main = "serving"
        BY <1>6 DEF HandleIdentity, Console
    <2>2. ClientTypes' /\ AgeInv'
        BY <1>6, <2>1, HandledIdentity DEF FirmwareInv, AgeInv
    <2> QED
        BY <2>1, <2>2, DeviceKept DEF FirmwareInv
<1>7. CASE UNCHANGED fvars
    <2>1. UNCHANGED <<bundled, boot, client, unit, answer>>
        BY <1>7 DEF fvars, boot, client
    <2> QED
        BY <2>1, DeviceKept, ClientKept DEF FirmwareInv
<1> QED
    BY <1>1, <1>2, <1>3, <1>4, <1>5, <1>6, <1>7 DEF FirmwareNext

\* The invariant holds of every reachable state.
LEMMA FirmwareInvariant == FirmwareSpec => []FirmwareInv
    BY FirstFirmware, NextFirmware, PTL DEF FirmwareSpec

\* The variables keep the ranges that the code gives them.
THEOREM FirmwareTypes == FirmwareSpec => []FirmwareTypeOK
<1>1. FirmwareInv => FirmwareTypeOK
    BY DEF FirmwareInv, BundleInv, BundleTypes, BootTypes, ClientTypes, FirmwareTypeOK
<1> QED
    BY <1>1, FirmwareInvariant, PTL

\* Of a firmware bundled with SNVS (bundle_keys.go), no private key is in the
\* clear, and no unit but the one it was bundled on, if that is secure booted,
\* ever has a card, a token or an SSH server with a bundled key.
THEOREM KeysStay == FirmwareSpec => []KeysStayHome
<1>1. ASSUME FirmwareInv PROVE KeysStayHome
    <2>1. ASSUME SNVS # "", NEW k \in Private, private[k] # Nil
          PROVE  private[k].by # Plain
        <3>1. private[k].by = DeriveKey(here, DivOf(k))
            BY <2>1, <1>1 DEF FirmwareInv, BundleInv, Bundled
        <3> QED
            BY <3>1 DEF DeriveKey, DivOf, Plain
    <2> QED
        BY <1>1, <2>1 DEF FirmwareInv, UseInv, KeysStayHome
<1> QED
    BY <1>1, FirmwareInvariant, PTL

\* An identity of the age plugin (internal/age) is opened by the unit that it
\* was generated on and no other, and the diversifier keeps the bundled keys
\* from being opened as identities.
THEOREM IdentityStays == FirmwareSpec => []IdentityStaysHome
<1>1. FirmwareInv => IdentityStaysHome
    BY DEF FirmwareInv, AgeInv
<1> QED
    BY <1>1, FirmwareInvariant, PTL

(***************************************************************************)
(* USB is served when all is in place                                      *)
(***************************************************************************)

\* The functions of the parts that have been configured so far.
FunctionsOfCard == IF card # "none" THEN {"CCID"} ELSE {}
FunctionsOfToken == IF token \in {"configured", "ready"} THEN {"U2F"} ELSE {}
FunctionsOfConsole == IF public["sshPublicKey"] # "nil" THEN {"ECM"} ELSE {}

\* How far the configuration has come, by the place of main.
ServeInv ==
    /\ main = "token" => functions = FunctionsOfCard
    /\ main \in {"init", "network"} => functions = FunctionsOfCard \cup FunctionsOfToken
    /\ main \in {"console", "wait", "port", "serving"} =>
          functions = FunctionsOfCard \cup FunctionsOfToken \cup FunctionsOfConsole
    /\ main \in {"console", "wait"} => public["sshPublicKey"] # "nil"
    /\ main \in {"port", "serving"} /\ public["sshPublicKey"] # "nil" => sshd = "accept"

\* Every step keeps it.
LEMMA NextServe ==
    ASSUME FirmwareInv, ServeInv, [FirmwareNext]_fvars
    PROVE  ServeInv'
<1> USE DEF bundled, FunctionsOfCard, FunctionsOfToken, FunctionsOfConsole
<1>1. CASE Bundle
    <2>1. bundle # "built" /\ UNCHANGED boot
        BY <1>1, BundleStep DEF FirmwareInv
    <2>2. main' = "off"
        BY <2>1 DEF FirmwareInv, RunInv, boot
    <2> QED
        BY <2>2 DEF ServeInv
<1>2. CASE \/ \E u \in Units : PowerOn(u)
           \/ PowerOff \/ Main_SNVS
    BY <1>2 DEF PowerOn, PowerOff, Main_SNVS, ServeInv
<1>3. ASSUME NEW dcp \in BOOLEAN, initCard(dcp) PROVE ServeInv'
    <2>1. main = "card" /\ main' = "token"
        BY <1>3 DEF initCard
    <2>2. functions = {} /\ card = "none"
        BY <2>1 DEF FirmwareInv, RunInv
    <2>3. \/ UNCHANGED <<card, functions>>
          \/ card' # "none" /\ functions' = functions \cup {"CCID"}
        BY <1>3, CardInitUse DEF initCard
    <2> QED
        BY <2>1, <2>2, <2>3 DEF ServeInv
<1>4. ASSUME NEW dcp \in BOOLEAN, Configure(dcp) PROVE ServeInv'
    <2>1. /\ main = "token" /\ main' \in {"init", "network"} /\ UNCHANGED card
          /\ \/ UNCHANGED <<token, functions>>
             \/ token' = "configured" /\ functions' = functions \cup {"U2F"}
             \/ token' = "failed" /\ UNCHANGED functions
        BY <1>4 DEF Configure
    <2>2. token = "none"
        BY <2>1 DEF FirmwareInv, RunInv
    <2> QED
        BY <2>1, <2>2 DEF ServeInv
<1>5. ASSUME NEW ok \in BOOLEAN, initToken(ok) PROVE ServeInv'
    BY <1>5 DEF initToken, TokenInit, ServeInv
<1>6. ASSUME NEW ok \in BOOLEAN, configureNetworking(ok) PROVE ServeInv'
    BY <1>6 DEF configureNetworking, ServeInv
<1>7. ASSUME NEW dcp \in BOOLEAN, Start(dcp) PROVE ServeInv'
    <2>1. /\ main = "console" /\ main' \in {"fatal", "wait"}
          /\ UNCHANGED <<bundled, card, token, functions>>
        BY <1>7 DEF Start
    <2> QED
        BY <2>1 DEF ServeInv
<1>8. CASE start
    BY <1>8 DEF start, ServeInv
<1>9. CASE Started
    BY <1>9 DEF Started, ServeInv
<1>10. CASE StartInterruptHandler
    BY <1>10 DEF StartInterruptHandler, ServeInv
<1>11. CASE Console_status
    BY <1>11 DEF Console_status, ServeInv
<1>12. ASSUME NEW ok \in BOOLEAN, Console_u2f(ok) PROVE ServeInv'
    BY <1>12 DEF Console_u2f, TokenInit, Console, ServeInv
<1>13. ASSUME NEW dcp \in BOOLEAN, Console_init(dcp) PROVE ServeInv'
    <2>1. card # "none" /\ card' # "none"
        BY <1>13, CardInitUse DEF Console_init
    <2> QED
        BY <1>13, <2>1 DEF Console_init, ServeInv
<1>14. CASE \/ generate
            \/ \E data \in {identity} \cup {private[k] : k \in Private}, dcp \in BOOLEAN :
                   HandleIdentity(data, dcp)
            \/ UNCHANGED fvars
    <2>1. UNCHANGED <<bundled, boot>>
        BY <1>14 DEF generate, HandleIdentity, fvars
    <2> QED
        BY <2>1 DEF boot, ServeInv
<1> QED
    BY <1>1, <1>2, <1>3, <1>4, <1>5, <1>6, <1>7, <1>8, <1>9, <1>10, <1>11, <1>12,
       <1>13, <1>14 DEF FirmwareNext, Boot

\* USB is served (StartInterruptHandler of gokey_imx6.go) only after the SSH
\* server accepts connections, and with exactly the functions of the parts that
\* are configured, after any boot on any unit.
THEOREM Serves == FirmwareSpec => []ServesWhenReady
<1>1. FirmwareInit => ServeInv
    BY DEF FirmwareInit, ServeInv
<1>2. ASSUME FirmwareInv, ServeInv PROVE ServesWhenReady
    <2> SUFFICES ASSUME main = "serving" PROVE ServesWhenReady
        BY DEF ServesWhenReady
    <2>1. ~initAtBoot => public["sshPublicKey"] # "nil"
        BY <1>2 DEF initAtBoot, FirmwareInv, RunInv, BundleInv
    <2> QED
        BY <1>2, <2>1 DEF ServeInv, ServesWhenReady, FunctionsOfCard, FunctionsOfToken,
           FunctionsOfConsole
<1> QED
    BY <1>1, <1>2, FirmwareInvariant, NextServe, PTL DEF FirmwareSpec

(***************************************************************************)
(* The boot on the unit that the firmware was bundled on                   *)
(***************************************************************************)

\* Where main is once the card, and the token, have been configured.
AfterCard == {"token", "init", "network", "console", "wait", "port", "serving"}
AfterToken == {"network", "console", "wait", "port", "serving"}

HomeInv ==
    /\ unit = here /\ ~fault =>
        /\ main \in AfterCard =>
              /\ private["pgpSecretKey"].data = "good" => card \in {"configured", "ready"}
              /\ initAtBoot => card # "configured"
        /\ main \in AfterToken \cup {"init"} =>
              (private["u2fPrivateKey"].data = "good" /\ public["u2fPublicKey"] = "good"
                 => token \in {"configured", "ready"})
        /\ main \in AfterToken /\ initAtBoot => token # "configured"
    /\ WellFormedBoots

\* On the unit it was bundled on, every key opens.
LEMMA OpensAtHome ==
    ASSUME FirmwareInv, NEW k \in Private, unit = here, private[k].data = "good"
    PROVE  /\ SNVS = "" \/ Decrypts(private[k], unit, DivOf(k), TRUE)
           /\ SNVS = "" => private[k].by = Plain
           /\ private[k] # Nil
<1>1. private[k] # Nil
    BY DEF Nil
<1> QED
    BY <1>1 DEF FirmwareInv, BundleInv, Bundled, Decrypts

\* The Start of the console fails only for a reason.
LEMMA StartAtHome ==
    ASSUME FirmwareInv, NEW dcp \in BOOLEAN, Start(dcp), unit = here, ~fault',
           card # "none" \/ token # "none",
           private["sshPrivateKey"].data # "bad"
    PROVE  main' = "wait"
<1>1. "sshPrivateKey" \in Private /\ DivOf("sshPrivateKey") = "SSH"
    BY DEF Private, DivOf
<1>2. private["sshPrivateKey"] \in Blob \cup {Nil}
    BY <1>1 DEF FirmwareInv, BundleInv, BundleTypes
<1>3. consoleSNVS <=> SNVS # ""
    BY DEF consoleSNVS
<1>4. CASE private["sshPrivateKey"] = Nil
    BY <1>3, <1>4 DEF Start
<1>5. CASE private["sshPrivateKey"] # Nil
    <2>1. private["sshPrivateKey"].data = "good"
        BY <1>2, <1>5 DEF Blob
    <2>2. CASE SNVS = ""
        <3>1. private["sshPrivateKey"].by = Plain
            BY <1>1, <2>1, <2>2, OpensAtHome
        <3>2. hostKey' = "bundled"
            BY <1>3, <1>5, <2>1, <2>2, <3>1 DEF Start
        <3> QED
            BY <3>2 DEF Start
    <2>3. CASE SNVS # ""
        <3>1. Decrypts(private["sshPrivateKey"], unit, "SSH", TRUE)
            BY <1>1, <2>1, <2>3, OpensAtHome
        <3>2. dcp
            BY <1>3, <1>5, <2>3 DEF Start
        <3>3. Decrypts(private["sshPrivateKey"], unit, "SSH", dcp)
            BY <3>1, <3>2 DEF Decrypts
        <3>4. hostKey' = "bundled"
            BY <1>3, <1>5, <2>1, <2>3, <3>3 DEF Start
        <3> QED
            BY <3>4 DEF Start
    <2> QED
        BY <2>2, <2>3
<1> QED
    BY <1>4, <1>5

\* card.Init of a well-formed key.
LEMMA CardAtHome ==
    ASSUME FirmwareInv, NEW dcp \in BOOLEAN, CardInit(dcp), unit = here, dcp,
           private["pgpSecretKey"].data = "good"
    PROVE  card' = "ready"
<1>1. "pgpSecretKey" \in Private /\ DivOf("pgpSecretKey") = "PGP"
    BY DEF Private, DivOf
<1>2. SNVS = "" \/ Decrypts(private["pgpSecretKey"], unit, "PGP", dcp)
    BY <1>1, OpensAtHome DEF Decrypts
<1> QED
    BY <1>2 DEF CardInit

\* u2f.Configure with well-formed keys.
LEMMA TokenAtHome ==
    ASSUME FirmwareInv, NEW dcp \in BOOLEAN, Configure(dcp), unit = here, ~fault',
           private["u2fPrivateKey"].data = "good", public["u2fPublicKey"] = "good"
    PROVE  token' = "configured"
<1>1. "u2fPrivateKey" \in Private /\ DivOf("u2fPrivateKey") = "U2F"
    BY DEF Private, DivOf
<1>2. Nil.data \notin {public["u2fPublicKey"], private["u2fPrivateKey"].data}
    BY DEF Nil
<1>3. dcp
    BY <1>2 DEF Configure
<1>4. SNVS = "" \/ Decrypts(private["u2fPrivateKey"], unit, "U2F", dcp)
    BY <1>1, <1>3, OpensAtHome DEF Decrypts
<1> QED
    BY <1>2, <1>4 DEF Configure

\* Every step keeps the invariant.
LEMMA NextHome ==
    ASSUME FirmwareInv, ServeInv, HomeInv, [FirmwareNext]_fvars
    PROVE  HomeInv'
<1> USE DEF bundled, AfterCard, AfterToken, initAtBoot
<1>1. CASE Bundle
    <2>1. bundle # "built" /\ UNCHANGED boot
        BY <1>1, BundleStep DEF FirmwareInv
    <2>2. main' = "off"
        BY <2>1 DEF FirmwareInv, RunInv, boot
    <2> QED
        BY <2>2 DEF HomeInv, WellFormedBoots
<1>2. CASE \/ \E u \in Units : PowerOn(u)
           \/ PowerOff
    BY <1>2 DEF PowerOn, PowerOff, HomeInv, WellFormedBoots
<1>3. CASE Main_SNVS
    BY <1>3 DEF Main_SNVS, HomeInv, WellFormedBoots
<1>4. ASSUME NEW dcp \in BOOLEAN, initCard(dcp) PROVE HomeInv'
    <2>1. main = "card" /\ main' = "token" /\ UNCHANGED <<bundled, unit>>
        BY <1>4 DEF initCard
    <2>2. card = "none"
        BY <2>1 DEF FirmwareInv, RunInv
    <2>3. ASSUME unit = here, ~fault', private["pgpSecretKey"].data = "good"
          PROVE  card' \in {"configured", "ready"}
        <3>1. private["pgpSecretKey"] # Nil
            BY <2>3 DEF Nil
        <3>2. dcp
            BY <1>4, <2>3, <3>1 DEF initCard
        <3> QED
            BY <1>4, <2>3, <3>1, <3>2, CardAtHome DEF initCard
    <2>4. initAtBoot => card' # "configured"
        BY <1>4, <2>2, CardInitUse DEF initCard
    <2> QED
        BY <2>1, <2>3, <2>4 DEF HomeInv, WellFormedBoots
<1>5. ASSUME NEW dcp \in BOOLEAN, Configure(dcp) PROVE HomeInv'
    <2>1. /\ main = "token" /\ main' \in {"init", "network"}
          /\ UNCHANGED <<bundled, unit, card>>
        BY <1>5 DEF Configure
    <2>2. token = "none"
        BY <2>1 DEF FirmwareInv, RunInv
    <2>3. main' = "network" /\ initAtBoot => token' # "configured"
        BY <1>5, <2>2 DEF Configure
    <2>4. ASSUME unit = here, ~fault',
                 private["u2fPrivateKey"].data = "good", public["u2fPublicKey"] = "good"
          PROVE  token' = "configured"
        BY <1>5, <2>4, TokenAtHome
    <2>5. fault => fault'
        BY <1>5, Zenon DEF Configure
    <2> QED
        BY <2>1, <2>3, <2>4, <2>5 DEF HomeInv, WellFormedBoots
<1>6. ASSUME NEW ok \in BOOLEAN, initToken(ok) PROVE HomeInv'
    <2>1. /\ main = "init" /\ main' \in {"panic", "network"}
          /\ UNCHANGED <<bundled, unit, card>>
          /\ fault => fault'
          /\ main' = "panic" => public["u2fPublicKey"] = "bad"
        BY <1>6 DEF initToken, TokenInit
    <2>2. token \in {"configured", "ready"} => token' \in {"configured", "ready"}
        BY <1>6 DEF initToken, TokenInit
    <2>3. ~fault' => token' # "configured"
        BY <1>6 DEF initToken, TokenInit
    <2>4. WellFormedBoots'
        BY <2>1 DEF WellFormedBoots, Public
    <2> QED
        BY <2>1, <2>2, <2>3, <2>4 DEF HomeInv
<1>7. ASSUME NEW ok \in BOOLEAN, configureNetworking(ok) PROVE HomeInv'
    <2>1. /\ main = "network" /\ main' \in {"port", "console", "fatal"}
          /\ UNCHANGED <<bundled, unit, card, token>>
        BY <1>7 DEF configureNetworking
    <2>2. (fault => fault') /\ (main' = "fatal" => fault')
        <3>1. CASE main' = "port" /\ UNCHANGED fault
            BY <3>1
        <3>2. CASE main' = (IF ok THEN "console" ELSE "fatal") /\ fault' = (fault \/ ~ok)
            BY <3>2
        <3> QED
            BY <1>7, <3>1, <3>2 DEF configureNetworking
    <2> QED
        BY <2>1, <2>2 DEF HomeInv, WellFormedBoots
<1>8. ASSUME NEW dcp \in BOOLEAN, Start(dcp) PROVE HomeInv'
    <2>1. /\ main = "console" /\ main' \in {"fatal", "wait"}
          /\ UNCHANGED <<bundled, unit, card, token>>
        BY <1>8 DEF Start
    <2>2. "sshPrivateKey" \in Private
        BY DEF Private
    <2>3. WellFormedBoots'
        BY <1>8, <2>1, <2>2, StartAtHome DEF WellFormedBoots
    <2>4. fault => fault'
        BY <1>8, Zenon DEF Start
    <2> QED
        BY <2>1, <2>3, <2>4 DEF HomeInv
<1>9. CASE start
    <2>1. /\ main = "wait" /\ main' \in {"wait", "fatal"}
          /\ UNCHANGED <<bundled, unit, card, token, fault>>
          /\ main' = "fatal" => public["sshPublicKey"] # "good"
        BY <1>9 DEF start
    <2>2. public["sshPublicKey"] \in {"good", "bad"}
        BY <2>1 DEF ServeInv, FirmwareInv, BundleInv, BundleTypes, Public
    <2>3. WellFormedBoots'
        BY <2>1, <2>2 DEF WellFormedBoots, Public
    <2> QED
        BY <2>1, <2>3 DEF HomeInv
<1>10. CASE Started
    BY <1>10 DEF Started, HomeInv, WellFormedBoots
<1>11. CASE StartInterruptHandler
    BY <1>11 DEF StartInterruptHandler, HomeInv, WellFormedBoots
<1>12. CASE Console_status
    BY <1>12 DEF Console_status, HomeInv, WellFormedBoots, Public
<1>13. ASSUME NEW ok \in BOOLEAN, Console_u2f(ok) PROVE HomeInv'
    <2>1. /\ main = "serving" /\ main' \in {"serving", "panic"}
          /\ UNCHANGED <<bundled, unit, card>>
          /\ fault => fault'
          /\ main' = "panic" => public["u2fPublicKey"] = "bad"
          /\ token' \in {token, "ready"} \/ token \notin {"configured", "ready"}
          /\ token' # token => token' # "configured"
        BY <1>13 DEF Console_u2f, TokenInit, Console
    <2>2. WellFormedBoots'
        BY <2>1 DEF WellFormedBoots, Public
    <2> QED
        BY <2>1, <2>2 DEF HomeInv
<1>14. ASSUME NEW dcp \in BOOLEAN, Console_init(dcp) PROVE HomeInv'
    <2>1. /\ main = "serving" /\ main' = "serving"
          /\ UNCHANGED <<bundled, unit, token>>
          /\ fault => fault'
          /\ ~fault' => dcp
        BY <1>14 DEF Console_init, Console
    <2>2. card' # "configured"
        BY <1>14, CardInitUse DEF Console_init
    <2>3. unit = here /\ ~fault' /\ private["pgpSecretKey"].data = "good" => card' = "ready"
        BY <1>14, <2>1, CardAtHome DEF Console_init
    <2> QED
        BY <2>1, <2>2, <2>3 DEF HomeInv, WellFormedBoots
<1>15. CASE \/ generate
            \/ \E data \in {identity} \cup {private[k] : k \in Private}, dcp \in BOOLEAN :
                   HandleIdentity(data, dcp)
            \/ UNCHANGED fvars
    <2>1. UNCHANGED <<bundled, boot>>
        BY <1>15 DEF generate, HandleIdentity, fvars
    <2> QED
        BY <2>1 DEF boot, HomeInv, WellFormedBoots
<1> QED
    BY <1>1, <1>2, <1>3, <1>4, <1>5, <1>6, <1>7, <1>8, <1>9, <1>10, <1>11, <1>12,
       <1>13, <1>14, <1>15 DEF FirmwareNext, Boot

\* A firmware with well-formed keys boots (gokey_imx6.go) on the unit that it
\* was bundled on unless the hardware fails, and comes to serve with its keys
\* in use, or waiting for the console.
THEOREM Boots == FirmwareSpec => []BootsAtHome
<1>1. FirmwareInit => ServeInv /\ HomeInv
    BY DEF FirmwareInit, ServeInv, HomeInv, WellFormedBoots, AfterCard, AfterToken
<1>2. HomeInv => BootsAtHome
    BY DEF HomeInv, BootsAtHome, KeysOpenAtHome, AfterCard, AfterToken
<1> QED
    BY <1>1, <1>2, FirmwareInvariant, NextServe, NextHome, PTL DEF FirmwareSpec

=============================================================================
