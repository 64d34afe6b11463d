------------------------------- MODULE Firmware -------------------------------
(***************************************************************************)
(* From the environment of bundle_keys.go to a device that answers on USB: *)
(* the bundling of the keys, their wrapping by internal/snvs, the boot of  *)
(* gokey_imx6.go with the start of the SSH server of internal/usb, and the *)
(* wrapping of identities by internal/age.                                 *)
(*                                                                         *)
(* A firmware is bundled once, on one unit, and may then be booted on any. *)
(* Files and keys are told apart by whether they are well-formed.          *)
(***************************************************************************)
EXTENDS Naturals, FiniteSets

CONSTANT Units  \* USB armory boards

\* The test key belongs to none of them.
ASSUME FirmwareAssumption == Units # {} /\ "NVTK" \notin Units

(***************************************************************************)
(* A key that encrypts data: the OTPMK of a unit that is secure booted or  *)
(* the test key that is the same for all others, diversified.  What it     *)
(* encrypts opens with nothing else, because of the HMAC.                  *)
(***************************************************************************)
NVTK == "NVTK"
Diversifiers == {"SSH", "PGP", "U2F", "AGE"}
Key == [unit: Units \cup {NVTK}, div: Diversifiers]
Plain == [unit |-> "none", div |-> "none"]

\* Private keys: data is "nil", or whether it is well-formed; by is the key it
\* is encrypted with.
Blob == [data: {"good", "bad"}, by: Key \cup {Plain}]
Nil == [data |-> "nil", by |-> Plain]

Private == {"sshPrivateKey", "pgpSecretKey", "u2fPrivateKey"}
Public == {"sshPublicKey", "u2fPublicKey"}

VARIABLES
    secure,     \* units that are secure booted
    here,       \* the unit that the firmware is bundled on
    bundle,     \* bundle_keys.go: the variable it reads next, "built", "fatal"
    SNVS,       \* of the environment: "", "on" or "ssh"
    private,    \* private keys of keys.go
    public,     \* public keys of keys.go: "nil", "good" or "bad"
    unit,       \* the unit that runs the firmware
    main,       \* where main is: "off", see Main below
    sshd,       \* goroutine of the SSH server
    hostKey,    \* "none", "bundled", "device" or "random"
    card,       \* "none", "configured", "failed" or "ready"
    token,      \* "none"; "failed" by Configure, or "initialized" all the same;
                \* "configured", or "ready" when initialized
    functions,  \* functions of the USB device
    fault,      \* history: some hardware failed since power on
    identity,   \* the age identity that a client has, of any unit
    answer      \* the last answer to a client of the age plugin

bundled == <<secure, here, bundle, SNVS, private, public>>
boot    == <<unit, main, sshd, hostKey, card, token, functions, fault>>
client  == <<identity, answer>>
fvars   == <<bundled, boot, client>>

NoAnswer == [data |-> Nil, dcp |-> FALSE, opened |-> FALSE]

FirmwareInit ==
    /\ secure \in SUBSET Units
    /\ here \in Units
    /\ bundle = "SNVS"
    /\ SNVS = ""
    /\ private = [k \in Private |-> Nil]
    /\ public = [k \in Public |-> "nil"]
    /\ unit = here
    /\ main = "off" /\ sshd = "none" /\ hostKey = "none"
    /\ card = "none" /\ token = "none" /\ functions = {} /\ fault = FALSE
    /\ identity = Nil /\ answer = NoAnswer

(***************************************************************************)
(* Wrapping                                                                *)
(***************************************************************************)

\* The DCP, by the Linux driver or by the firmware.  External.
DeriveKey(u, div) ==
    [unit |-> IF u \in secure THEN u ELSE NVTK, div |-> div]

Mut_Encrypt_OneKey(data, u, div) ==
    [data |-> data, by |-> DeriveKey(u, "PGP")]

Encrypt(data, u, div) == [data |-> data, by |-> DeriveKey(u, div)]

\* Decrypt succeeds: the derivation does not fail and the HMAC is right.
Decrypts(blob, u, div, dcp) == dcp /\ blob.by = DeriveKey(u, div)

(***************************************************************************)
(* bundle_keys.go, variable by variable.                                   *)
(***************************************************************************)

\* Any SNVS but "" is tried out with a test derivation.
Bundle_SNVS(value, driver) ==
    /\ bundle = "SNVS"
    /\ SNVS' = value
    /\ bundle' = IF value # "" /\ ~driver THEN "fatal" ELSE "sshPublicKey"
    /\ UNCHANGED <<secure, here, private, public, boot, client>>

Mut_Bundle_Public_RawFile(k, file, next) ==
    /\ bundle = k
    /\ public' = [public EXCEPT ![k] = file]
    /\ bundle' = IF file = "missing" THEN "fatal" ELSE next
    /\ UNCHANGED <<secure, here, SNVS, private, boot, client>>

\* A file is "unset" when its variable is; "missing" when it cannot be read.
Bundle_Public(k, file, next) ==
    /\ bundle = k
    /\ public' = [public EXCEPT ![k] =
                    IF file \in {"good", "bad"} THEN file ELSE "nil"]
    /\ bundle' = IF \/ file = "missing"
                    \/ k = "sshPublicKey" /\ SNVS = "ssh" /\ public'[k] = "nil"
                 THEN "fatal" ELSE next
    /\ UNCHANGED <<secure, here, SNVS, private, boot, client>>

Mut_Bundle_Private_PlainU2F(k, div, file, driver, next) ==
    /\ bundle = k
    /\ \/ /\ file \in {"unset", "empty"}
          /\ bundle' = next
          /\ UNCHANGED private
       \/ /\ file \in {"good", "bad"}
          /\ private' = [private EXCEPT ![k] =
                            IF SNVS = "" \/ k = "u2fPrivateKey"
                            THEN [data |-> file, by |-> Plain]
                            ELSE Encrypt(file, here, div)]
          /\ bundle' = next
    /\ UNCHANGED <<secure, here, SNVS, public, boot, client>>

\* Encryption fails without driver, and for what is shorter than a block.
Bundle_Private(k, div, file, driver, next) ==
    /\ bundle = k
    /\ \/ /\ file = "unset"
          /\ bundle' = next
          /\ UNCHANGED private
       \/ /\ \/ file = "missing"
             \/ SNVS # "" /\ file # "unset" /\ (~driver \/ file = "empty")
          /\ bundle' = "fatal"
          /\ UNCHANGED private
       \/ /\ SNVS # "" /\ driver /\ file \in {"good", "bad"}
          /\ private' = [private EXCEPT ![k] = Encrypt(file, here, div)]
          /\ bundle' = next
       \/ /\ SNVS = "" /\ file \in {"good", "bad", "empty"}
          /\ private' = [private EXCEPT ![k] =
                            IF file = "empty" THEN Nil
                            ELSE [data |-> file, by |-> Plain]]
          /\ bundle' = next
    /\ UNCHANGED <<secure, here, SNVS, public, boot, client>>

Bundle ==
    \/ \E value \in {"", "on", "ssh"}, driver \in BOOLEAN : Bundle_SNVS(value, driver)
    \/ \E file \in {"unset", "missing", "empty", "good", "bad"} :
        \/ Bundle_Public("sshPublicKey", file, "sshPrivateKey")
        \/ Bundle_Public("u2fPublicKey", file, "u2fPrivateKey")
        \/ \E driver \in BOOLEAN :
            \/ Bundle_Private("sshPrivateKey", "SSH", file, driver, "pgpSecretKey")
            \/ Bundle_Private("pgpSecretKey", "PGP", file, driver, "u2fPublicKey")
            \/ Bundle_Private("u2fPrivateKey", "U2F", file, driver, "built")

initAtBoot == SNVS # "ssh"

(***************************************************************************)
(* Main: "SNVS" (the hardware is checked next), "card", "token", "init"    *)
(* (token.Init), "network", "console" (Start), "wait" (for Started),       *)
(* "port", then "serving" USB; or it ended in "fatal" or "panic".          *)
(***************************************************************************)

PowerOn(u) ==
    /\ bundle = "built" /\ main = "off"
    /\ unit' = u
    /\ main' = "SNVS"
    /\ UNCHANGED <<bundled, sshd, hostKey, card, token, functions, fault, client>>

\* Also the `reboot' command.
PowerOff ==
    /\ main # "off"
    /\ unit' = here
    /\ main' = "off" /\ sshd' = "none" /\ hostKey' = "none"
    /\ card' = "none" /\ token' = "none" /\ functions' = {} /\ fault' = FALSE
    /\ answer' = NoAnswer
    /\ UNCHANGED <<bundled, identity>>

Mut_Main_SNVS_NoCheck ==
    /\ main = "SNVS"
    /\ main' = "card"
    /\ UNCHANGED <<bundled, unit, sshd, hostKey, card, token, functions, fault, client>>

Main_SNVS ==
    /\ main = "SNVS"
    /\ main' = IF SNVS # "" /\ unit \notin secure THEN "fatal" ELSE "card"
    /\ UNCHANGED <<bundled, unit, sshd, hostKey, card, token, functions, fault, client>>

\* card.Init unwraps the key and decodes it.
CardInit(dcp) ==
    card' = IF /\ private["pgpSecretKey"].data = "good"
               /\ SNVS = "" \/ Decrypts(private["pgpSecretKey"], unit, "PGP", dcp)
            THEN "ready" ELSE "failed"

initCard(dcp) ==
    /\ main = "card"
    /\ main' = "token"
    /\ \/ /\ private["pgpSecretKey"] = Nil
          /\ UNCHANGED <<card, functions, fault>>
       \/ /\ private["pgpSecretKey"] # Nil
          /\ IF initAtBoot THEN CardInit(dcp) ELSE card' = "configured"
          /\ fault' = (fault \/ ~dcp)
          /\ functions' = functions \cup {"CCID"}
    /\ UNCHANGED <<bundled, unit, sshd, hostKey, token, client>>

\* u2f.Configure; a token that it fails for has no USB function to be used by.
Configure(dcp) ==
    /\ main = "token"
    /\ \/ /\ Nil.data \in {public["u2fPublicKey"], private["u2fPrivateKey"].data}
          /\ main' = "network"
          /\ UNCHANGED <<token, functions, fault>>
       \/ /\ Nil.data \notin {public["u2fPublicKey"], private["u2fPrivateKey"].data}
          /\ main' = IF initAtBoot THEN "init" ELSE "network"
          /\ fault' = (fault \/ ~dcp)
          /\ IF /\ SNVS = "" \/ Decrypts(private["u2fPrivateKey"], unit, "U2F", dcp)
                /\ private["u2fPrivateKey"].data = "good"
                /\ public["u2fPublicKey"] = "good"
             THEN token' = "configured" /\ functions' = functions \cup {"U2F"}
             ELSE token' = "failed" /\ UNCHANGED functions
    /\ UNCHANGED <<bundled, unit, sshd, hostKey, card, client>>

\* token.Init does not ask whether Configure succeeded; the status that it logs
\* at the end dereferences the certificate.  ok: counter hardware and DCP do not
\* fail.
TokenInit(ok, next) ==
    /\ main' = IF ok /\ public["u2fPublicKey"] = "bad" THEN "panic" ELSE next
    /\ token' = IF ~ok THEN token
                ELSE IF token \in {"configured", "ready"} THEN "ready" ELSE "initialized"
    /\ fault' = (fault \/ ~ok)

initToken(ok) ==
    /\ main = "init"
    /\ TokenInit(ok, "network")
    /\ UNCHANGED <<bundled, unit, sshd, hostKey, card, functions, client>>

\* configureNetworking up to the start of the console.
configureNetworking(ok) ==
    /\ main = "network"
    /\ \/ /\ public["sshPublicKey"] = "nil"
          /\ main' = "port"
          /\ UNCHANGED <<functions, fault>>
       \/ /\ public["sshPublicKey"] # "nil"
          /\ main' = IF ok THEN "console" ELSE "fatal"
          /\ functions' = IF ok THEN functions \cup {"ECM"} ELSE functions
          /\ fault' = (fault \/ ~ok)
    /\ UNCHANGED <<bundled, unit, sshd, hostKey, card, token, client>>

\* Card.SNVS || Token.SNVS: both are set with the rest of their configuration.
consoleSNVS == SNVS # "" /\ (card # "none" \/ token # "none")

\* Console.Start: the host key, then the goroutine.
Start(dcp) ==
    /\ main = "console"
    /\ LET blob == private["sshPrivateKey"]
           parsed == /\ blob.data = "good"
                     /\ IF consoleSNVS THEN Decrypts(blob, unit, "SSH", dcp)
                                       ELSE blob.by = Plain
       IN \/ /\ blob # Nil
             /\ hostKey' = IF parsed THEN "bundled" ELSE "none"
             /\ fault' = (fault \/ (consoleSNVS /\ ~dcp))
          \/ /\ blob = Nil /\ consoleSNVS
             /\ hostKey' = IF dcp THEN "device" ELSE "none"
             /\ fault' = (fault \/ ~dcp)
          \/ /\ blob = Nil /\ ~consoleSNVS
             /\ hostKey' = "random"
             /\ UNCHANGED fault
    /\ main' = IF hostKey' = "none" THEN "fatal" ELSE "wait"
    /\ sshd' = IF hostKey' = "none" THEN sshd ELSE "starting"
    /\ UNCHANGED <<bundled, unit, card, token, functions, client>>

\* start, in its goroutine, up to c.Started <- true.
start ==
    /\ sshd = "starting" /\ main = "wait"
    /\ IF public["sshPublicKey"] = "good"
       THEN sshd' = "started" /\ UNCHANGED main
       ELSE main' = "fatal" /\ UNCHANGED sshd
    /\ UNCHANGED <<bundled, unit, hostKey, card, token, functions, fault, client>>

Mut_Started_NoWait ==
    /\ main = "wait"
    /\ main' = "port"
    /\ UNCHANGED <<bundled, unit, sshd, hostKey, card, token, functions, fault, client>>

Mut_Started_Never == FALSE /\ UNCHANGED fvars

\* The two sides of the channel Started meet.
Started ==
    /\ main = "wait" /\ sshd = "started"
    /\ main' = "port"
    /\ sshd' = "accept"
    /\ UNCHANGED <<bundled, unit, hostKey, card, token, functions, fault, client>>

StartInterruptHandler ==
    /\ main = "port"
    /\ main' = "serving"
    /\ UNCHANGED <<bundled, unit, sshd, hostKey, card, token, functions, fault, client>>

Boot ==
    \/ Main_SNVS
    \/ \E ok \in BOOLEAN : initCard(ok) \/ Configure(ok) \/ initToken(ok)
                             \/ configureNetworking(ok) \/ Start(ok)
    \/ start
    \/ Started
    \/ StartInterruptHandler

(***************************************************************************)
(* The console of a device that serves                                     *)
(***************************************************************************)

Console == main = "serving" /\ sshd = "accept"

\* `init'
Console_init(dcp) ==
    /\ Console
    /\ card = "configured"
    /\ CardInit(dcp)
    /\ fault' = (fault \/ ~dcp)
    /\ UNCHANGED <<bundled, unit, main, sshd, hostKey, token, functions, client>>

\* `u2f', as often as one likes, for a token that was given keys.
Console_u2f(ok) ==
    /\ Console
    /\ token # "none"
    /\ TokenInit(ok, main)
    /\ UNCHANGED <<bundled, unit, sshd, hostKey, card, functions, client>>

\* `status' of a token with keys.
Console_status ==
    /\ Console
    /\ token # "none" /\ public["u2fPublicKey"] = "bad"
    /\ main' = "panic"
    /\ UNCHANGED <<bundled, unit, sshd, hostKey, card, token, functions, fault, client>>

\* `age-plugin gen'
generate ==
    /\ Console /\ SNVS # ""
    /\ identity' = Encrypt("good", unit, "AGE")
    /\ UNCHANGED <<bundled, boot, answer>>

\* The plugin is given the identity of the client, or something else that was
\* encrypted for the unit.
HandleIdentity(data, dcp) ==
    /\ Console /\ SNVS # ""
    /\ answer' = [data |-> data, dcp |-> dcp,
                  opened |-> Decrypts(data, unit, "AGE", dcp) /\ data.data = "good"]
    /\ UNCHANGED <<bundled, boot, identity>>

-----------------------------------------------------------------------------

FirmwareNext ==
    \/ Bundle
    \/ \E u \in Units : PowerOn(u)
    \/ PowerOff
    \/ Boot
    \/ \E ok \in BOOLEAN : Console_init(ok) \/ Console_u2f(ok)
    \/ Console_status
    \/ generate
    \/ \E data \in {identity} \cup {private[k] : k \in Private}, dcp \in BOOLEAN :
        data # Nil /\ HandleIdentity(data, dcp)

FirmwareSpec == FirmwareInit /\ [][FirmwareNext]_fvars

\* Both goroutines of the boot are scheduled.
FairFirmwareSpec == FirmwareSpec /\ WF_fvars(Boot)

(***************************************************************************)
(* Properties                                                              *)
(***************************************************************************)

\* The type invariant.
FirmwareTypeOK ==
    /\ secure \subseteq Units /\ here \in Units
    /\ bundle \in Private \cup Public \cup {"SNVS", "built", "fatal"}
    /\ SNVS \in {"", "on", "ssh"}
    /\ private \in [Private -> Blob \cup {Nil}]
    /\ public \in [Public -> {"nil", "good", "bad"}]
    /\ unit \in Units
    /\ main \in {"off", "SNVS", "card", "token", "init", "network", "console",
                 "wait", "port", "serving", "fatal", "panic"}
    /\ sshd \in {"none", "starting", "started", "accept"}
    /\ hostKey \in {"none", "bundled", "device", "random"}
    /\ card \in {"none", "configured", "failed", "ready"}
    /\ token \in {"none", "failed", "initialized", "configured", "ready"}
    /\ functions \subseteq {"CCID", "U2F", "ECM"}
    /\ fault \in BOOLEAN
    /\ identity \in Blob \cup {Nil}
    /\ answer \in [data: Blob \cup {Nil}, dcp: BOOLEAN, opened: BOOLEAN]

\* A firmware bundled with SNVS holds no private key in the clear, and keys
\* bundled on a secure booted unit are of use on that unit alone: nowhere else
\* does the card, the token or the SSH server ever get at them.
KeysStayHome ==
    SNVS # "" =>
        /\ \A k \in Private : private[k] # Nil => private[k].by # Plain
        /\ here \in secure /\ unit # here =>
              card # "ready" /\ token \notin {"configured", "ready"} /\ hostKey # "bundled"

\* On the unit it was bundled on, if no hardware fails, a firmware serves with
\* each of its keys that is well-formed in use, or waiting for the console when
\* it was bundled with SNVS=ssh.
KeysOpenAtHome ==
    main = "serving" /\ unit = here /\ ~fault =>
        /\ private["pgpSecretKey"].data = "good" => card \in {"configured", "ready"}
        /\ private["u2fPrivateKey"].data = "good" /\ public["u2fPublicKey"] = "good"
              => token \in {"configured", "ready"}
        /\ initAtBoot => card # "configured" /\ token # "configured"

\* USB requests are answered only when all is in place: with a console, after
\* the SSH server accepts connections, and with the functions of the parts that
\* were configured, no more and no less; and a device that has not initialized
\* its keys at boot has a console to do it from.
ServesWhenReady ==
    main = "serving" =>
        /\ ~initAtBoot => sshd = "accept"
        /\ public["sshPublicKey"] # "nil" => sshd = "accept"
        /\ functions = (IF card # "none" THEN {"CCID"} ELSE {})
                         \cup (IF token \in {"configured", "ready"} THEN {"U2F"} ELSE {})
                         \cup (IF public["sshPublicKey"] # "nil" THEN {"ECM"} ELSE {})

\* A boot comes to an end for one of the reasons the code means it to: of a
\* firmware with a card or a token, well-formed keys and its own, secure booted,
\* unit if it was bundled with SNVS, it only fails with the hardware.
WellFormedBoots ==
    /\ unit = here /\ ~fault
    /\ SNVS # "" => here \in secure
    /\ card # "none" \/ token # "none"
    /\ \A k \in Private : private[k].data # "bad"
    /\ \A k \in Public : public[k] # "bad"
    => main \notin {"fatal", "panic"}

\* A well-formed firmware boots on its own unit, and its keys are of use there.
BootsAtHome == KeysOpenAtHome /\ WellFormedBoots

\* An age identity opens on the unit that generated it, for as long as the DCP
\* works; no other unit opens it, and nothing else that was encrypted for the
\* unit opens in its place.
IdentityStaysHome ==
    answer # NoAnswer =>
        (answer.opened <=>
            answer.dcp /\ answer.data.by = [unit |-> unit, div |-> "AGE"])

\* A boot does not hang: main gets to serving USB, or ends.
BootEnds == main = "SNVS" ~> main \in {"serving", "fatal", "panic", "off"}

\* README: "When SNVS is set the key is encrypted, before being bundled, for a
\* specific hardware unit.  On secure booted units, if left empty, the SSH
\* server key is uniquely and deterministically generated for each hardware
\* unit."  The server of a firmware with SNVS has its bundled key, or the key
\* of the unit.
HostKeyOfUnit ==
    /\ SNVS # "" /\ unit = here /\ ~fault
    /\ main \in {"serving", "fatal"}
    /\ here \in secure
    /\ public["sshPublicKey"] = "good"
    /\ private["sshPrivateKey"].data # "bad"
    => hostKey = IF private["sshPrivateKey"] = Nil THEN "device" ELSE "bundled"

=============================================================================
