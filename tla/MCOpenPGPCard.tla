--------------------------- MODULE MCOpenPGPCard ----------------------------
(***************************************************************************)
(* Small instances of OpenPGPCard.                                         *)
(***************************************************************************)
EXTENDS OpenPGPCard, TLC

CONSTANTS p1, p2

SUB(flags, priv, alg, pass) ==
    [flags |-> flags, priv |-> priv, alg |-> alg, pass |-> pass]

EncFlags == {"encryptStorage", "encryptCommunications"}

\* A signature, a decryption and an authentication subkey; the signature and
\* decryption subkeys have a passphrase each.
Usual == << SUB({"sign"}, "key", "rsa", p1),
            SUB(EncFlags, "key", "rsa", p2),
            SUB({"authenticate"}, "key", "rsa", p1) >>

Curves == << SUB({"sign"}, "key", "ecdsa", p1),
             SUB(EncFlags, "key", "ecdh", p1) >>

\* One subkey in every role.
Single == << SUB(Flags, "key", "rsa", p1) >>

\* The later of two signature subkeys counts, it is not protected; the
\* decryption subkey has one of its two flags only and counts for nothing.
Odd == << SUB({"sign"}, "key", "rsa", p1),
          SUB({"encryptStorage"}, "key", "ecdh", p1),
          SUB({"sign", "authenticate"}, "key", "ecdsa", NoPassphrase) >>

\* Key material left off the device, and an unsupported algorithm.
Partial == << SUB({"sign"}, "stub", "rsa", NoPassphrase),
              SUB(EncFlags, "key", "other", p1) >>

PublicOnly == << SUB({"sign"}, "nil", "rsa", NoPassphrase) >>

BUILD(platform, hab, SNVS, initAtBoot, ssh, decodes) ==
    [platform |-> platform, hab |-> hab, SNVS |-> SNVS,
     initAtBoot |-> initAtBoot, ssh |-> ssh, decodes |-> decodes]

Locked  == BUILD("imx6", TRUE, TRUE, FALSE, TRUE, TRUE)    \* SNVS=ssh
Secure  == BUILD("imx6", TRUE, TRUE, TRUE, FALSE, TRUE)
Plain   == BUILD("imx6", FALSE, FALSE, TRUE, FALSE, TRUE)
Misfit  == BUILD("imx6", FALSE, TRUE, TRUE, FALSE, TRUE)
Garbled == BUILD("imx6", TRUE, TRUE, FALSE, TRUE, FALSE)
Vpcd    == BUILD("vpcd", FALSE, FALSE, TRUE, FALSE, TRUE)

ApduBuilds  == {Secure, Plain, Misfit, Vpcd, Locked, Garbled}
SshBuilds   == {Locked, Garbled}
AllEntities == {Usual, Curves, Single, Odd, Partial, PublicOnly, <<>>}
SshEntities == {Curves, PublicOnly}

\* Sessions are interchangeable.
Alike == Permutations(Sessions)

\* No action reads resp and no property of the runs that use this view reads
\* more of it than lastOut: states that agree on the rest are one state.
ButAnswers == <<fixed, power, armored, roles, selected, keys, pwVars,
                digitalSignatureCounter, blue, white, todo, lastOut>>
=============================================================================
