----------------------------- MODULE MCU2FToken -----------------------------
(***************************************************************************)
(* Small instances of U2FToken.                                            *)
(***************************************************************************)
EXTENDS U2FToken

TOKEN(model, keys, ssh, initAtBoot) ==
    [model |-> model, keys |-> keys, ssh |-> ssh, initAtBoot |-> initAtBoot]

SshToken    == TOKEN("GAMMA", TRUE, TRUE, FALSE)   \* SNVS=ssh
SshBeta     == TOKEN("BETA", TRUE, TRUE, TRUE)
AutoToken   == TOKEN("GAMMA", TRUE, FALSE, TRUE)
KeylessToken == TOKEN("BETA", FALSE, TRUE, TRUE)
UnknownToken == TOKEN("unknown", TRUE, FALSE, TRUE)

AllTokens   == {SshToken, SshBeta, AutoToken, KeylessToken}
BootTokens  == {SshBeta}
OddTokens   == {UnknownToken}
=============================================================================
