# A formal model of GoKey

TLA+ modules that model GoKey, the firmware that turns a USB armory Mk II into
an OpenPGP smart card, a U2F token and an age plugin; TLC configurations that
check them on small instances; and TLAPS proofs of their main properties for
every instance. Source paths are relative to the repository.

## 1. Inventory

| part | state | operations | interacts with |
|---|---|---|---|
| OpenPGP card `internal/icc` | subkeys by role, private keys encrypted or not, cached encrypted copies, PW1 error counter, signature counter, selected, initialized, LEDs | Init, Select, Verify, GetData, GenerateAsymmetricKeyPair, PSO:CDS / DEC / ENC, GetChallenge, getObjects | called by CCID, by vpcd, by every console session, by PKCS#11 |
| CCID reader `internal/ccid`, USB queue `internal/usb/smartcard.go` | an unbuffered channel of responses | Rx by message type, Tx | USB endpoints call it; it calls the card |
| Wake `internal/icc/wake.go` | awake, a timer | Wake, expiry | CCID and SSH call it |
| console `internal/usb/ssh.go` | one terminal shared by all sessions, log output | init, lock, unlock, rpc, u2f, p, age-plugin, reboot, status | calls card, token and plugin; a prompt suspends unlock |
| U2F token `internal/u2f` | presence channel, keyring counter, initialized; the hardware counter | Init, UserPresence, blink, Increment, Read | the U2F library calls it; the console sends on its channel |
| SNVS wrapping `internal/snvs` | none (device key) | Encrypt, Decrypt, DeviceKey | card, token, console, age plugin, bundling |
| age plugin `internal/age` | one plugin object with its IO | gen, identity-v1 | console |
| boot `gokey_imx6.go` | - | main, initCard, initToken, configureNetworking | starts everything |
| vpcd process `gokey_vpcd.go` | - | dial, handle request, serve RPC | calls the card |
| bundling `bundle_keys.go` | - | reads, wraps and embeds keys | fixes SNVS, initAtBoot and the keys of a build |

What is hard here. Nothing in the card is locked: USB, SSH sessions and RPC
connections run in goroutines of their own and meet in the same fields. A
console `unlock` spans a prompt. A verification is spent by a *deferred* call.
Aliases between subkeys decide what "locked" means. The U2F presence test is a
race between `p`, a timeout and a reinitialization, over channels that get
replaced; the counter is a read-modify-write on a block device that can fail or
lose power. Responses of the reader pass through a channel without buffer while
a host may have given up their commands. All SSH sessions share one terminal
and the log output. Three private keys are wrapped by a Linux program and
unwrapped by three parts of the firmware. `PROJECT.json` lists these hazards at
their lines.

What makes the parts correct:

* card: wrong passphrases are bounded over all ways to try them, by what each
  Init that ends grants; one verification pays for one use of the signature key; deselection locks;
  locking always finds the encrypted copy; the LED tells the truth;
* token: a signature is counted only with a presence confirmed for it; counter
  values increase over failures; a presence test ends and leaves nothing behind;
* reader: a response is identified by its Seq, also after commands that were
  given up; every command that deserves an answer gets its own, in order; the
  CPU slows down once, when the timer that the first Wake armed expires (a Wake
  while the CPU is awake does not arm it again);
* overlapping calls: what a second Init, or an export in the middle of a
  signature, can gain is bounded; the LEDs are right once the calls have ended;
* console: a session that is alone is served by its own terminal; log output
  returns to stdout; no goroutine outlives its clients;
* boot and bundling: what bundling wraps is what the firmware unwraps, on that
  unit and on no other; USB is served when everything is in place; a boot ends;
* octets: every encoder is read back by a decoder that follows the standard.

## 2. Modules

| module | what it is |
|---|---|
| `CardholderAuth` | abstract specification of cardholder authentication: two verification states, a retry budget, uses per verification, sessions that start the card, what an answer carries |
| `OpenPGPCard` | the card with its commands, PKCS#11 export, console `init`/`lock`/`unlock`, power on, boot and restart |
| `MCOpenPGPCard` | instances: seven kinds of bundled keys, six builds |
| `OpenPGPCardProofs` | the inductive invariant of the card and the invariants that follow from it |
| `OpenPGPCardRefinement` | action properties, the LED, and the refinement of `CardholderAuth` |
| `CardConcurrent` | the inside of Init, Verify, PSO:CDS and the export, cut where a goroutine lets others run |
| `CardConcurrentProofs` | its inductive invariant and what follows from it |
| `U2FToken` | the token, its hardware counter, console `u2f`, `u2f !test`, `p` |
| `MCU2FToken` | instances: five builds |
| `U2FTokenProofs` | the inductive invariant of the token and what follows from it |
| `ReaderLink` | abstract specification of a link between a host and a reader: take, drop, deliver in order, bounded |
| `CCIDReader` | CCID messages, the two USB endpoints and their channel, a host that gives up, Wake and its timer |
| `CCIDReaderProofs` | the invariants of the reader, and that it implements `ReaderLink` |
| `ManagementConsole` | accept loop, sessions, exec and forwarded channels; the shared terminal, log output and age plugin IO |
| `ManagementConsoleProofs` | the inductive invariant of the console and what follows from it |
| `Firmware` | bundling, wrapping, boot, the start of the SSH server, age identities, on several units |
| `FirmwareProofs` | the invariants of bundling and boot |
| `Encodings` | TLV, data objects, padding, signature halves, CCID payload, vpcd frames, as operators |
| `EncodingsProofs` | that every one of them does what its reference definition says, on inputs of every size |

Definitions named `Mut_...` are faulty variants of a definition after them
(a dropped guard, a missing reset); each makes one property fail and none is
used by a specification.

The modules meet where the code does. `CardConcurrent` refines the atomicity of
`OpenPGPCard` for one shape of card, together with the blinking LED of
`U2FToken`. `CCIDReader` hands APDUs to the card and knows of them only whether
RawCommand returns a response; which ones do not is what `OpenPGPCard` says
(`Fails`). `Firmware` produces the builds that `OpenPGPCard` and `U2FToken` have
as constants. `ManagementConsole` leaves the effect of commands to the modules
of card and token and keeps what sessions do to each other. `Encodings` has the
response bodies that `OpenPGPCard` leaves out.

### OpenPGPCard

`entity` is the sequence of subkeys that the bundled armored key decodes to; a
`*openpgp.Subkey` is an index into it, 0 for nil. Per subkey only what the code
branches on is kept: the flags of its binding signature, whether its private
key is nil, a stub or a key, its algorithm and its passphrase. `encrypted[i]` is
the `Encrypted` flag of `entity.Subkeys[i].PrivateKey`. `decodeSubkeys` takes
`&entity.Subkeys[i]` for Sig and Dec but `&subkey`, a copy, for Aut; the copy
shares the key object until PW_LOCK stores a restored object in the element
(`autShared`, `autEncrypted`). `cached` are the subkeys with a copy in
`card.sig`, `card.dec` or `card.aut`.

Actions follow the handlers: `Verify...` for the cases of Verify, `SelectOpenPGP`
and `SelectOther`, `GetData`, `GenerateAsymmetricKeyPair`,
`ComputeDigitalSignature`, `Decipher`, `Encipher`, `getObjects`. Deferred calls
are part of their action: `UseSig` contains the deferred PW_LOCK of PSO:CDS and
of the export, and `Signal` the deferred LED update. A handler that returns an
error leaves the host without answer on the USB armory and ends the vpcd
process (`Fails`); a nil dereference is `power = "panic"`. Response bodies are
left out except for the counters they carry, status words are kept (GET DATA of
an unknown tag answers 8800, since the code assigns SW1 twice). Data is one of
the classes the code distinguishes: empty, well formed, malformed, and data
that `v()` does not survive.

Each call into the card is one step, except Init from a session: it tests
`initialized` and reads ArmoredKey (`Init_Begin`), waits for the DCP, and does the
rest without looking at `initialized` again (`Init_End`, with `CardInit`). In
between anything else happens, also the whole Init of another session. In
`main` nothing runs beside it, and Init is one step. `lockCommand` is several: the
check and Init, the prompt, then one Verify call per password reference.
`todo[s]` holds what session `s` has left, "derive" for the wait of its Init.

`wrong`, `uses` and `granted` are history variables: wrong passphrases compared
with a key since the last right one, uses of the signature key since it was
unlocked, and the callers whose Init has succeeded since power on. `resp` is what
the last step answered to the host, if it was a command.

### U2FToken

A request goes through `pc`: idle, prompt (LED goroutine started, prompt being
written to the terminal), select, join (`done <- true`), increment, write
(eMMC only), answer. `channel` is the presence channel of the Counter that serves
it; channels are numbered as they are made, 0 is nil. Init() of a session takes
`token.Presence` first and publishes the new Counter after the hardware
answered, so other sessions and requests come in between (`initializing`).
`p` is a non-blocking send: it is received only by a request in its select.
A failing ATECC608A command or eMMC write may have taken effect or not. `stored`
and `sent` survive a restart. The U2F library is external: it asks for
presence, increments, and answers with the value, one request at a time.

### CardConcurrent

Tamago schedules cooperatively on one core, so a goroutine is interrupted where
it blocks or yields: in the DCP and in I/O. Log output is I/O once a session is
open, since it goes to the SSH terminal. `pc` of a caller names those places:
inside Init (`derive`, `personalised`), in the log output of Verify
(`verified`), between the check of a signature key and the deferred PW_LOCK
(`using`) and in the log output of that (`spent`). The reader's OUT goroutine is one
caller, each console session another one. `arg` is the ArmoredKey that Init
passed to `snvs.Decrypt` before it waited. The card is one with distinct,
protected signature and decryption keys, bundled with SNVS=ssh, which is the
case in which sessions run Init at all.

### CCIDReader

The OUT goroutine is in CCIDRx (`handling`, then `queue` while it blocks in
`queue <- in`) or waits for a message (`rx`); the IN goroutine polls CCIDTx or
holds a response until the host reads it (`tx`). A command has its place in the
order of sending, `n`, and its Seq is `n` modulo `SeqModulus`; the device sees
the Seq alone. Messages are told apart by what Rx and the handlers look at.
The three parameter commands have the same handler and are one type.
The host is external: it writes one command at a time, takes the first response
with the right Seq for its own, and may give up a command which is not taken or
not answered, at most `MaxGiveUps` times in a row. `ReaderLink` is what it relies
on; the refinement maps the device's two places for commands to `pending`.
`Wake` is part of CCIDRx and of the SSH server's accept loop, under its mutex.

### ManagementConsole

Sessions are numbered as they are opened; a terminal has the number of its
session. `c.term` is a variable of its own, because every session overwrites it,
and `on[s]` is the terminal that goroutine `s` reads from at the moment, because
ReadLine keeps the one it was called on. `log` is where log output goes besides
stdout, `io` what SetIO gave the age plugin. Commands are classes by what they
do with the session. The SSH library, which makes channels and closes them, is
external. Requests of a client that asks for both a shell and an exec on one
channel are left out (RFC 4254 forbids them), and so is the terminal size.

### Firmware

`bundle_keys.go` is read variable by variable, each with the files it may find.
A wrapped key is a record of its content and of the key it was encrypted with:
the unit, or NVTK for the test key that all units without secure boot share,
and the diversifier. Decrypt succeeds for exactly that key, because of the
HMAC. `main` goes through the calls of `gokey_imx6.go`; hardware may fail in
each (`fault` records it). Token.Init does not know whether Configure failed: it
then makes a token that is "initialized", and says so, without being "ready"
(`TokenInit`, at boot and for `u2f`). `Started` is the meeting of both sides of the channel.
A firmware may be booted on another unit than it was bundled on.

### Encodings

One step evaluates a function on an input that the initial state chose; the
properties compare the result with reference definitions written from the
standards: `Objects` reads BER-TLV by ISO 7816-4, `EncodedAs` says what it means
for a value to be at the start of a buffer. The reader is the recursive function
`ObjectsFrom`, from the position of an object to the objects from there on; `Header`
is what it makes of one tag and length. A panic is the value `Panic`. `Data`
computes with the integers of a target whose greatest int is `MaxInt`, and vpcd
lengths are taken modulo `LengthModulus`. Names have at most 65522 octets: the
cardholder template around a longer one does not fit the two octets that tlv has
for a length.

## 3. Runs

| run | bounds | shows |
|---|---|---|
| `CardApdu` | 6 builds, 7 entities, 2 passphrases, 1 session, 3 retries | `CardInv`, `OneUsePerVerification`, `BlueLED`, `LockFindsCache`, `DeselectLocks` |
| `CardConsole` | 2 SNVS=ssh builds, one whose key does not decode, 2 entities, 2 passphrases, 2 sessions, 2 retries | `BruteForceBound`, `BlockedUntilRestart`, `RefinesAuth` |
| `Concurrent` | the reader and 2 sessions, 2 retries | `RetriesPerInit`, `SharedVerification`, `LEDsSettle` (blue and white), types |
| `Token` | 4 builds, 2 sessions, 2 channels, counter up to 3 | `PresenceConfirmed`, `BlinkerJoined`, `TokenInv`, `CounterIncreases`, `PresenceTestEnds` |
| `Reader` | 4 commands, 3 Seq values, at most 2 given up in a row, a timer of 2 ticks | `SeqIdentifies`, `OneTimer`, `RefinesLink`, `Answered`, `FallsAsleep`, types |
| `Console` | 2 channels between restarts | `OwnTerminal`, `LogReturns`, `LoopsEnd`, types |
| `Boot` | 2 units, each secure booted or not, every environment | `KeysStayHome`, `BootsAtHome` (`KeysOpenAtHome` and `WellFormedBoots`), `ServesWhenReady`, `IdentityStaysHome`, `BootEnds`, types |
| `Encodings` | lengths around 0, 127, 128, 255, 256; all buffers of up to 4 octets out of 9; 6-bit integers; 3-bit frames | `ValuesFound` (`TLVInverse` and `ValueFound`), `HostReadsBack` (objects, signature counter, public key template), `PadWhole`, `SignatureSplits`, `DataIsField`, `FrameReadBack` |

What some of them say that is not obvious from the code:

* `BruteForceBound`: the check of `initialized` and its setting are separated by
  the DCP, so overlapping `init` or `unlock` commands each grant the retries. The
  bound is therefore a number of retries for each caller in `granted`: three in
  all on a card that main initializes, and three per session that was past the
  check when the first one ended, each counted once (`GrantsOnce`).
* `BlockedUntilRestart`: a card is `Blocked` when its counter is zero and no session
  is in Init. Then only a restart opens a key again. An Init that was waiting
  does fill the counter again, and locks the keys as it does.
* `RefinesAuth`: with the overlapping Inits (`starting`). An answer is "protected"
  when the decryption key made it, or PSO:ENC, and then PW1 is verified before
  and after the step; it is "device" when PSO:DEC had AES padding: the AES key
  of the device answers that, whether PW1 is verified or not. `CardDecipher` below
  is about this difference.
* `RetriesPerInit` is the same bound for calls that are cut at every place where
  they block.
* `SharedVerification`: a verification pays for one signature in spite of the
  window before the deferred PW_LOCK; exports may fall into that window, at most
  one by each session.
* `SeqIdentifies` and `Answered`: a host that gave up commands finds their late
  responses first and tells them by their Seq; it must not give up as many
  commands in a row as there are Seq values (`MaxGiveUps < SeqModulus`).
* `OwnTerminal` and `LogReturns` say what the one `c.term` still guarantees. With
  overlapping sessions lines and passphrases are read from the newest terminal,
  and `exit` typed there may be read by, and end, an older loop.
* `LogReturns`: because SetOutput is reset after Close, log output is back on
  stdout when the last shell ends, but the end of *any* shell takes it away from
  the others.
* `WellFormedBoots` is about firmwares with a card or a token; without either,
  `BootHostKey` below applies.
* `DataIsField` excludes a dwLength that is negative as an int: for those the
  offset lies beyond the buffer and the slice panics.
* `TLVInverse`, `ValueFound`: `v` does not read lengths of two octets, and panics.
* `SignatureSplits`: a host that cuts a signature in the middle gets r and s,
  unless X is shorter than the curve by more than two octets. The property says
  nothing of how long the halves should be: they have two octets more than X,
  68 for P-521, where the comment at `crypto.go:97` has 66 (see below).
* `ConsoleTypeOK` says besides the ranges that `c.term` is not nil where a session
  uses it.

Why the bounds suffice. Two passphrases give each key a right and a wrong one,
and let Sig and Dec have different ones. The entities have every shape of role
assignment: distinct subkeys, one subkey for all roles, a later subkey that
overrides an earlier one, an unprotected key, a stub, a missing private key, an
unsupported algorithm, no subkey at all. `DEFAULT_PW1_ERROR_COUNTER` is the
code's 3 there. `DSCLimit = 1` and `DSCModulus = 3` make the signature counter
pass its limit and wrap. In `CardApdu` one session interleaves the console with
APDUs; in `CardConsole` two overlap in Init, at the prompt and in their Verify
calls, with 2 retries (a counter that is neither full nor zero is reached) and
without the signature counter (`DSCLimit = 0`, `DSCModulus = 2`), which none of its
properties is about. The proofs cover every set of sessions and every number of
retries up to 255. TLC is given two reductions, which cut off no behaviour:
`CardConsole` takes sessions for alike (`Alike`; nothing in the module tells them
apart), and both runs view states by all variables but `resp`, of which only
`lastOut` is kept (`ButAnswers`): no action reads `resp`, and no property of these runs
more of it than `lastOut`. In `Concurrent` two sessions can
overlap in Init and the reader comes between. Two channels are the old and the new
one; a counter of 3 lets an answer follow a failed write and a restart. In
`Reader` the commands outnumber the Seq values, so that Seq wraps while late
responses are in the device, which holds two commands at most. In `Console` an
old and a new session overlap, which is what `c.term` and the log are shared by;
the proofs cover every number. Two units are one's own and another one.
In `Encodings` the lengths are the limits of the length forms; 6 bits have
negative integers as 32 have (`MaxInt = 31`), and a frame length of 3 bits overflows.

Bounded by guards: channels and counter of the token (`MaxChannels`,
`MaxCounter`), commands (`MaxCommands`) and sessions (`MaxSessions`) between
restarts. Deadlock is checked except where a system may stop: in `Boot` and
`BootHostKey` a bundling may fail for good, and `Encodings` is one evaluation.

Fairness. Safety runs assume none. `FairTokenSpec` assumes weak fairness of the
goroutine of a request with the blinking goroutine it waits for (the Go scheduler
runs a goroutine that stays runnable; `blink` polls its channel every 200 ms) and
of the timer in the select (`time.After` fires). `FairReaderSpec` assumes it of
both endpoint goroutines (the USB stack polls them), of time and of due timers,
and of a host that is waiting: it reads what there is to read. It may stop
sending, or give up, at any time. `FairConsoleSpec` assumes it of each session's
goroutine and that a read from a closed connection returns. `FairFirmwareSpec`
assumes it of main and of the server's goroutine. Nothing is assumed of users,
hardware or power.

### Disagreements between the code and its documentation

Each of these runs checks one statement of the repository and TLC finds a
behaviour of the code that contradicts it (quoted in `PROJECT.json`).

| run | statement | what happens |
|---|---|---|
| `CardNoAnswer` | Command returns a response | Encipher dereferences a missing Dec |
| `CardDecipher` | PW1 is "Used for PSO:DEC and PSO:ENC" | Decipher serves AES padding with the device key before it looks at PW1 |
| `CardAutAlias` | verification status matches decrypted keys in memory | the copy behind Aut outlives PW_LOCK when a subkey has several roles |
| `BootHostKey` | with SNVS the SSH host key is bundled encrypted, or derived from the unit | without OpenPGP and U2F keys it is neither decrypted nor derived |

Others are visible in the models without a run of their own: `counter.go:83`
builds the error "could not detect hardware model" and drops it, so that an
unknown board is taken to have an ATECC608A (`TokenBuild`); the halves of an ECDSA
signature have two octets more than the RFC text quoted at `crypto.go:97` gives
them (`padToKeySize`); the PKCS#11 export refuses ECDSA
keys, and the attempt locks the key (`getObjects`); SELECT of another application
ends no verification if OpenPGP was never selected (`SelectOther`); after a failed
`u2f !test` the token in use still waits for a presence (`u2f_NoTest`); with
SNVS unset the token is initialized at boot although there is a console, and
without presence test (`Boot`); a malformed U2F certificate panics in Status
(`TokenInit`, `Console_status`); Configure sets the keyring before it can fail, so
the check at the start of Token.Init cannot find a missing configuration, and a
token without USB function reports to be initialized (`TokenInit`); GET
DATA of an unknown tag assigns SW1 twice and answers 8800 (`GetData`); the
comments of snvs.go speak of AES-256, but the derived key has 16 octets; GET
CHALLENGE may return more octets than a vpcd frame can count.

## 4. Proofs

All theorems hold for every value of the constants that the ASSUME of the
module allows: any keys, builds, passphrases and sessions, any retry limit up to
255, any number of channels, commands and units, octets of any number. They are about the
specifications without fairness.

*Card.* `CardInv` is inductive. `BruteForceBound` alone is not: a step from an
arbitrary state with three wrong tries and a non-zero counter breaks it.
`RetryBudget` relates the two (once initialized, the counter and the wrong tries
are together no more than the limit for each caller in `granted`), `GrantsOnce` says
that a caller who was granted retries is not in Init anymore, and comes back to it
only after a restart,
`UseBudget` says that an open, protected signature key has not been used yet,
and `RolesConsistent` that every present role has its cached copy, that a card
not yet initialized has no roles, and that only protected keys are ever
encrypted. The proof splits `CardInv` into keys and counters, flags, and
control (`KeyInv`, `FlagTypes`, `ControlInv`), and goes through the actions with
one lemma per way to change keys: unlock, lock, use, init, reset.
A session that begins an Init finds the card not initialized, hence `granted`
empty; that is why overlapping Inits cannot grant without end. `decodeSubkeys`
picks the greatest index of a set, so `GreatestNatural` (from well-foundedness
of the naturals) is needed to know that it exists. From it follow `TypeCorrect`,
`BruteForce`, `OneUse`, `LockSafe`, then `BlockedCard`, `Deselect` and `Blue`, whose own
induction uses `CardInv`.

*Refinement.* `Refinement` proves that the card implements `CardholderAuth`:
`open` are the password references whose subkey is present and not encrypted,
`free` those without passphrase, `tries` the error counter. Unlock is Right,
Wrong or a stutter; lock is Close; a use is Use, closing also PW1 when one subkey
has both roles; `Init_Begin` is Begin, an Init that ends is Start or GiveUp, whether
the card is on by then or not; a restart is Stop. Every step also has to meet
`Answer`: it hands out nothing that PW1 protects unless PW1 is verified.

*Token.* `TokenInv` adds to the properties that a presence result in progress
comes with its confirmation, that the counter is never behind what was answered,
and that a value about to be answered is stored and larger than the last one.
`CounterMonotonic` follows.

*Overlapping calls.* `ConcurrentInv`, for any finite set of sessions. The bound on
wrong passphrases needs `RetryInv`: used and left retries were granted by an Init,
and the Inits done plus the sessions still in Init are no more than the
sessions, because nobody begins one after the first is done. `UseInv` says that an
open key has signed only while that signature is in progress. `Moved` relates the
number of callers in a place before and after a step.

*Reader.* `TimerSafe` and `ReaderTypes` are separate inductions. For
`OwnResponse`, `Recent` bounds how far a command in the device lies behind the last
one by what the host has given up, less than the number of Seq values, and
`RemainderInjective` does the rest. Why the invariant needs the order of the two
commands in the device: a host that takes a response as its own must know that
no older one is left behind it. `HandlersAnswer` compares the handlers with the
table of answers; `ReaderImplementsLink` then maps CCIDRx to Take, an error to
Drop, a read to Deliver, a power cycle to Unplug, and the rest to stutters.

*Console.* `ConsoleInv`, for any number of sessions: a session that is alone
stays so, because a session whose channel and goroutine are gone never comes
back; and log output on a terminal is owed to a shell that has yet to end
(`LogInv`). That `c.term` is not nil needs that a session which was asked for
something has a channel (`ModeInv`). One lemma (`WithinStep`) covers all steps within a session.

*Firmware.* `FirmwareInv`, for any set of units: `Bundled` says of each private key
that it is in the clear without SNVS and encrypted for its unit and its
diversifier otherwise; from it, a key does not decrypt elsewhere
(`OpensNowhereElse`) and does at home (`OpensAtHome`). The test key is assumed to
belong to no unit. `ServeInv` and `HomeInv` follow `main` from call to call.

*Encodings.* All six invariants, for every set of lengths and counters, every
block size, curve size and width of int. `EncodingsInv` is inductive: an evaluated
output is the function's value on the input. The rest is about the functions.
The provers cannot instantiate an induction schema, so the facts that need one
are stated about sets: a set of naturals that is not empty has a least element
(`LeastNat`, from the well-foundedness of the naturals), hence a set with 0 in it,
and with each number the next, has all numbers up to a bound (`SetInduction`). This
gives that the host's recursive function exists at all (`ReaderExists`) and unfolds
(`ReaderDef`). After that no induction is left: an answer has at most eight objects
at a level. `StandsAt` says that octets stand at a place of a longer sequence;
`HeaderRead` computes the header the host finds where tlv wrote one, in all three
forms of the length and both forms of the tag; `ObjectRead` makes of it that the
host reads one object and goes on right after it; `ReadsOne` to `ReadsEight` chain
these. `Short` bounds how long each nested object can be, so that its length takes
the form the host expects and the application related data fits a short response.
For `ValueFound`, `v` and the reference are compared case by case on the first
octet of the length.

Model-checked only: `PresenceTestEnds`, `Answered`, `FallsAsleep`, `LoopsEnd` and
`BootEnds` (liveness under fairness is out of the prover's reach); and the violated
statements of section 3.

## 5. Not modelled

* The p11kit, SSH, U2F, OpenPGP and age protocols and all cryptography:
  libraries, seen here through how the code uses them. An exported PKCS#11
  object keeps the key it was made of; `OneUsePerVerification` counts the export.
* The vpcd process dialing again, and requests of which only a part arrives:
  nothing in the repository says what should become of them.
* A stalled SSH handshake. `Accept` and `NewServerConn` are modelled, but the
  accept loop performs the handshake itself and without deadline, so that there
  is no progress to state.
* Preemption at arbitrary instructions. `CardConcurrent` cuts calls at blocking
  points; the data races of a parallel Go runtime do not exist on the single core.
* Wrapping of the U2F counter at 2^32.
* USB descriptors, memory layout, terminal size: no state of their own.

## 6. Plan

Modelled, checked and proved so far: sections 2 to 4. What could be added:

1. the composition of `CardConcurrent` with `ManagementConsole`, so that a prompt
   that moves to another terminal is seen in the state of the card;
2. `CardConcurrent` for cards in which one subkey has several roles;
3. a refinement of `CardholderAuth` by `CardConcurrent` for one session, which
   would say that with a single caller the cuts make no difference.
