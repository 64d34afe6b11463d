--------------------------- MODULE CardholderAuth ---------------------------
(***************************************************************************)
(* What the card promises about cardholder authentication, independently   *)
(* of subkeys, caches, LEDs and transports.                                *)
(*                                                                         *)
(* There are two verification states, one for signatures (PW1_CDS) and one *)
(* for decipherment (PW1).  A state opens by the right passphrase only,    *)
(* after at most MaxTries wrong ones in a row, and one opening of PW1_CDS  *)
(* pays for a single use of the signature key.  Sessions that were let in  *)
(* while the card had no keys may each start it, and with it the tries,    *)
(* once more.                                                              *)
(***************************************************************************)
EXTENDS Integers

CONSTANTS MaxTries, Sessions

PW == {"PW1_CDS", "PW1"}

VARIABLES
    on,     \* the card holds its keys
    free,   \* states that need no passphrase
    open,   \* states that are verified
    tries,  \* wrong passphrases still allowed
    used,   \* uses of the signature key since PW1_CDS was opened
    out,    \* what the answer of the last step carries
    starting \* sessions about to start the card

authVars == <<on, free, open, tries, used, out, starting>>

AuthInit ==
    /\ on = FALSE
    /\ free = {}
    /\ open = {}
    /\ tries = 0
    /\ used = 0
    /\ out = "none"
    /\ starting = {}

\* A step answers with what PW1 protects only while PW1 is verified, before
\* and after it; what the device key deciphers is handed out at any time.
Answer ==
    /\ out' \in {"none", "protected", "device"}
    /\ out' = "protected" => "PW1" \in open /\ "PW1" \in open'

\* A session is let in while the card has no keys.
Begin(s) ==
    /\ ~on
    /\ starting' = starting \cup {s}
    /\ UNCHANGED <<on, free, open, tries, used>>

\* The card starts by itself while nobody else is there, or by a session that
\* was let in, even if it is on by then.
Start(F) ==
    /\ \/ ~on /\ starting = {} /\ UNCHANGED starting
       \/ \E s \in starting : starting' = starting \ {s}
    /\ on' = TRUE
    /\ free' = F
    /\ open' = F
    /\ tries' = MaxTries
    /\ used' = 0

GiveUp(s) ==
    /\ s \in starting
    /\ starting' = starting \ {s}
    /\ UNCHANGED <<on, free, open, tries, used>>

Stop ==
    /\ on' = FALSE
    /\ free' = {}
    /\ open' = {}
    /\ tries' = 0
    /\ used' = 0
    /\ starting' = {}

\* P has both states when one subkey serves both purposes.
Right(P) ==
    /\ on
    /\ tries > 0
    /\ P # {}
    /\ P \cap open = {}
    /\ open' = open \cup P
    /\ tries' = MaxTries
    /\ used' = IF "PW1_CDS" \in P THEN 0 ELSE used
    /\ UNCHANGED <<on, free, starting>>

Wrong ==
    /\ on
    /\ tries > 0
    /\ tries' = tries - 1
    /\ UNCHANGED <<on, free, open, used, starting>>

Close(P) ==
    /\ on
    /\ open' = open \ (P \ free)
    /\ UNCHANGED <<on, free, tries, used, starting>>

Use(P) ==
    /\ on
    /\ "PW1_CDS" \in (open \ free) \cap P
    /\ open' = open \ (P \ free)
    /\ used' = used + 1
    /\ UNCHANGED <<on, free, tries, starting>>

Idle == UNCHANGED <<on, free, open, tries, used, starting>>

AuthNext ==
    /\ Answer
    /\ \/ \E F \in SUBSET PW : Start(F)
       \/ \E s \in Sessions : Begin(s) \/ GiveUp(s)
       \/ Stop
       \/ \E P \in SUBSET PW : Right(P) \/ Close(P) \/ Use(P)
       \/ Wrong
       \/ Idle

AuthSpec == AuthInit /\ [][AuthNext]_authVars

=============================================================================
