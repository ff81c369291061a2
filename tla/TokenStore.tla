----------------------------- MODULE TokenStore -----------------------------
(***************************************************************************)
(* The OAuth tokens in the system keyring: three separate secrets, each    *)
(* read and written by a call of its own, kept when the program ends. An   *)
(* access token is represented by the time at which it expires, a refresh  *)
(* token by its number in the order of issue; a text that is only the      *)
(* beginning of a token, and accepted nowhere, is Broken.                  *)
(***************************************************************************)
EXTENDS Integers

CONSTANT Margin     \* the 60 s by which a token counts as expired early

ASSUME MarginAssumption == Margin \in Nat

VARIABLES
    keyring,        \* the secrets access_token, refresh_token, expires_at
    now             \* system_clock

Fields == {"access", "refresh", "expires"}
None   == 0         \* secretGet finds nothing; for expires_at that reads as 0
Broken == -1
Secrets == Nat \cup {Broken}

TokenStoreInit == keyring = [f \in Fields |-> None]

SecretSet(f, v) == keyring' = [keyring EXCEPT ![f] = v]

\* secretSet frees the error and returns as if the secret were stored.
SecretSetFails == UNCHANGED keyring

IsExpired == keyring["expires"] < now + Margin

IsAuthenticated == keyring["access"] # None
=============================================================================
