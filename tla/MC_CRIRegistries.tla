-------------------------- MODULE MC_CRIRegistries --------------------------
(* Model values and small inputs for CRIRegistries.  Host "sa" is chosen    *)
(* next to "a" because "http"+"sa" and "https"+"a" are the same key.       *)
EXTENDS CRIRegistries

MC_Hosts == { <<97>>, <<115, 97>> }            \* "a", "sa"

CONSTANTS r1, r2, ca1

MC_RefNames == {r1, r2}

\* r1 exists and points at https://a with its own CA; r2 has been deleted.
MC_Store == r1 :> [scheme |-> HTTPS, host |-> <<97>>, skipVerify |-> FALSE, ca |-> ca1]

\* before its CA was configured, r1 skipped verification
MC_OldStore == r1 :> [scheme |-> HTTPS, host |-> <<97>>, skipVerify |-> TRUE, ca |-> NoCA]

MC_CAs == {ca1}
=============================================================================
