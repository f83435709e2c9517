------------------------------ MODULE Credential ------------------------------
(***************************************************************************)
(* What a third party relies on when it is shown a soultoken: the holder   *)
(* never changes, the signature always covers the validity date on record, *)
(* a revocation is final, and only a token that is not revoked is renewed. *)
(***************************************************************************)
CONSTANTS CredentialIds, Holders, Dates

VARIABLE credentials    \* id -> [holder, until, sealed, state]

Credentials == [holder: Holders, until: Dates, sealed: Dates, state: {"live", "revoked"}]

Granted(c, h, until) ==
    [d \in DOMAIN credentials \cup {c} |->
        IF d = c THEN [holder |-> h, until |-> until, sealed |-> until, state |-> "live"]
        ELSE credentials[d]]

Init == credentials = [c \in {} |-> "none"]

Grant(c, h, until) ==
    /\ c \in CredentialIds \ DOMAIN credentials
    /\ credentials' = Granted(c, h, until)

Renew(c, until) ==
    /\ c \in DOMAIN credentials
    /\ credentials[c].state = "live"
    /\ credentials' = [credentials EXCEPT ![c].until = until, ![c].sealed = until]

Revoke(c) ==
    /\ c \in DOMAIN credentials
    /\ credentials' = [credentials EXCEPT ![c].state = "revoked"]

Next ==
    \E c \in CredentialIds :
        \/ \E h \in Holders, until \in Dates : Grant(c, h, until)
        \/ \E until \in Dates : Renew(c, until)
        \/ Revoke(c)

Spec == Init /\ [][Next]_credentials
=============================================================================
