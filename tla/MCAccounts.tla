------------------------------ MODULE MCAccounts ------------------------------
(***************************************************************************)
(* An instance of Accounts for TLC.                                        *)
(***************************************************************************)
EXTENDS Accounts

CONSTANTS u1, u2, t1, t2

TwoUsers    == {u1, u2}
TwoRequests == {t1, t2}

=============================================================================
