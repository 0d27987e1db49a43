--------------------------- MODULE MCAuthorization ---------------------------
(***************************************************************************)
(* Instances of Authorization for TLC.                                     *)
(***************************************************************************)
EXTENDS Authorization

CONSTANTS asset, passive, critical, r1, r2

OneAsset    == {asset}
TwoGrants   == {passive, critical}
OneGrant    == {passive}
PassiveOnly == {<<passive, {asset}>>}
TwoReaders  == {r1, r2}


=============================================================================
