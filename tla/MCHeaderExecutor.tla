--------------------------- MODULE MCHeaderExecutor ---------------------------
(***************************************************************************)
(* Instances of HeaderExecutor for TLC.                                    *)
(***************************************************************************)
EXTENDS HeaderExecutor

CONSTANTS site, other, broken, mangled, public, private

Root    == Slash
Account == <<"account">>
Admin   == <<"account", "admin">>
AdminSlash == <<"account", "admin", "">>

At(o, p) == [origin |-> o, path |-> p]

\* Two urls in scope, one excluded below an allowed one, one outside every
\* allowed prefix, one of another origin, one with credentials and one whose
\* port is no number.
SiteUrls == {At(site, Account), At(site, <<"account", "x">>), At(site, Admin),
             At(site, Root), At(other, Account), At(broken, Root), At(mangled, Root)}
UnsafeUrls    == {At(broken, Root)}
MangledUrls   == {At(mangled, Root)}
SiteOnly      == {site}
PublicAddresses  == {public}
PrivateAddresses == {private}

ScopePrefixes == {Account, Admin, AdminSlash}

None    == [given |-> FALSE, paths |-> {}]
List(p) == [given |-> TRUE, paths |-> p]
Columned(a, x) == [c \in Columns |-> IF c = "allowed" THEN a ELSE x]
Queued(default, override) == [default |-> default, override |-> override]

\* Nothing in the authorization, prefixes in the engagement; an empty list
\* that lifts the authorization's prefixes; no restriction at all.
OwnScopes == {
  Queued(Columned({}, {}), Columned(List({Account}), List({Admin}))),
  Queued(Columned({Account}, {Account}), Columned(List({}), List({AdminSlash}))),
  Queued(Columned({}, {}), Columned(None, None))}

\* The authorization's prefixes are inherited, to allow, to exclude or both.
InheritedScopes == {
  Queued(Columned({Account}, {}), Columned(None, None)),
  Queued(Columned({}, {Admin}), Columned(List({Account}), None)),
  Queued(Columned({Account}, {Admin}), Columned(None, None)),
  Queued(Columned({Account}, {Admin}), Columned(None, List({Admin})))}

AllScopes == OwnScopes \cup InheritedScopes

=============================================================================
