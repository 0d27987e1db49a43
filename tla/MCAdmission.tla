------------------------------ MODULE MCAdmission ------------------------------
(***************************************************************************)
(* Values for checking Admission: one engagement, two authorizations that  *)
(* an engagement or a request may name, one of which ends before the other.*)
(***************************************************************************)
EXTENDS Admission, TLC

CONSTANTS a, b, e, k, p

\* The first grant ends after the second.
TwoGrants ==
  {(a :> [assets |-> {p}, tier |-> 0, window |-> <<0, 2>>]) @@
   (b :> [assets |-> {p}, tier |-> 0, window |-> <<0, 1>>])}

\* One that both grants cover, one the second does not, one without a scope and
\* one that is too long.
FourDrafts ==
  {[scope |-> {p}, tier |-> 0, window |-> <<0, 1>>],
   [scope |-> {p}, tier |-> 0, window |-> <<0, 2>>],
   [scope |-> {}, tier |-> 0, window |-> <<0, 1>>],
   [scope |-> {p}, tier |-> 0, window |-> <<0, 3>>]}

\* One key; the requests may ask for either authorization.
KeyedPayloads ==
  {[key |-> k, engagement |-> e, auth |-> x, asset |-> p] : x \in {a, b}}

RequestSymmetry == Permutations(Requests)
=============================================================================
