------------------------------ MODULE PathScope ------------------------------
(***************************************************************************)
(* The path scope of an execution: how the prefixes of the engagement      *)
(* scope and of the authorization scope become the frozen snapshot, and    *)
(* how the executor holds a url's path against the snapshot.               *)
(*                                                                         *)
(* A path is the sequence of the segments after its leading slash, so      *)
(* "/a" is <<"a">>, "/a/" is <<"a", "">> and "/" is <<"">>.  Prefixes are  *)
(* written the same way; they all start with a slash.                      *)
(***************************************************************************)
EXTENDS Naturals, Sequences

\* The segment after a slash at the end.
Empty == ""
Slash == <<Empty>>

\* rstrip("/"): the prefix without the slashes it ends in.
Bare(prefix) ==
  LET last == CHOOSE n \in 0..Len(prefix) :
                /\ n > 0 => prefix[n] # Empty
                /\ \A i \in (n + 1)..Len(prefix) : prefix[i] = Empty
  IN SubSeq(prefix, 1, last)

\* Broken: the prefix need not end at a slash, "/a" covers "/ab".
UnderBroken(path, prefix) ==
  \/ path = prefix
  \/ /\ Len(Bare(prefix)) <= Len(path)
     /\ \A i \in 1..(Len(Bare(prefix)) - 1) : path[i] = prefix[i]

\* "/admin" covers itself and whatever lies a slash below it.
Under(path, prefix) ==
  \/ path = prefix
  \/ /\ Len(Bare(prefix)) < Len(path)
     /\ \A i \in 1..Len(Bare(prefix)) : path[i] = prefix[i]

\* Exclusions win; without allowed prefixes every other path is allowed.
PathAllowed(path, allowed, excluded) ==
  /\ ~\E p \in excluded : Under(path, p)
  /\ allowed = {} \/ \E p \in allowed : Under(path, p)

\* The authorization's prefixes are one text, entries separated by commas,
\* and the executor iterates over what the snapshot holds: over a text, that
\* is over its characters.  Of the prefixes one character long only "/" covers
\* a path, and every text that is not empty has one.
Characters(text) == IF text = {} THEN {} ELSE {Slash}

\* The engagement scope's list if it has one, be it empty, else whatever the
\* authorization scope has; an execution need not have one of these.
Frozen(override, default) ==
  IF override.given THEN override.paths ELSE Characters(default)

=============================================================================
