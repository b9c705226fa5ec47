----------------------------- MODULE Reachability ----------------------------
(***************************************************************************)
(* What a relation reaches, a set of pairs <<from, to>>.                   *)
(***************************************************************************)
EXTENDS Naturals

\* What steps lead to from these elements.
Onward(steps, from) == {s[2] : s \in {t \in steps : t[1] \in from}}

\* What is reached from some elements in so many steps or less.
ReachedIn(steps, from, most) ==
  LET reached[i \in Nat] ==
        IF i = 0 THEN from ELSE LET before == reached[i - 1] IN before \cup Onward(steps, before)
  IN  reached[most]
=============================================================================
