---------------------------- MODULE MCCompanyAccess ----------------------------
(* Bounds for TLC: no company yet; or one with a key and a client. *)
EXTENDS CompanyAccess, TLC

CONSTANTS c1, c2

Empty == [companies |-> {}, keys |-> {}, clients |-> {}, tokens |-> {}, made |-> 0]
OneCompany ==
  [companies |-> {c1}, keys |-> {Owned(1, c1)}, clients |-> {Owned(2, c1)},
   tokens |-> {}, made |-> 2]
EmptyOrOne == {Empty, OneCompany}

SmallLIMITS == [sensitive |-> 1, attest |-> 1, standard |-> 2]
Symmetry == Permutations(Requests) \cup Permutations(Servers)
=============================================================================
