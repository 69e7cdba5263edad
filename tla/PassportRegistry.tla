--------------------------- MODULE PassportRegistry ---------------------------
(***************************************************************************)
(* What a company's passports promise the systems that check them online:  *)
(* a passport is live from its issuance until it is spent, each passport   *)
(* is replaced by at most one other, and what is spent stays spent.        *)
(***************************************************************************)
CONSTANT Passports

VARIABLES
  live,            \* passports that may still be used or replaced
  spent            \* passports that were revoked or replaced

vars == <<live, spent>>

Init == live = {} /\ spent = {}

Grant(p) ==
  /\ p \notin live \cup spent
  /\ live' = live \cup {p}
  /\ UNCHANGED spent

Replace(p, q) ==
  /\ p \in live
  /\ q \notin live \cup spent
  /\ live' = (live \ {p}) \cup {q}
  /\ spent' = spent \cup {p}

Revoke(gone) ==
  /\ gone # {}
  /\ live' = live \ gone
  /\ spent' = spent \cup gone

Next ==
  \/ \E p \in Passports : Grant(p) \/ \E q \in Passports : Replace(p, q)
  \/ \E gone \in SUBSET live : Revoke(gone)

Spec == Init /\ [][Next]_vars
=============================================================================
