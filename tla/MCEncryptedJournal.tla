-------------------------- MODULE MCEncryptedJournal --------------------------
(* Model values and symmetry for checking EncryptedJournal with TLC. *)
EXTENDS EncryptedJournal

CONSTANTS c1, c2, e1, e2

Pages == {c1, c2}
Old == {c2}
OneEvent == {e1}
TwoEvents == {e1, e2}
EventSymmetry == Permutations(TwoEvents)
===============================================================================
