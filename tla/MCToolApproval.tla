---------------------------- MODULE MCToolApproval ----------------------------
(* Model values for checking ToolApproval with TLC. *)
EXTENDS ToolApproval

CONSTANTS s1, o1, o2, a1, a2

OneSession == {s1}
TwoOps == {o1, o2}
BothInOne == o1 :> s1 @@ o2 :> s1
TwoArgs == {a1, a2}
ArgSymmetry == Permutations(TwoArgs)

Call(effect, folder, by) == [effect |-> effect, folder |-> folder, by |-> by]
Kinds ==
  {Call("read", TRUE, "model"), Call("write", FALSE, "model"), Call("write", TRUE, "model"),
   Call("execute", FALSE, "model"), Call("write", FALSE, "person"), Call("execute", TRUE, "person")}
===============================================================================
