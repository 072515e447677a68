------------------------- MODULE MCExtensionRelay -------------------------
(* Instances of ExtensionRelay for TLC: what the commands may contain.     *)
EXTENDS ExtensionRelay, TLC
CONSTANTS s1, s2, t1, t2

ShapeOf(k, s, t) == [kind |-> k, session |-> s, target |-> t]

(* The commands about tabs: those with ids on one session and target:   *)
(* "forward" names a session (which may be stale) and another target.      *)
Shapes ==
  { ShapeOf("autoAttach", None, None), ShapeOf("autoAttach", s1, None),
    ShapeOf("attach", None, t1),
    ShapeOf("forward", s1, t2) }

(* For the runs about sockets and timers the contents matter little.       *)
FewShapes == { ShapeOf("local", None, None), ShapeOf("attach", None, None),
               ShapeOf("forward", None, None) }

Symmetry == Permutations(Client) \cup Permutations(Cmd) \cup Permutations(Ext)
=============================================================================
