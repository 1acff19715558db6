--------------------------- MODULE MCSnapshotTree ---------------------------
(***************************************************************************)
(* Small chains of blocks for SnapshotTree: accounts that are written,     *)
(* destructed and created again, with a fork.                              *)
(***************************************************************************)
EXTENDS SnapshotTree

Block(p, ds, d) == [parent |-> p, destructs |-> ds, data |-> d]

(* An account lives, dies and comes back; the fork is shorter than what a  *)
(* commit leaves in memory.                                                *)
MCBlocks ==
    ("p" :> Block("g", {}, <<1, 0>> :> 1 @@ <<1, 1>> :> 1)) @@
    ("a" :> Block("p", {1}, <<2, 0>> :> 1 @@ <<2, 1>> :> 1)) @@
    ("b" :> Block("a", {}, <<1, 0>> :> 2 @@ <<2, 0>> :> 2 @@ <<2, 1>> :> 2)) @@
    ("c" :> Block("b", {2}, <<1, 0>> :> 3 @@ <<1, 1>> :> 2)) @@
    ("d" :> Block("c", {}, <<2, 0>> :> 3)) @@
    ("x" :> Block("a", {}, <<1, 1>> :> 3 @@ <<1, 0>> :> 3))

(* One account that dies and comes back, for the settings with restarts.   *)
MCLine ==
    ("p" :> Block("g", {}, <<1, 0>> :> 1 @@ <<1, 1>> :> 1)) @@
    ("a" :> Block("p", {1}, << >>)) @@
    ("b" :> Block("a", {}, <<1, 0>> :> 2)) @@
    ("c" :> Block("b", {}, <<1, 0>> :> 3 @@ <<1, 1>> :> 2))

(* The same with two slots, so that a flush may be cut short between them, *)
(* and another account that the block changes with it.                     *)
MCTorn ==
    ("p" :> Block("g", {}, <<1, 0>> :> 1 @@ <<1, 1>> :> 1 @@ <<1, 2>> :> 1 @@ <<2, 0>> :> 1)) @@
    ("a" :> Block("p", {1}, <<2, 0>> :> 2)) @@
    ("b" :> Block("a", {}, <<1, 0>> :> 2 @@ <<1, 1>> :> 2))

Setting(bs, n, s, c, m, k, crash, disable) ==
    [blocks |-> bs, accounts |-> 1 .. n, slots |-> 1 .. s, cap |-> c, objects |-> m, restarts |-> k,
     fail |-> crash, reset |-> disable]

(* Commits, caps and the generator; crashes and restarts; resets.          *)
MCSettings == {Setting(MCBlocks, 2, 1, 2, 16, 0, FALSE, FALSE),
               Setting(MCLine, 1, 1, 1, 9, 2, TRUE, FALSE),
               Setting(MCTorn, 2, 2, 1, 8, 1, TRUE, FALSE),
               Setting(MCLine, 1, 1, 1, 6, 0, FALSE, TRUE)}
=============================================================================
