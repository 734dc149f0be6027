----------------------------- MODULE MCDispatch -----------------------------
(***************************************************************************)
(* Four blocks over two code pages and a data page: two keys of one pc, so *)
(* that a link can lead to the right pc under the wrong key, three pcs, so *)
(* that a block has more successors than exits, and hash chains and filter *)
(* bits that collide.                                                      *)
(***************************************************************************)
EXTENDS Dispatch, TLC

Block(pc, key) == [pc |-> pc, key |-> key]

U == Block(1, "user")
K == Block(1, "kernel")
V == Block(2, "user")
W == Block(3, "user")

MCNames == {U, K, V, W}

MCPages == {"code", "library", "data"}

MCPageOf == [n \in MCNames |-> IF n.pc = 3 THEN "library" ELSE "code"]

MCBucketOf == [n \in MCNames |-> IF n.key = "user" THEN 0 ELSE 1]

MCBitOf == [p \in MCPages |-> IF p = "code" THEN 0 ELSE 1]

MCTemps == [n \in MCNames |-> IF n.pc = 2 THEN 2 ELSE 1]

(* The first scene fills and overfills the cache with interpreted blocks,  *)
(* one of which has three successors; the second chains compiled blocks    *)
(* that rewrite their own page and the other; the third replaces the       *)
(* topology under compiled blocks; the fourth resets the code buffer under *)
(* live links, the blocks needing frames of different lengths; the last    *)
(* resets it for a block that it then refuses.                             *)
Scene(goes, compiles, huge, stores, remaps, stamps, generations) ==
    [goes |-> goes, compiles |-> compiles, huge |-> huge, stores |-> stores,
     remaps |-> remaps, stamps |-> stamps, generations |-> generations]

MCScenes ==
    {Scene((U :> {V, W, K}) @@ (V :> {U, W}) @@ (W :> {U}) @@ (K :> {U}), {}, {}, {"code"}, 0, 5, 1),
     Scene((U :> {U, V}) @@ (V :> {U, K}) @@ (K :> {V}), {U, V}, {}, {"code"}, 0, 5, 3),
     Scene((U :> {U, W}) @@ (W :> {U, W}), {U, W}, {}, {"library", "code"}, 1, 4, 2),
     Scene((U :> {V, W}) @@ (V :> {U, K}) @@ (W :> {V}) @@ (K :> {U}), {U, V, W}, {}, {}, 0, 5, 3),
     Scene((U :> {V, W}) @@ (V :> {U}) @@ (W :> {U, V}), {U, V, W}, {W}, {"data"}, 0, 4, 3)}
=============================================================================
