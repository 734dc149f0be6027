----------------------------- MODULE MCAtomics -----------------------------
EXTENDS Atomics, TLC

CONSTANTS c1, c2, c3

I(op, a) == [op |-> op, addr |-> a]

TwoWords == [c \in Cores |-> 2]

MixedWords == c1 :> 2 @@ c2 :> 1 @@ c3 :> 1

(* Two harts updating one word by both kinds of atomic, beside a core that    *)
(* stores to the word next to it in the same granule.                        *)
ContendedMenu == (c1 :> {I("lr", 0), I("sc", 0)})
              @@ (c2 :> {I("lr", 0), I("sc", 0), I("amo", 0)})
              @@ (c3 :> {I("store", 1)})
ContendedBudget == c1 :> 2 @@ c2 :> 2 @@ c3 :> 1

(* Harts that come and go, each with its own granule. *)
AttachMenu == (c1 :> {I("lr", 0), I("detach", 0)})
           @@ (c2 :> {I("lr", 0), I("trap", 0), I("detach", 0)})
           @@ (c3 :> {I("store", 0)})

AttachBudget == c1 :> 3 @@ c2 :> 2 @@ c3 :> 1

(* A hart storing to its own reservation, beside accesses that fault: word 3 *)
(* is not mapped.                                                           *)
FaultMenu == (c1 :> {I("lr", 0), I("sc", 0), I("store", 0)})
          @@ (c2 :> {I("lr", 0), I("lr", 3), I("amo", 3)})
          @@ (c3 :> {I("store", 3)})

FaultBudget == c1 :> 2 @@ c2 :> 2 @@ c3 :> 1

(* A reservation on each of two granules and a core that stores to both. *)
StoreMenu == (c1 :> {I("lr", 0)}) @@ (c2 :> {I("lr", 2)}) @@ (c3 :> {I("store", 0), I("store", 2)})

StoreBudget == c1 :> 1 @@ c2 :> 1 @@ c3 :> 2

MCScenes == <<[menu |-> ContendedMenu, budget |-> ContendedBudget, size |-> TwoWords, buffered |-> TRUE],
              [menu |-> AttachMenu, budget |-> AttachBudget, size |-> MixedWords, buffered |-> FALSE],
              [menu |-> FaultMenu, budget |-> FaultBudget, size |-> MixedWords, buffered |-> FALSE]>>


StoreScenes == <<[menu |-> StoreMenu, budget |-> StoreBudget, size |-> TwoWords, buffered |-> FALSE]>>
=============================================================================
