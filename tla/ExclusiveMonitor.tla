-------------------------- MODULE ExclusiveMonitor --------------------------
(* The reservation table every core of one address space shares             *)
(* (core/space/monitor.rs).  Its fields are atomics and no lock covers them, *)
(* so each operator below is one atomic access: the callers interleave.      *)
EXTENDS Integers, FiniteSets, FiniteSetsExt

CONSTANTS
  Slots,        \* the indices of the table, 0 .. MONITOR_SLOTS - 1
  CountModulus  \* the wrap of the outstanding counter, 2^64 in the code

ASSUME TableAssumption ==
  /\ Slots \subseteq Nat
  /\ IsFiniteSet(Slots)
  /\ CountModulus \in Nat \ {0}

(* A reserved granule is its base and its length; the code packs both in one *)
(* word, the length in the low bits the base leaves free.                    *)
Granule == [base : Nat, size : Nat \ {0}]

GranuleOf(addr, size) == [base |-> (addr \div size) * size, size |-> size]

(* Whether a store of `bytes` at `addr` touches the granule. *)
Covers(g, addr, bytes) == addr < g.base + g.size /\ g.base < addr + bytes

Monitor == [claimed : SUBSET Slots, live : SUBSET Slots,
            slots : [Slots -> Granule], outstanding : 0 .. CountModulus - 1]

New == [claimed |-> {}, live |-> {},
        slots |-> [s \in Slots |-> GranuleOf(0, 1)], outstanding |-> 0]

(* register's compare-and-swap takes the lowest free bit. *)
FreeSlots(m) == Slots \ m.claimed

claim(m) == [m EXCEPT !.claimed = @ \cup {Min(FreeSlots(m))}]

unclaim(m, s) == [m EXCEPT !.claimed = @ \ {s}]

(* reserve: the granule first, then the bit that publishes it. *)
put_granule(m, s, g) == [m EXCEPT !.slots[s] = g]

set_live(m, s) == [m EXCEPT !.live = @ \cup {s}]

clear_live(m, s) == [m EXCEPT !.live = @ \ {s}]

count_up(m) == [m EXCEPT !.outstanding = (@ + 1) % CountModulus]

count_down(m) == [m EXCEPT !.outstanding = (@ + CountModulus - 1) % CountModulus]

holds(m, s) == s \in m.live
=============================================================================
