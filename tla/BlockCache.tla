----------------------------- MODULE BlockCache -----------------------------
(***************************************************************************)
(* The cache of translated blocks (jit/cache.rs) as operators from one     *)
(* cache value to the next.  A slot holds a block or is vacant; a block    *)
(* has two exits that may be linked straight to a successor and a set of   *)
(* back edges, one for every exit that is linked to it.  A link and an id  *)
(* carry the stamp of the block they mean, because a slot is reused.       *)
(*                                                                         *)
(* Data that no property tells apart is left out: a name is a (pc, key)    *)
(* pair, a hash chain is the sequence of its slots from the head on, and a *)
(* translation's page is a function of its name.                           *)
(***************************************************************************)
EXTENDS Naturals, FiniteSets, Sequences, SequencesExt

CONSTANTS
    Capacity,   \* BlockCache::capacity, at least one
    Names,      \* the (pc, key) pairs the guest runs, as [pc, key] records
    Pages,      \* the guest-physical pages, those that hold no code included
    PageOf,     \* [Names -> Pages]: the page a block is lifted from
    BucketOf,   \* [Names -> Buckets]: the hash of a name
    BitOf,      \* [Pages -> bits]: the filter bit of a page, not injective
    NoName

ASSUME CacheAssumption ==
    /\ Capacity \in Nat \ {0}
    /\ NoName \notin Names
    /\ PageOf \in [Names -> Pages]

Slots == 1 .. Capacity

EXITS == 1 .. 2

NoLink == [pc |-> 0, target |-> 0, stamp |-> 0]

NoCode == [index |-> 0, generation |-> 0]

NoId == [slot |-> 0, stamp |-> 0]

(* A slot without a block: stamps start at one. *)
Vacant == [name |-> NoName, stamp |-> 0, exits |-> [x \in EXITS |-> NoLink],
           preds |-> {}, code |-> NoCode]

EmptyCache(stamp, topology) ==
    [slots |-> [i \in Slots |-> Vacant], next_stamp |-> stamp,
     buckets |-> [n \in {BucketOf[m] : m \in Names} |-> <<>>],
     pages |-> [p \in Pages |-> <<>>], free |-> <<>>, filter |-> {}, order |-> <<>>,
     topology |-> topology, stale_links |-> 0]

Occupied(c, i) == i \in Slots /\ c.slots[i].stamp # 0

len(c) == Cardinality({i \in Slots : c.slots[i].stamp # 0})

(* The block an id names is still there. *)
slot(c, id) == Occupied(c, id.slot) /\ c.slots[id.slot].stamp = id.stamp

flush(c) == [EmptyCache(c.next_stamp, c.topology) EXCEPT !.stale_links = c.stale_links]

sync(c, epoch) ==
    IF epoch # c.topology THEN [flush(c) EXCEPT !.topology = epoch] ELSE c

(* The first slot of the hash chain that holds the name, or zero; a vacant *)
(* slot in the chain ends the search.                                      *)
find(c, n) ==
    LET chain == c.buckets[BucketOf[n]]
        Stops(k) == ~ Occupied(c, chain[k]) \/ c.slots[chain[k]].name = n
        hits == {k \in DOMAIN chain : Stops(k) /\ \A j \in 1 .. k - 1 : ~ Stops(j)}
    IN  IF \E k \in hits : Occupied(c, chain[k])
        THEN chain[CHOOSE k \in hits : TRUE] ELSE 0

IdAt(c, i) == IF i = 0 THEN NoId ELSE [slot |-> i, stamp |-> c.slots[i].stamp]

lookup(c, n) == IdAt(c, find(c, n))

(* Whether exit x of slot p is a link to the block slot t holds. *)
LinksTo(c, p, x, t) ==
    /\ Occupied(c, p)
    /\ c.slots[p].exits[x].target = t
    /\ c.slots[p].exits[x].stamp = c.slots[t].stamp

Without(seq, S) == SelectSeq(seq, LAMBDA i : i \notin S)

RemoveForgetsPreds(c, ids) ==
    LET S == Range(ids)
    IN  [c EXCEPT
            !.slots = [i \in Slots |->
                IF i \in S THEN Vacant
                ELSE [c.slots[i] EXCEPT
                    !.preds = {e \in @ : ~ (e[1] \in S /\ LinksTo(c, e[1], e[2], i))}]],
            !.buckets = [b \in DOMAIN @ |-> Without(@[b], S)],
            !.free = @ \o ids]

(* remove_keeping_page on each slot of ids: the block goes, with the back  *)
(* edges of its own exits, with the exits its back edges name, and with    *)
(* its place in its hash chain.                                            *)
remove_keeping_page(c, ids) ==
    LET S == Range(ids)
    IN  [c EXCEPT
            !.slots = [i \in Slots |->
                IF i \in S THEN Vacant
                ELSE [c.slots[i] EXCEPT
                    !.exits = [x \in EXITS |->
                        IF \E t \in S : /\ <<i, x>> \in c.slots[t].preds
                                        /\ c.slots[i].exits[x].target = t
                        THEN NoLink ELSE c.slots[i].exits[x]],
                    !.preds = {e \in @ : ~ (e[1] \in S /\ LinksTo(c, e[1], e[2], i))}]],
            !.buckets = [b \in DOMAIN @ |-> Without(@[b], S)],
            !.free = @ \o ids]

RemoveLeavesPage(c, i) == remove_keeping_page(c, <<i>>)

remove(c, i) ==
    [remove_keeping_page(c, <<i>>) EXCEPT
        !.pages[PageOf[c.slots[i].name]] = Without(@, {i})]

invalidate_page(c, page) ==
    [remove_keeping_page(c, c.pages[page]) EXCEPT !.pages[page] = <<>>]

(* A store to a page: only a page whose filter bit is set is looked at. *)
note_write(c, page) ==
    IF BitOf[page] \in c.filter THEN invalidate_page(c, page) ELSE c

(* Drop queue entries up to the first whose block is still there, and that *)
(* block; with none left nothing is evicted.                               *)
evict_one(c) ==
    LET alive == {k \in DOMAIN c.order : slot(c, c.order[k])}
        first == CHOOSE k \in alive : \A j \in alive : k <= j
    IN  IF alive = {} THEN [c EXCEPT !.order = <<>>]
        ELSE [remove(c, c.order[first].slot) EXCEPT
                !.order = SubSeq(c.order, first + 1, Len(c.order))]

(* The first half of insert: an older block of the same name goes, and the *)
(* oldest block if the cache is then full.  One eviction is enough, there  *)
(* being no more than Capacity blocks.                                     *)
MakeRoom(c, n) ==
    LET d == IF find(c, n) = 0 THEN c ELSE remove(c, find(c, n))
    IN  IF len(d) >= Capacity THEN evict_one(d) ELSE d

(* The slot it takes: the last one freed, or a new one at the end. *)
NextSlot(c) == IF c.free = <<>> THEN len(c) + 1 ELSE Last(c.free)

(* The second half: the block takes slot i. *)
Place(c, n, i) ==
    [c EXCEPT
        !.slots[i] = [Vacant EXCEPT !.name = n, !.stamp = c.next_stamp],
        !.free = IF @ = <<>> THEN @ ELSE Front(@),
        !.next_stamp = @ + 1,
        !.buckets[BucketOf[n]] = <<i>> \o @,
        !.pages[PageOf[n]] = Append(@, i),
        !.filter = @ \cup {BitOf[PageOf[n]]},
        !.order = Append(@, [slot |-> i, stamp |-> c.next_stamp])]

set_code(c, id, code) ==
    IF slot(c, id) THEN [c EXCEPT !.slots[id.slot].code = code] ELSE c

ExitFor(c, i, pc) ==
    {x \in EXITS : c.slots[i].exits[x].target # 0 /\ c.slots[i].exits[x].pc = pc}

(* The exit link() patches: the one that already leads to pc, else the     *)
(* first empty one; a block with neither keeps its two links.              *)
Patched(c, i, pc) ==
    LET empty == {x \in EXITS : c.slots[i].exits[x].target = 0}
        these == IF ExitFor(c, i, pc) # {} THEN ExitFor(c, i, pc) ELSE empty
    IN  {x \in these : \A y \in these : x <= y}

(* Point exit x of slot i at block `to`: the block it pointed at loses the *)
(* back edge, `to` gains it.                                               *)
Patch(c, i, x, pc, to) ==
    [c EXCEPT !.slots = [j \in Slots |->
        [c.slots[j] EXCEPT
            !.exits = IF j # i THEN @
                      ELSE [@ EXCEPT ![x] = [pc |-> pc, target |-> to.slot, stamp |-> to.stamp]],
            !.preds = (@ \ (IF LinksTo(c, i, x, j) THEN {<<i, x>>} ELSE {}))
                         \cup (IF j = to.slot THEN {<<i, x>>} ELSE {})]]]

link(c, from, pc, to) ==
    IF ~ slot(c, to) \/ ~ slot(c, from) \/ Patched(c, from.slot, pc) = {} THEN c
    ELSE LET x == CHOOSE x \in Patched(c, from.slot, pc) : TRUE
         IN  Patch(c, from.slot, x, pc, to)

(* The block a link of `from` leads to, or NoId. *)
Linked(c, from, pc) ==
    IF slot(c, from) /\ ExitFor(c, from.slot, pc) # {}
    THEN LET x == CHOOSE x \in ExitFor(c, from.slot, pc) :
                        \A y \in ExitFor(c, from.slot, pc) : x <= y
             l == c.slots[from.slot].exits[x]
         IN  [slot |-> l.target, stamp |-> l.stamp]
    ELSE NoId

follow(c, from, n) ==
    LET id == Linked(c, from, n.pc)
    IN  IF slot(c, id) /\ c.slots[id.slot].name = n THEN id ELSE NoId

(* follow()'s effect on the statistics: a link to a reused slot is counted. *)
dead_link(c, from, n) ==
    LET id == Linked(c, from, n.pc)
    IN  IF Occupied(c, id.slot) /\ ~ slot(c, id)
        THEN [c EXCEPT !.stale_links = @ + 1] ELSE c
=============================================================================
