------------------------------ MODULE Dispatch ------------------------------
(***************************************************************************)
(* Dispatcher::run and Chain::step (jit/dispatch.rs) over the block cache  *)
(* and the code buffer of the host code generator (jit/x86/rt.rs): choose  *)
(* a block at a boundary, compile or interpret it, and let compiled blocks *)
(* jump from one to the next without coming back to the loop.              *)
(*                                                                         *)
(* What a guest block does is its effect on the cache: the pages it stores *)
(* to and whether a store replaced the topology.  A block may store to     *)
(* several pages before it ends: under Smc::HostGuard only a store into    *)
(* the page it was lifted from makes it leave, at its next instruction.    *)
(* Only what this core stores is here.  What another core or a device      *)
(* writes reaches no note_write (the docs of cpu/riscv/engine.rs and       *)
(* cpu/x86/engine.rs name the gap), and no step here writes such bytes.    *)
(*                                                                         *)
(* `stale` is a history variable: the stamps of the blocks whose bytes     *)
(* this core wrote, or whose topology was replaced, since they were lifted.*)
(***************************************************************************)
EXTENDS BlockCache

CONSTANTS
    Temps,          \* [Names -> Nat]: the temporaries a block needs
    BufferLen,      \* how many compiled blocks the code buffer holds
    MaxDirty,       \* bound: the pages one block, or one instruction, stores to
    Scenes          \* what a run of the guest does, one of them chosen at Init:
                    \*   goes: [names -> SUBSET names], where each block may
                    \*   go on to; compiles: the names the code generator takes;
                    \*   huge: those of them whose code an empty buffer cannot
                    \*   hold; stores: the pages the guest writes; remaps,
                    \*   stamps, generations: bounds on topologies,
                    \*   translations and code buffer resets

VARIABLES
    scene,
    cache,
    topology,       \* what Frontend::epoch answers
    phase,          \* "boundary", "execute", "interp", "code"
    from,           \* the predecessor of the next link, or NoId
    id,             \* the block chosen or running
    want,           \* the name the guest asked for at the last boundary
    entry,          \* the CodeRef generated code was entered at
    generation,     \* CodeBuf::generation
    arena,          \* Engine::arena: the stamp of each block compiled
    temps,          \* the length of the frame a chain shares
    stale           \* history: stamps of cached blocks no longer true to the guest

vars == <<scene, cache, topology, phase, from, id, want, entry, generation, arena, temps, stale>>

engine == <<generation, arena, temps>>

Init ==
    /\ scene \in Scenes
    /\ cache = EmptyCache(1, 0)
    /\ topology = 0
    /\ phase = "boundary"
    /\ from = NoId
    /\ id = NoId
    /\ want = NoName
    /\ entry = NoCode
    /\ generation = 1
    /\ arena = <<>>
    /\ temps = 0
    /\ stale = {}

(* The stamps of the blocks the cache holds. *)
Stamps(c) == {c.slots[i].stamp : i \in Slots} \ {0}

(* The predecessor after sync: a flush retires every id. *)
Kept(c, epoch, f) == IF epoch # c.topology THEN NoId ELSE f

(* A block is at hand without lifting: along the link, else by lookup. *)
Found(c, f, n) == IF follow(c, f, n) # NoId THEN follow(c, f, n) ELSE lookup(c, n)

(* The cache once the boundary has served a block it had: follow's count,  *)
(* and the patch when the block was not reached along a link.              *)
Served(c, f, n) ==
    LET d == dead_link(c, f, n)
    IN  IF follow(c, f, n) # NoId THEN d ELSE link(d, f, n.pc, lookup(c, n))

(* One boundary of the loop: the topology, then the link, the lookup or a  *)
(* translation, then the patch of the predecessor.                         *)
DispatchUnsynced(n) ==
    /\ phase = "boundary"
    /\ want' = n
    /\ \/ /\ Found(cache, from, n) # NoId
          /\ id' = Found(cache, from, n)
          /\ cache' = Served(cache, from, n)
       \/ /\ Found(cache, from, n) = NoId
          /\ cache.next_stamp <= scene.stamps
          /\ \E d \in {MakeRoom(cache, n)} : \E i \in {NextSlot(d)} :
                /\ id' = [slot |-> i, stamp |-> d.next_stamp]
                /\ cache' = link(Place(d, n, i), from, n.pc, id')
    /\ phase' = "execute"
    /\ stale' = stale \cap Stamps(cache')
    /\ UNCHANGED <<topology, from, entry, engine>>

Dispatch(n) ==
    /\ phase = "boundary"
    /\ want' = n
    /\ from' = Kept(cache, topology, from)
    /\ \E c \in {sync(cache, topology)} :
          \/ /\ Found(c, from', n) # NoId
             /\ id' = Found(c, from', n)
             /\ cache' = Served(c, from', n)
          \/ /\ Found(c, from', n) = NoId
             /\ c.next_stamp <= scene.stamps
             /\ \E d \in {MakeRoom(dead_link(c, from', n), n)} : \E i \in {NextSlot(d)} :
                   /\ id' = [slot |-> i, stamp |-> d.next_stamp]
                   /\ cache' = link(Place(d, n, i), from', n.pc, id')
    /\ phase' = "execute"
    /\ stale' = stale \cap Stamps(cache')
    /\ UNCHANGED <<topology, entry, engine>>

(* Engine::is_live. *)
is_live(code) == code.generation = generation /\ code.index \in DOMAIN arena

(* Whether the code generator takes the block; it takes none that would    *)
(* reset the buffer beyond the bound.                                      *)
Fits == Len(arena) < BufferLen /\ want \notin scene.huge

Accepts ==
    /\ want \in scene.compiles
    /\ Fits \/ generation < scene.generations

(* Engine::compile and set_code, then into generated code with a frame     *)
(* large enough for the block.  A full buffer is reset first.              *)
Compile ==
    /\ phase = "execute"
    /\ ~ is_live(cache.slots[id.slot].code)
    /\ Accepts
    /\ want \notin scene.huge
    /\ arena' = IF Fits THEN Append(arena, id.stamp) ELSE <<id.stamp>>
    /\ generation' = IF Fits THEN generation ELSE generation + 1
    /\ entry' = [index |-> Len(arena'), generation |-> generation']
    /\ cache' = set_code(cache, id, entry')
    /\ temps' = IF temps < Temps[want] THEN Temps[want] ELSE temps
    /\ phase' = "code"
    /\ UNCHANGED <<topology, from, id, want, stale>>

(* Engine::compile of a block the buffer does not hold even once it has    *)
(* been reset: every code handle dies and the block is interpreted.        *)
ResetAndRefuse ==
    /\ phase = "execute"
    /\ ~ is_live(cache.slots[id.slot].code)
    /\ Accepts
    /\ want \in scene.huge
    /\ arena' = <<>>
    /\ generation' = generation + 1
    /\ phase' = "interp"
    /\ UNCHANGED <<cache, topology, from, id, want, entry, temps, stale>>

(* The block has live code already. *)
Reenter ==
    /\ phase = "execute"
    /\ is_live(cache.slots[id.slot].code)
    /\ entry' = cache.slots[id.slot].code
    /\ temps' = IF temps < Temps[want] THEN Temps[want] ELSE temps
    /\ phase' = "code"
    /\ UNCHANGED <<cache, topology, from, id, want, generation, arena, stale>>

(* The code generator refuses the block: it is interpreted. *)
Refuse ==
    /\ phase = "execute"
    /\ ~ is_live(cache.slots[id.slot].code)
    /\ ~ Accepts
    /\ phase' = "interp"
    /\ UNCHANGED <<cache, topology, from, id, want, entry, generation, arena, temps, stale>>

(* What a block did: it stored to the pages of `dirty`, in that order, and *)
(* may have replaced the topology.                                         *)
Outdated(dirty, remap) ==
    {cache.slots[i].stamp : i \in
        {j \in Slots : Occupied(cache, j)
                        /\ (remap \/ PageOf[cache.slots[j].name] \in Range(dirty))}}

Remaps(remap) ==
    /\ remap => topology < scene.remaps
    /\ topology' = IF remap THEN topology + 1 ELSE topology

(* The stores land in the cache, page by page. *)
Drained(c, dirty) == FoldLeft(note_write, c, dirty)

Survivor(c) == IF slot(c, id) THEN id ELSE NoId

(* Back at the loop, which has no block in hand. *)
AtBoundary ==
    /\ phase' = "boundary"
    /\ id' = NoId
    /\ want' = NoName
    /\ entry' = NoCode

(* The interpreter ran the block to its end. *)
Interpreted(dirty, remap) ==
    /\ phase = "interp"
    /\ Remaps(remap)
    /\ cache' = Drained(cache, dirty)
    /\ stale' = (stale \cup Outdated(dirty, remap)) \cap Stamps(cache')
    /\ from' = Survivor(cache')
    /\ AtBoundary
    /\ UNCHANGED engine

(* Whether generated code may jump to block i of cache c: it is compiled,  *)
(* in this generation, and the frame is long enough for it.                *)
JumpableAnyGeneration(c, i) ==
    /\ c.slots[i.slot].code # NoCode
    /\ Temps[c.slots[i.slot].name] <= temps

Jumpable(c, i) ==
    /\ c.slots[i.slot].code # NoCode
    /\ c.slots[i.slot].code.generation = generation
    /\ Temps[c.slots[i.slot].name] <= temps

(* Chain::step, when the run goes on to n: the same work as the loop's up  *)
(* to the patch.  The chain jumps on, or leaves with the block it found,   *)
(* or leaves to have one lifted.                                           *)
Step(n, dirty, remap) ==
    /\ phase = "code"
    /\ Remaps(remap)
    /\ \E d \in {Drained(cache, dirty)} : \E c \in {sync(d, topology')} :
          /\ from' = Kept(d, topology', Survivor(d))
          /\ \/ /\ Found(c, from', n) # NoId
                /\ want' = n
                /\ id' = Found(c, from', n)
                /\ cache' = Served(c, from', n)
                /\ entry' = IF Jumpable(cache', id') THEN cache'.slots[id'.slot].code ELSE entry
                /\ phase' = IF Jumpable(cache', id') THEN "code" ELSE "execute"
             \/ /\ Found(c, from', n) = NoId
                /\ cache' = dead_link(c, from', n)
                /\ AtBoundary
    /\ stale' = (stale \cup Outdated(dirty, remap)) \cap Stamps(cache')
    /\ UNCHANGED engine

(* Chain::step with no successor, or a budget, exit flag or allowance that *)
(* ends the run: the stores have landed and the run returns.               *)
StepEnds(dirty, remap) ==
    /\ phase = "code"
    /\ Remaps(remap)
    /\ cache' = Drained(cache, dirty)
    /\ from' = NoId
    /\ AtBoundary
    /\ stale' = (stale \cup Outdated(dirty, remap)) \cap Stamps(cache')
    /\ UNCHANGED engine

(* Chain::step whose entry is declined or fails: the run returns with the  *)
(* cache brought to the topology in force.                                 *)
StepDeclined(dirty, remap) ==
    /\ phase = "code"
    /\ Remaps(remap)
    /\ cache' = sync(Drained(cache, dirty), topology')
    /\ from' = NoId
    /\ AtBoundary
    /\ stale' = (stale \cup Outdated(dirty, remap)) \cap Stamps(cache')
    /\ UNCHANGED engine

(* The run ends at a boundary, on its budget, the exit flag, the allowance *)
(* or the outcome of the block; the next one begins with no predecessor.   *)
Stop ==
    /\ phase = "boundary"
    /\ from' = NoId
    /\ UNCHANGED <<cache, topology, phase, id, want, entry, engine, stale>>

(* The run ends further into a boundary: the entry at n is declined or     *)
(* fails, or there is nothing to lift there.                               *)
Declined(n) ==
    /\ phase = "boundary"
    /\ \E c \in {sync(cache, topology)}, f \in {Kept(cache, topology, from)} :
          cache' \in {c} \cup (IF Found(c, f, n) = NoId THEN {dead_link(c, f, n)} ELSE {})
    /\ from' = NoId
    /\ stale' = stale \cap Stamps(cache')
    /\ UNCHANGED <<topology, phase, id, want, entry, engine>>

(* Between two runs the core interprets an instruction itself, and what it *)
(* wrote is handed to the cache before the next run.                       *)
drain(dirty, remap) ==
    /\ phase = "boundary"
    /\ from = NoId
    /\ Remaps(remap)
    /\ cache' = Drained(cache, dirty)
    /\ stale' = (stale \cup Outdated(dirty, remap)) \cap Stamps(cache')
    /\ UNCHANGED <<phase, from, id, want, entry, engine>>

(* Between two runs the core throws every translation away. *)
Flush ==
    /\ phase = "boundary"
    /\ from = NoId
    /\ cache' = flush(cache)
    /\ stale' = {}
    /\ UNCHANGED <<topology, phase, from, id, want, entry, engine>>

(* Where a block may go on to, and where a run may start. *)
Goes(n) == IF n = NoName THEN DOMAIN scene.goes ELSE scene.goes[n]

NameOf(i) == IF slot(cache, i) THEN cache.slots[i.slot].name ELSE NoName

(* The pages a block, or an instruction, stored to, as the log hands them  *)
(* over.                                                                   *)
Stores == SeqOf(scene.stores, MaxDirty)

Next ==
    /\ UNCHANGED scene
    /\ \/ \E n \in Goes(NameOf(from)) : Dispatch(n)
       \/ Compile
       \/ Reenter
       \/ ResetAndRefuse
       \/ Refuse
       \/ \E dirty \in Stores, remap \in BOOLEAN : Interpreted(dirty, remap)
       \/ \E n \in Goes(want), dirty \in Stores, remap \in BOOLEAN : Step(n, dirty, remap)
       \/ \E dirty \in Stores, remap \in BOOLEAN :
             StepEnds(dirty, remap) \/ StepDeclined(dirty, remap)
       \/ Stop
       \/ \E n \in Goes(NameOf(from)) : Declined(n)
       \/ \E dirty \in Stores, remap \in BOOLEAN : drain(dirty, remap)
       \/ Flush

Spec == Init /\ [][Next]_vars

-----------------------------------------------------------------------------
(* Links and back edges are exact mirrors (BlockCache::check): a link leads *)
(* to a block that is there and is the one it was made to, that block holds *)
(* the back edge, a back edge names a link that leads here, and so          *)
(* stale_links, which "Must be zero", is.                                   *)
LinksSound ==
    /\ \A i \in Slots, x \in EXITS : Occupied(cache, i) =>
          LET l == cache.slots[i].exits[x]
          IN  l.target # 0 => /\ slot(cache, [slot |-> l.target, stamp |-> l.stamp])
                              /\ <<i, x>> \in cache.slots[l.target].preds
    /\ \A i \in Slots : \A e \in cache.slots[i].preds : LinksTo(cache, e[1], e[2], i)
    /\ cache.stale_links = 0

(* The indexes are exact whatever was removed, evicted or reused: a page's  *)
(* list holds the blocks lifted from it and no other slot, its filter bit   *)
(* is set while it holds one, a lookup finds every block and there is one   *)
(* of a name, and the eviction queue names every block, so that a full      *)
(* cache can always make room.                                              *)
IndexesExact ==
    /\ \A p \in Pages :
          Range(cache.pages[p]) = {i \in Slots : Occupied(cache, i) /\ PageOf[cache.slots[i].name] = p}
    /\ \A i \in Slots : Occupied(cache, i) =>
          /\ BitOf[PageOf[cache.slots[i].name]] \in cache.filter
          /\ find(cache, cache.slots[i].name) = i
          /\ \E k \in DOMAIN cache.order : cache.order[k] = IdAt(cache, i)

(* No translation that this core outdated is run.  The block about to be    *)
(* run, or running, is still in the cache at the stamp it was chosen at, so *)
(* that the `expect`s of execute and run_chained never panic; it is the one *)
(* for the pc and key the guest is at; and since it was lifted this core    *)
(* has ended no block and interpreted no instruction that stored to its     *)
(* page or replaced its topology, whether it was reached by a link, a       *)
(* lookup or a jump inside generated code.  It says nothing of bytes that   *)
(* another core or a device wrote: of those the core itself says that it    *)
(* "can execute a stale translation" (cpu/riscv/engine.rs).                 *)
ServedCurrent ==
    phase # "boundary" =>
        /\ slot(cache, id)
        /\ cache.slots[id.slot].name = want /\ id.stamp \notin stale

(* Generated code runs the block it was entered for: the code is of the     *)
(* buffer's current generation and was compiled from that very block, and   *)
(* the frame the chain shares is long enough for it.                        *)
CodeCurrent ==
    phase = "code" => /\ is_live(entry)
                      /\ arena[entry.index] = id.stamp
                      /\ Temps[want] <= temps
=============================================================================
