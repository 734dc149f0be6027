------------------------------ MODULE Atomics ------------------------------
(* The cores of one address space executing load-reserved, store-conditional,*)
(* atomic read-modify-write and plain stores at once: the exclusive monitor  *)
(* (core/space/monitor.rs), the bus lock (core/space/buslock.rs), the store  *)
(* path (core/space.rs) and the atomics of a hart (cpu/riscv/exec.rs).       *)
EXTENDS ExclusiveMonitor, Sequences

CONSTANTS
  Cores,
  Addrs,     \* word addresses
  Unmapped,  \* those where an access faults
  Scenes     \* the programs, one of them chosen at Init, of each core c:
             \*   menu[c]: the instructions it may execute; budget[c]: how many;
             \*   size[c]: the words of its granule; and buffered: whether the
             \*   host's stores wait in a store buffer

Instr == [op : {"lr", "sc", "amo", "store", "trap", "detach"}, addr : Addrs]

(* The count never wraps upwards: it is 64 bits wide. *)
ASSUME CoreAssumption ==
  /\ Addrs \subseteq Nat
  /\ Unmapped \subseteq Addrs
  /\ IsFiniteSet(Cores)
  /\ Cardinality(Slots) + Cardinality(Cores) < CountModulus
  /\ \A i \in DOMAIN Scenes :
       /\ Scenes[i].size \in [Cores -> Nat \ {0}] /\ Scenes[i].budget \in [Cores -> Nat]
       /\ Scenes[i].menu \in [Cores -> SUBSET Instr]
       /\ Scenes[i].buffered \in BOOLEAN

NoSlot == -1     \* the table was full: the core keeps its local half alone
Unattached == -2 \* the core has not been given the space
NoAddr == -1

VARIABLES
  scene,
  m,       \* the monitor
  bus,     \* the holder of the bus lock, none or one
  mem,     \* the words as every core sees them
  buf,     \* buf[c]: the stores of c not yet visible to the others
  t,       \* t[c]: where c is inside its instruction
  slot,    \* slot[c]: its MonitorSlot
  local,   \* local[c]: the address its own half of the monitor holds
  reg,     \* reg[c]: the value its last load-reserved returned
  left,    \* left[c]: instructions it may still start
  commits, \* history: the atomic updates made to each word
  hit,     \* history: hit[c], the reservations c's current store has landed on
  stale    \* history: reservations overwritten by a store that has returned

vars == <<scene, m, bus, mem, buf, t, slot, local, reg, left, commits, hit, stale>>

Menu(c) == Scenes[scene].menu[c]
Size(c) == Scenes[scene].size[c]

Idle == [pc |-> "idle", op |-> "none", addr |-> NoAddr, side |-> 0, set |-> {},
         target |-> NoSlot, ret |-> "idle", val |-> 0, res |-> "ok"]

Init ==
  /\ scene \in DOMAIN Scenes
  /\ m = New
  /\ bus = {}
  /\ mem = [a \in Addrs |-> 0]
  /\ buf = [c \in Cores |-> <<>>]
  /\ t = [c \in Cores |-> Idle]
  /\ slot = [c \in Cores |-> Unattached]
  /\ local = [c \in Cores |-> NoAddr]
  /\ reg = [c \in Cores |-> 0]
  /\ left = Scenes[scene].budget
  /\ commits = [a \in Addrs |-> 0]
  /\ hit = [c \in Cores |-> {}]
  /\ stale = {}

At(c, pc) == t[c].pc = pc

Goto(c, pc) == t' = [t EXCEPT ![c].pc = pc]

(* An atomic read-modify-write and a fence first drain the store buffer. *)
Drained(c) == buf[c] = <<>>

(* A reservation whose load-reserved has read its word. *)
Reserved(c) == local[c] # NoAddr /\ (t[c].op = "lr" => t[c].pc \in {"idle", "free"})

(* The reservations of other cores on the granule of a word. *)
Claims(c, a) == {d \in Cores \ {c} : Reserved(d) /\ Covers(GranuleOf(local[d], Size(d)), a, 1)}

(* The history of c's reservation ends with the reservation. *)
Forget(c) == stale' = stale \ {c} /\ hit' = [d \in Cores |-> hit[d] \ {c}]

(* clear(id), or straight on for a core with no slot. *)
Clearing(c, r, ret) ==
  IF slot[c] = NoSlot THEN [r EXCEPT !.pc = ret]
  ELSE [r EXCEPT !.pc = "clear", !.target = slot[c], !.ret = ret]

StartAtomic(c, i) ==
  /\ i.op \in {"lr", "sc", "amo"}
  /\ t' = [t EXCEPT ![c] = [Idle EXCEPT !.pc = "bus", !.op = i.op, !.addr = i.addr]]
  /\ UNCHANGED <<m, slot, local, hit, stale>>

(* A write of the hart's own into its reservation set ends its local half    *)
(* before the bytes move; the write itself takes the slot's.                 *)
DropOwn(c, a) ==
  IF local[c] # NoAddr /\ Covers(GranuleOf(local[c], Size(c)), a, 1)
  THEN local' = [local EXCEPT ![c] = NoAddr] /\ Forget(c)
  ELSE UNCHANGED <<local, hit, stale>>

StartStore(c, i) ==
  /\ i.op = "store"
  /\ t' = [t EXCEPT ![c] = [Idle EXCEPT !.pc = "note", !.op = i.op, !.addr = i.addr, !.side = 1]]
  /\ DropOwn(c, i.addr)
  /\ UNCHANGED <<m, slot>>

(* A trap drops the reservation in both monitors. *)
TakeTrap(c) ==
  /\ local' = [local EXCEPT ![c] = NoAddr]
  /\ Forget(c)
  /\ t' = [t EXCEPT ![c] = Clearing(c, [Idle EXCEPT !.op = "trap"], "return")]

Trap(c, i) ==
  /\ i.op = "trap"
  /\ TakeTrap(c)
  /\ UNCHANGED <<m, slot>>

(* Mutant: the slot is given back with its reservation still published. *)
ReleaseLeavesLive(c, i) ==
  /\ i.op = "detach"
  /\ t' = [t EXCEPT ![c] = [Idle EXCEPT !.op = "detach", !.pc = "unclaim"]]
  /\ UNCHANGED <<m, slot, local, hit, stale>>

(* The core is given another space: it drops the slot it had in this one.    *)
Release(c, i) ==
  /\ i.op = "detach"
  /\ t' = [t EXCEPT ![c] = Clearing(c, [Idle EXCEPT !.op = "detach"], "unclaim")]
  /\ UNCHANGED <<m, slot, local, hit, stale>>

Start(c) == \E i \in Menu(c) :
  /\ At(c, "idle")
  /\ slot[c] # Unattached
  /\ left[c] > 0
  /\ left' = [left EXCEPT ![c] = @ - 1]
  /\ StartAtomic(c, i) \/ StartStore(c, i) \/ Trap(c, i) \/ Release(c, i)
  /\ UNCHANGED <<bus, mem, buf, reg, commits>>

(* register: claim the lowest free slot and make sure it does not start live. *)
Register(c) ==
  /\ At(c, "idle")
  /\ slot[c] = Unattached
  /\ Drained(c)
  /\ IF FreeSlots(m) = {}
     THEN slot' = [slot EXCEPT ![c] = NoSlot] /\ UNCHANGED <<m, t>>
     ELSE /\ m' = claim(m)
          /\ slot' = [slot EXCEPT ![c] = Min(FreeSlots(m))]
          /\ t' = [t EXCEPT ![c] = [Idle EXCEPT !.pc = "clear", !.op = "attach", !.ret = "return",
                                                !.target = Min(FreeSlots(m))]]
  /\ UNCHANGED <<bus, mem, buf, local, reg, left, commits, hit, stale>>

(* The local half of the reservation outlives the slot. *)
Unclaim(c) ==
  /\ At(c, "unclaim")
  /\ Drained(c)
  /\ m' = unclaim(m, slot[c])
  /\ slot' = [slot EXCEPT ![c] = Unattached]
  /\ t' = [t EXCEPT ![c] = Idle]
  /\ UNCHANGED <<bus, mem, buf, local, reg, left, commits, hit, stale>>

(* The mutex, then the fence. *)
AcquireBus(c) ==
  /\ At(c, "bus")
  /\ bus = {}
  /\ Drained(c)
  /\ bus' = {c}
  /\ CASE t[c].op = "lr" -> /\ local' = [local EXCEPT ![c] = t[c].addr]
                            /\ Forget(c)
                            /\ t' = [t EXCEPT ![c] = Clearing(c, @, IF slot[c] = NoSlot THEN "read" ELSE "granule")]
       [] t[c].op = "sc" -> Goto(c, "check") /\ UNCHANGED <<local, hit, stale>>
       [] OTHER          -> Goto(c, "read") /\ UNCHANGED <<local, hit, stale>>
  /\ UNCHANGED <<m, mem, buf, slot, reg, left, commits>>

(* Mutant: the count goes down whether or not the bit was set. *)
ClearAlwaysCounts(c) ==
  /\ At(c, "clear")
  /\ Drained(c)
  /\ m' = clear_live(m, t[c].target)
  /\ Goto(c, "count")
  /\ UNCHANGED <<bus, mem, buf, slot, local, reg, left, commits, hit, stale>>

Clear(c) ==
  /\ At(c, "clear")
  /\ Drained(c)
  /\ m' = clear_live(m, t[c].target)
  /\ Goto(c, IF holds(m, t[c].target) THEN "count" ELSE t[c].ret)
  /\ UNCHANGED <<bus, mem, buf, slot, local, reg, left, commits, hit, stale>>

CountDown(c) ==
  /\ At(c, "count")
  /\ m' = count_down(m)
  /\ Goto(c, t[c].ret)
  /\ UNCHANGED <<bus, mem, buf, slot, local, reg, left, commits, hit, stale>>

PutGranule(c) ==
  /\ At(c, "granule")
  /\ m' = put_granule(m, slot[c], GranuleOf(t[c].addr, Size(c)))
  /\ Goto(c, "mark")
  /\ UNCHANGED <<bus, mem, buf, slot, local, reg, left, commits, hit, stale>>

MarkLive(c) ==
  /\ At(c, "mark")
  /\ m' = set_live(m, slot[c])
  /\ Goto(c, IF holds(m, slot[c]) THEN "read" ELSE "add")
  /\ UNCHANGED <<bus, mem, buf, slot, local, reg, left, commits, hit, stale>>

CountUp(c) ==
  /\ At(c, "add")
  /\ m' = count_up(m)
  /\ Goto(c, "read")
  /\ UNCHANGED <<bus, mem, buf, slot, local, reg, left, commits, hit, stale>>

(* The bytes of a load-reserved.  Nothing of c's own is buffered: it fenced   *)
(* when it took the bus.                                                     *)
ReadReserved(c) ==
  /\ At(c, "read")
  /\ t[c].op = "lr"
  /\ t[c].addr \notin Unmapped
  /\ reg' = [reg EXCEPT ![c] = mem[t[c].addr]]
  /\ Goto(c, "free")
  /\ UNCHANGED <<m, bus, mem, buf, slot, local, left, commits, hit, stale>>

(* The read half of an atomic operation, which then gives up a reservation of *)
(* its own on the word, and goes on to write.                                *)
ReadModify(c) ==
  /\ At(c, "read")
  /\ t[c].op = "amo"
  /\ t[c].addr \notin Unmapped
  /\ t' = [t EXCEPT ![c].val = mem[t[c].addr], ![c].pc = "note", ![c].side = 1]
  /\ DropOwn(c, t[c].addr)
  /\ UNCHANGED <<m, bus, mem, buf, slot, reg, left, commits>>

(* The read faults: a load-reserved gives back the reservation it had claimed *)
(* before reading.                                                           *)
ReadFault(c) ==
  /\ At(c, "read")
  /\ t[c].addr \in Unmapped
  /\ IF t[c].op = "lr"
     THEN /\ local' = [local EXCEPT ![c] = NoAddr]
          /\ t' = [t EXCEPT ![c] = Clearing(c, [@ EXCEPT !.res = "fault"], "free")]
     ELSE /\ t' = [t EXCEPT ![c].res = "fault", ![c].pc = "free"]
          /\ UNCHANGED local
  /\ UNCHANGED <<m, bus, mem, buf, slot, reg, left, commits, hit, stale>>

(* Mutant: the store-conditional asks the hart's own monitor alone. *)
CheckLocalHalf(c) ==
  LET held == local[c] = t[c].addr IN
  /\ At(c, "check")
  /\ local' = [local EXCEPT ![c] = NoAddr]
  /\ Forget(c)
  /\ t' = [t EXCEPT ![c] = Clearing(c, [@ EXCEPT !.side = 1],
                                    IF held THEN "note" ELSE "free")]
  /\ UNCHANGED <<m, bus, mem, buf, slot, reg, left, commits>>

(* A store-conditional asks both monitors, gives the reservation up, and     *)
(* stores only if both agreed.                                               *)
Check(c) ==
  LET held == local[c] = t[c].addr /\ (slot[c] # NoSlot => holds(m, slot[c])) IN
  /\ At(c, "check")
  /\ local' = [local EXCEPT ![c] = NoAddr]
  /\ Forget(c)
  /\ t' = [t EXCEPT ![c] = Clearing(c, [@ EXCEPT !.side = 1],
                                    IF held THEN "note" ELSE "free")]
  /\ UNCHANGED <<m, bus, mem, buf, slot, reg, left, commits>>

(* After a note_store: the transfer, or the end of the instruction. *)
AfterNote(c) ==
  IF t[c].side = 1 THEN "transfer" ELSE IF t[c].op = "store" THEN "return" ELSE "free"

(* note_store: one load when nothing is outstanding. *)
NoteStore(c) ==
  /\ At(c, "note")
  /\ Goto(c, IF m.outstanding = 0 THEN AfterNote(c) ELSE "walk")
  /\ UNCHANGED <<m, bus, mem, buf, slot, local, reg, left, commits, hit, stale>>

(* break_covering: a copy of the live word, then its bits one at a time. *)
Walk(c) ==
  /\ At(c, "walk")
  /\ t' = [t EXCEPT ![c].set = m.live, ![c].pc = IF m.live = {} THEN AfterNote(c) ELSE "look"]
  /\ UNCHANGED <<m, bus, mem, buf, slot, local, reg, left, commits, hit, stale>>

Look(c) ==
  LET s == Min(t[c].set)
      next == IF t[c].set = {s} THEN AfterNote(c) ELSE "look"
      breaks == Covers(m.slots[s], t[c].addr, 1)
  IN
  /\ At(c, "look")
  /\ t' = [t EXCEPT ![c].set = @ \ {s}, ![c].target = s, ![c].ret = next,
                    ![c].pc = IF breaks THEN "clear" ELSE next]
  /\ UNCHANGED <<m, bus, mem, buf, slot, local, reg, left, commits, hit, stale>>

(* The bytes of a store: an atomic update adds one to what its load, or the  *)
(* load-reserved before it, returned.                                        *)
Transfer(c) ==
  LET a == t[c].addr
      v == CASE t[c].op = "store" -> 0 [] t[c].op = "sc" -> reg[c] + 1 [] OTHER -> t[c].val + 1
  IN
  /\ At(c, "transfer")
  /\ a \notin Unmapped
  /\ IF Scenes[scene].buffered
     THEN buf' = [buf EXCEPT ![c] = Append(@, <<a, v>>)] /\ UNCHANGED <<mem, hit>>
     ELSE mem' = [mem EXCEPT ![a] = v] /\ hit' = [hit EXCEPT ![c] = Claims(c, a)] /\ UNCHANGED buf
  /\ commits' = IF t[c].op = "store" THEN commits ELSE [commits EXCEPT ![a] = @ + 1]
  /\ t' = [t EXCEPT ![c].pc = "note", ![c].side = 2]
  /\ UNCHANGED <<m, bus, slot, local, reg, left, stale>>

(* The transfer faults: no byte lands, and the monitor is told again all the *)
(* same.                                                                     *)
TransferFault(c) ==
  /\ At(c, "transfer")
  /\ t[c].addr \in Unmapped
  /\ t' = [t EXCEPT ![c].pc = "note", ![c].side = 2, ![c].res = "fault"]
  /\ UNCHANGED <<m, bus, mem, buf, slot, local, reg, left, commits, hit, stale>>

(* The host's store buffer drains its oldest entry. *)
Flush(c) ==
  LET a == buf[c][1][1]
      inflight == t[c].side = 2 /\ Len(buf[c]) = 1
  IN
  /\ ~Drained(c)
  /\ mem' = [mem EXCEPT ![a] = buf[c][1][2]]
  /\ buf' = [buf EXCEPT ![c] = Tail(@)]
  /\ IF inflight
     THEN hit' = [hit EXCEPT ![c] = Claims(c, a)] /\ UNCHANGED stale
     ELSE stale' = stale \cup Claims(c, a) /\ UNCHANGED hit
  /\ UNCHANGED <<m, bus, t, slot, local, reg, left, commits>>

(* The instruction retires, or takes the trap its fault raised. *)
Finish(c) ==
  IF t[c].res = "fault" THEN TakeTrap(c)
  ELSE /\ t' = [t EXCEPT ![c] = Idle]
       /\ stale' = stale \cup hit[c]
       /\ hit' = [hit EXCEPT ![c] = {}]
       /\ UNCHANGED local

(* The guard's drop: the fence, then the mutex. *)
ReleaseBus(c) ==
  /\ At(c, "free")
  /\ Drained(c)
  /\ bus' = {}
  /\ Finish(c)
  /\ UNCHANGED <<m, mem, buf, slot, reg, left, commits>>

Return(c) ==
  /\ At(c, "return")
  /\ Finish(c)
  /\ UNCHANGED <<m, bus, mem, buf, slot, reg, left, commits>>

Step(c) ==
  \/ Start(c) \/ Register(c) \/ Unclaim(c) \/ AcquireBus(c) \/ ReleaseBus(c) \/ Return(c)
  \/ Clear(c) \/ CountDown(c) \/ PutGranule(c) \/ MarkLive(c) \/ CountUp(c)
  \/ ReadReserved(c) \/ ReadModify(c) \/ ReadFault(c) \/ Check(c) \/ NoteStore(c) \/ Walk(c) \/ Look(c)
  \/ Transfer(c) \/ TransferFault(c) \/ Flush(c)

Next == (\E c \in Cores : Step(c)) /\ UNCHANGED scene

Spec == Init /\ [][Next]_vars
-----------------------------------------------------------------------------
(* The words only atomic instructions write. *)
Counters == {a \in Addrs : \A c \in Cores : [op |-> "store", addr |-> a] \notin Menu(c)}

(* Locked against locked: as long as every core that reserves has a slot, no *)
(* update a store-conditional or an atomic operation reports as made is ever *)
(* lost, on a host with or without store buffers, whatever plain stores do to *)
(* other words of the same granule.                                          *)
UpdatesKept ==
  bus = {} /\ (\A c \in Cores : slot[c] = NoSlot => \A i \in Menu(c) : i.op # "lr")
    => \A a \in Counters : mem[a] = commits[a]

(* A plain store that landed on a granule after the load-reserved read it,   *)
(* and has returned, has cleared the reservation: the store-conditional      *)
(* cannot commit over it.                                                    *)
StoreBreaksReservation == \A c \in stale : slot[c] \in Slots => ~holds(m, slot[c])

(* A load-reserved between naming its word locally and publishing it.        *)
Publishing(c) == t[c].op = "lr" /\ t[c].pc \in {"clear", "count", "granule", "mark"}

(* What a departed core left never reaches the next owner of its slot, and   *)
(* the two halves a store-conditional asks speak of one reservation: a slot  *)
(* has one owner, only an owned slot is live, and when a core's local half   *)
(* and its slot both stand, the slot publishes the granule of that address,  *)
(* through faults, traps, the core's own stores and atomics, and changes of  *)
(* address space, which leave the local half standing.                       *)
SlotsOwned ==
  /\ \A c, d \in Cores : slot[c] = slot[d] /\ slot[c] \in Slots => c = d
  /\ \A s \in m.live : \E c \in Cores : slot[c] = s
  /\ \A c \in Cores :
       slot[c] \in m.live /\ local[c] # NoAddr /\ ~Publishing(c)
         => m.slots[slot[c]] = GranuleOf(local[c], Size(c))

(* When every core is between instructions the count is the number of live   *)
(* bits: what note_store skips on zero is really nothing.                    *)
CountSettles == (\A c \in Cores : At(c, "idle")) => m.outstanding = Cardinality(m.live)
=============================================================================
