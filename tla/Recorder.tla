------------------------------ MODULE Recorder ------------------------------
(***************************************************************************)
(* The input seam of core/record.rs: what host threads post waits until    *)
(* the machine stands on a boundary, is stamped, logged and handed to the  *)
(* port the guest reads; a replaying recorder hands out its log instead.   *)
(* One channel, whose sink is a character port (host/chardev.rs).          *)
(***************************************************************************)
EXTENDS Integers, SequencesExt

CONSTANT PORT_CAPACITY

VARIABLES recording,   \* the recorder's mode: Record or Replay
          waiting,     \* posted and not yet taken by the machine
          log,         \* [at, what], in delivery order
          cursor,      \* how many logged events a replay has handed out
          port,        \* what the guest has not read yet
          dropped      \* history: payloads the full port did not take

recorderVars == <<recording, waiting, log, cursor, port, dropped>>

RecorderInit ==
  /\ recording = TRUE
  /\ waiting = <<>> /\ log = <<>> /\ cursor = 0 /\ port = <<>> /\ dropped = {}

\* partition_point of an ordered log: how many events are before, or up to, at.
index_at(at) == Len(SelectSeq(log, LAMBDA e : e.at < at))
index_past(at) == Len(SelectSeq(log, LAMBDA e : e.at <= at))
Payloads(events) == [i \in 1 .. Len(events) |-> events[i].what]

\* post: a replaying recorder discards it.
Post(x) ==
  /\ recording
  /\ waiting' = Append(waiting, x)
  /\ UNCHANGED <<recording, log, cursor, port, dropped>>

\* The log refuses an event older than its last.
Refuses(now) == recording /\ waiting # <<>> /\ log # <<>> /\ now < Last(log).at

\* feed, for each payload of a batch: what exceeds the port's capacity is lost.
feed(batch) ==
  LET room == PORT_CAPACITY - Len(port)
      take == IF room < Len(batch) THEN room ELSE Len(batch)
  IN /\ port' = port \o SubSeq(batch, 1, take)
     /\ dropped' = dropped \cup ToSet(SubSeq(batch, take + 1, Len(batch)))

Stamped(at) == [i \in 1 .. Len(waiting) |-> [at |-> at, what |-> waiting[i]]]

\* A replay hands out its log up to the given index.
HandOut(end) ==
  /\ cursor' = IF cursor > end THEN cursor ELSE end
  /\ feed(Payloads(SubSeq(log, cursor + 1, cursor')))
  /\ UNCHANGED log

\* Mutants: an input is stamped past the boundary it enters on; a replay hands
\* out only what is older than now.
DeliverStampsAhead(now) ==
  /\ waiting' = <<>>
  /\ IF recording
     THEN log' = log \o Stamped(now + 1) /\ feed(waiting) /\ UNCHANGED cursor
     ELSE HandOut(index_past(now))
  /\ UNCHANGED recording
DeliverLate(now) ==
  /\ waiting' = <<>>
  /\ IF recording
     THEN log' = log \o Stamped(now) /\ feed(waiting) /\ UNCHANGED cursor
     ELSE HandOut(index_at(now))
  /\ UNCHANGED recording

\* deliver: what was posted, stamped and logged; or what the log holds up to
\* now.  A refusal drops the batch.
Deliver(now) ==
  /\ waiting' = <<>>
  /\ IF Refuses(now) THEN UNCHANGED <<log, cursor, port, dropped>>
     ELSE IF recording
          THEN log' = log \o Stamped(now) /\ feed(waiting) /\ UNCHANGED cursor
          ELSE HandOut(index_past(now))
  /\ UNCHANGED recording

\* Mutant: events of the instant itself are passed over.
RewindSkips(at) ==
  /\ waiting' = <<>> /\ port' = <<>> /\ cursor' = index_past(at)
  /\ log' = IF recording THEN SubSeq(log, 1, index_past(at)) ELSE log
  /\ dropped' = dropped \cap ToSet(Payloads(SubSeq(log, 1, cursor')))
  /\ UNCHANGED recording

\* rewind_to, the sinks' on_rewind included.
RewindRecorder(at) ==
  /\ waiting' = <<>> /\ port' = <<>> /\ cursor' = index_at(at)
  /\ log' = IF recording THEN SubSeq(log, 1, index_at(at)) ELSE log
  /\ dropped' = dropped \cap ToSet(Payloads(SubSeq(log, 1, cursor')))
  /\ UNCHANGED recording

\* Recorder::replaying, over the recording's log.
Replaying ==
  /\ recording /\ recording' = FALSE
  /\ waiting' = <<>> /\ cursor' = 0 /\ port' = <<>> /\ dropped' = {}
  /\ UNCHANGED log

\* The guest reads n payloads.
Reads(n) ==
  /\ port' = SubSeq(port, n + 1, Len(port))
  /\ UNCHANGED <<recording, waiting, log, cursor, dropped>>
=============================================================================
