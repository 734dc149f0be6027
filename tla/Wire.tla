-------------------------------- MODULE Wire --------------------------------
(***************************************************************************)
(* A net of core/wire.rs: the drive each source puts on it, one pending    *)
(* mark per source, and the flag that makes one call at a time the         *)
(* deliverer.  Every atomic the code touches is a step of its own, so      *)
(* calls of several threads interleave as they do in the program.  The     *)
(* sinks are one listener: they are all told the same things in the same   *)
(* order.  A sink may drive the net from inside the call that tells it.    *)
(***************************************************************************)
EXTENDS HostThreads, Integers, FiniteSets

CONSTANTS NSources,      \* sources are numbered in ascending id order
          Modes,         \* the net modes examined
          Pull,          \* the drive of the net's own resistor
          FirstDrive,    \* what every source drives when the net is built
          Feedback,      \* <<source, level>> -> what the sinks drive in answer
          SETTLE_LIMIT

Sources == 1 .. NSources
Drives == {"HiZ", "Low", "High", "WeakLow", "WeakHigh"}
RESOLVED_UNKNOWN == 2

ASSUME WireAssumption ==
  /\ NSources \in Nat \ {0}
  /\ Modes \subseteq {"PerSink", "Resolved"}
  /\ Pull \in {"HiZ", "WeakLow", "WeakHigh"}
  /\ FirstDrive \in Drives
  /\ Feedback \in [Sources \X {0, 1} -> SUBSET (Sources \X Drives)]
  /\ SETTLE_LIMIT \in Nat \ {0}

VARIABLES mode,          \* fixed when the net is built
          drives, pending, delivering, unsettled, last_resolved,
          heard,         \* the level the sinks were last told, per source
          wt             \* where each thread stands in a call on the net

wireVars == <<mode, drives, pending, delivering, unsettled, last_resolved,
              heard, wt>>

code_is_high(d) == IF d \in {"High", "WeakHigh"} THEN 1 ELSE 0

\* The strongest polarity wins, low wins a fight, and a floating net is low.
resolve_drives(seen) ==
  IF seen \cap {"Low", "High"} # {}
  THEN IF "Low" \in seen THEN 0 ELSE 1
  ELSE IF "WeakHigh" \in seen \cup {Pull} /\ "WeakLow" \notin seen \cup {Pull}
       THEN 1 ELSE 0

DrivesOn(d) == {d[s] : s \in Sources}

\* What the sinks ought to know of source s.
Due(d, s) == IF mode = "PerSink" THEN code_is_high(d[s])
             ELSE resolve_drives(DrivesOn(d))

Outside == [pc |-> "out", at |-> 1, moved |-> FALSE, passes |-> 0,
            level |-> 0, seen |-> {}]

\* Thread t goes to pc, and its other fields become those of r.
Goes(t, pc, r) == wt' = [wt EXCEPT ![t] = [r EXCEPT !.pc = pc]]

\* The next source in a walk of all of them, or pc when the walk is over.
Walk(t, loop, pc, r) ==
  IF r.at < NSources THEN Goes(t, loop, [r EXCEPT !.at = @ + 1])
                     ELSE Goes(t, pc, [r EXCEPT !.at = 1])

WireInit ==
  /\ mode \in Modes
  /\ drives = [s \in Sources |-> FirstDrive]
  /\ pending = [s \in Sources |-> FALSE]
  /\ delivering = FALSE
  /\ unsettled = 0
  /\ heard = [s \in Sources |-> Due(drives, s)]
  /\ last_resolved = IF mode = "Resolved" THEN Due(drives, 1) ELSE RESOLVED_UNKNOWN
  /\ wt = [t \in Threads |-> Outside]

-----------------------------------------------------------------------------
\* drive: the drive is recorded; a repeat ends the call.
Drive(t, s, d) ==
  /\ wt[t].pc = "out"
  /\ drives' = [drives EXCEPT ![s] = d]
  /\ wt' = IF drives[s] = d THEN wt
           ELSE [wt EXCEPT ![t] = [Outside EXCEPT !.pc = "mark", !.at = s]]
  /\ UNCHANGED <<mode, pending, delivering, unsettled, last_resolved, heard>>

Mark(t) ==
  /\ wt[t].pc = "mark"
  /\ pending' = [pending EXCEPT ![wt[t].at] = TRUE]
  /\ Goes(t, "claim", Outside)
  /\ UNCHANGED <<mode, drives, delivering, unsettled, last_resolved, heard>>

\* refresh: forget what was delivered, mark every source, deliver.
Refresh(t) ==
  /\ wt[t].pc = "out"
  /\ last_resolved' = RESOLVED_UNKNOWN
  /\ Goes(t, "announce", Outside)
  /\ UNCHANGED <<mode, drives, pending, delivering, unsettled, heard>>

Announce(t) ==
  /\ wt[t].pc = "announce"
  /\ pending' = [pending EXCEPT ![wt[t].at] = TRUE]
  /\ Walk(t, "announce", "claim", wt[t])
  /\ UNCHANGED <<mode, drives, delivering, unsettled, last_resolved, heard>>

\* Mutant: the flag is raised whoever holds it.
ClaimBlind(t) ==
  /\ wt[t].pc = "claim"
  /\ delivering' = TRUE
  /\ Goes(t, "scan", Outside)
  /\ UNCHANGED <<mode, drives, pending, unsettled, last_resolved, heard>>

\* deliver: whoever finds the flag up leaves its change to the deliverer.
\* The same swap guards the way back in after the look for late changes.
Claim(t) ==
  /\ wt[t].pc = "claim"
  /\ delivering' = TRUE
  /\ Goes(t, IF delivering THEN "out" ELSE "scan", Outside)
  /\ UNCHANGED <<mode, drives, pending, unsettled, last_resolved, heard>>

-----------------------------------------------------------------------------
\* The pass is over without a delivery, or one more pass has been made.
PassOver(t, moved, r) ==
  IF ~moved THEN Goes(t, "open", Outside)
  ELSE IF r.passes + 1 >= SETTLE_LIMIT THEN Goes(t, "giveup", Outside)
       ELSE Goes(t, "scan", [Outside EXCEPT !.passes = r.passes + 1])

\* deliver_per_sink goes on to the next source.
NextSource(t, r) ==
  IF r.at < NSources THEN Goes(t, "scan", [r EXCEPT !.at = @ + 1])
                     ELSE PassOver(t, r.moved, r)

\* Take one mark.  On a per-sink net the source's level is read next; on a
\* resolved one all marks are taken before any drive is read.
Scan(t) ==
  /\ wt[t].pc = "scan"
  /\ LET s == wt[t].at
         r == [wt[t] EXCEPT !.moved = @ \/ pending[s]]
     IN /\ pending' = [pending EXCEPT ![s] = FALSE]
        /\ IF mode = "PerSink"
           THEN IF pending[s] THEN Goes(t, "level", r) ELSE NextSource(t, r)
           ELSE IF r.at < NSources THEN Goes(t, "scan", [r EXCEPT !.at = @ + 1])
                ELSE IF r.moved THEN Goes(t, "read", [r EXCEPT !.at = 1])
                     ELSE PassOver(t, FALSE, r)
  /\ UNCHANGED <<mode, drives, delivering, unsettled, last_resolved, heard>>

ReadLevel(t) ==
  /\ wt[t].pc = "level"
  /\ Goes(t, "tell", [wt[t] EXCEPT !.level = code_is_high(drives[wt[t].at])])
  /\ UNCHANGED <<mode, drives, pending, delivering, unsettled, last_resolved, heard>>

\* resolve_drives loads the drives one by one.
ReadDrive(t) ==
  /\ wt[t].pc = "read"
  /\ Walk(t, "read", "settle", [wt[t] EXCEPT !.seen = @ \cup {drives[wt[t].at]}])
  /\ UNCHANGED <<mode, drives, pending, delivering, unsettled, last_resolved, heard>>

\* A net whose level did not move has nothing to say.
Settle(t) ==
  /\ wt[t].pc = "settle"
  /\ LET level == resolve_drives(wt[t].seen)
     IN /\ last_resolved' = level
        /\ IF last_resolved = level THEN PassOver(t, FALSE, wt[t])
           ELSE Goes(t, "tell", [wt[t] EXCEPT !.level = level])
  /\ UNCHANGED <<mode, drives, pending, delivering, unsettled, heard>>

\* The sinks are told; one that drives the net in answer records its drive and
\* its mark, finds the flag up and returns.
Answered(s, level) ==
  [i \in Sources |-> IF \E d \in Drives : <<i, d>> \in Feedback[<<s, level>>]
                     THEN CHOOSE d \in Drives : <<i, d>> \in Feedback[<<s, level>>]
                     ELSE drives[i]]

Tell(t) ==
  /\ wt[t].pc = "tell"
  /\ LET s == wt[t].at
         fed == Answered(s, wt[t].level)
     IN /\ heard' = [heard EXCEPT ![s] = wt[t].level]
        /\ drives' = fed
        /\ pending' = [i \in Sources |-> pending[i] \/ fed[i] # drives[i]]
        /\ delivering' = (delivering \/ fed # drives)
        /\ IF mode = "PerSink" THEN NextSource(t, wt[t])
           ELSE IF s < NSources THEN Goes(t, "tell", [wt[t] EXCEPT !.at = @ + 1])
                ELSE PassOver(t, TRUE, wt[t])
  /\ UNCHANGED <<mode, unsettled, last_resolved>>

\* Mutant: the deliverer leaves without a second look.
OpenLeaves(t) ==
  /\ wt[t].pc = "open"
  /\ delivering' = FALSE
  /\ Goes(t, "out", Outside)
  /\ UNCHANGED <<mode, drives, pending, unsettled, last_resolved, heard>>

\* The flag is given up, and the marks are looked at once more.
Open(t) ==
  /\ wt[t].pc = "open"
  /\ delivering' = FALSE
  /\ Goes(t, "look", Outside)
  /\ UNCHANGED <<mode, drives, pending, unsettled, last_resolved, heard>>

Look(t) ==
  /\ wt[t].pc = "look"
  /\ IF pending[wt[t].at] THEN Goes(t, "claim", Outside)
     ELSE Walk(t, "look", "out", wt[t])
  /\ UNCHANGED <<mode, drives, pending, delivering, unsettled, last_resolved, heard>>

\* The settle limit: the loop is counted, every mark is dropped, and the
\* deliverer leaves without another look.
GiveUp(t) ==
  /\ wt[t].pc = "giveup"
  /\ unsettled' = unsettled + 1
  /\ Goes(t, "drop", Outside)
  /\ UNCHANGED <<mode, drives, pending, delivering, last_resolved, heard>>

DropMark(t) ==
  /\ wt[t].pc = "drop"
  /\ pending' = [pending EXCEPT ![wt[t].at] = FALSE]
  /\ Walk(t, "drop", "leave", wt[t])
  /\ UNCHANGED <<mode, drives, delivering, unsettled, last_resolved, heard>>

Leave(t) ==
  /\ wt[t].pc = "leave"
  /\ delivering' = FALSE
  /\ Goes(t, "out", Outside)
  /\ UNCHANGED <<mode, drives, pending, unsettled, last_resolved, heard>>

\* A thread inside a call takes its next step.
WireStep(t) ==
  \/ Mark(t) \/ Announce(t) \/ Claim(t) \/ Scan(t) \/ ReadLevel(t)
  \/ ReadDrive(t) \/ Settle(t) \/ Tell(t) \/ Open(t) \/ Look(t)
  \/ GiveUp(t) \/ DropMark(t) \/ Leave(t)

WireNext ==
  \E t \in Threads : \/ \E s \in Sources, d \in Drives : Drive(t, s, d)
                     \/ Refresh(t)
                     \/ WireStep(t)

WireSpec == WireInit /\ [][WireNext]_wireVars

-----------------------------------------------------------------------------
Delivery == {"scan", "level", "read", "settle", "tell", "open", "giveup",
             "drop", "leave"}
Idle == \A t \in Threads : wt[t].pc = "out"

(***************************************************************************)
(* What `set` promises of concurrent and re-entrant calls: the change is   *)
(* handed to the delivery in progress, "the wire converges on the levels   *)
(* last written".  Once no thread is inside a call on the net, the sinks   *)
(* know what the drives now say, unless `unsettled` reports a delivery     *)
(* that gave up.                                                           *)
(***************************************************************************)
Settled == Idle /\ unsettled = 0 => \A s \in Sources : heard[s] = Due(drives, s)

\* One call delivers at a time, and the flag is up exactly while it does, so
\* sinks are never told by two threads at once.
OneDeliverer ==
  /\ Cardinality({t \in Threads : wt[t].pc \in Delivery}) <= 1
  /\ delivering <=> \E t \in Threads : wt[t].pc \in Delivery
=============================================================================
