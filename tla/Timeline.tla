------------------------------ MODULE Timeline ------------------------------
(***************************************************************************)
(* The rewind history of machine/timeline.rs over a machine and its        *)
(* recorder: run_until with keyframes on a cadence, rewind_to,             *)
(* forget_before, and the machine's own loop of pump and round underneath  *)
(* (machine.rs advance_to), with host threads posting at any moment.  The  *)
(* guest is deterministic: in a round it reads what its port holds, up to  *)
(* its appetite.  A recording is followed by a replay of it on a fresh     *)
(* machine.                                                                *)
(***************************************************************************)
EXTENDS Recorder, FiniteSets

CONSTANTS QUANTUM, MaxNow, MaxPosts,
          Scenes      \* the sessions examined, each a record of:
                      \*   recordTo, replayTo  the deadlines asked for
                      \*   backTo    the instants rewound to
                      \*   rewinds   rewinds while recording, while replaying
                      \*   appetite  payloads the guest reads in a round
                      \*   cadence, budget  of the timeline; a keyframe weighs 1

VARIABLES scene,
          now,        \* the scheduler's virtual time
          edge,       \* what the guest has executed to
          read,       \* the guest's state: [at, what] of all it has read
          keyframes,  \* [at, edge, read], oldest first
          due,
          goal,       \* the deadline of Timeline::run_until
          limit,      \* the deadline of Machine::run_until
          pc,
          posted, rewound,   \* bounds
          lived       \* history: the guest's state after each recorded round

machineVars == <<now, edge, read>>
historyVars == <<keyframes, due>>
vars == <<recorderVars, scene, machineVars, historyVars, goal, limit, pc, posted,
          rewound, lived>>

ASSUME TimelineAssumption ==
  /\ QUANTUM \in Nat \ {0} /\ PORT_CAPACITY \in Nat /\ MaxNow \in Nat /\ MaxPosts \in Nat
  /\ \A s \in Scenes : s.cadence \in Nat /\ s.budget \in Nat

Min2(a, b) == IF a < b THEN a ELSE b
Max2(a, b) == IF a > b THEN a ELSE b

Init ==
  /\ RecorderInit
  /\ scene \in Scenes
  /\ now = 0 /\ edge = 0 /\ read = <<>>
  /\ keyframes = <<>> /\ due = 0
  /\ goal = 0 /\ limit = 0 /\ pc = "idle"
  /\ posted = 0 /\ rewound = 0 /\ lived = <<>>

-----------------------------------------------------------------------------
\* thin: every other keyframe goes, never the newest, until the rest fit.
EveryOther(k) ==
  LET n == Len(k)
      kept == IF n % 2 = 1 THEN (n + 1) \div 2 ELSE n \div 2 + 1
  IN [i \in 1 .. kept |-> IF i = kept THEN k[n] ELSE k[2 * i - 1]]

thin(k) ==
  LET f[h \in Seq({k[i] : i \in 1 .. Len(k)})] ==
        IF Len(h) <= scene.budget \/ Len(h) <= 1 THEN h
        ELSE LET e == EveryOther(h)
             IN IF Len(e) = 2 /\ 2 > scene.budget THEN Tail(e) ELSE f[e]
  IN f[k]

\* snapshot: a repeated instant replaces its keyframe.
Taken == [at |-> now, edge |-> edge, read |-> read]
Snapshot ==
  /\ keyframes' = thin(IF keyframes # <<>> /\ Last(keyframes).at = now
                       THEN [keyframes EXCEPT ![Len(keyframes)] = Taken]
                       ELSE Append(keyframes, Taken))
  /\ due' = now + scene.cadence

Deadlines == IF recording THEN scene.recordTo ELSE scene.replayTo

\* Timeline::run_until
RunUntil ==
  /\ pc = "idle"
  /\ \E d \in Deadlines : d > now /\ goal' = d
  /\ IF keyframes = <<>> THEN Snapshot ELSE UNCHANGED historyVars
  /\ pc' = "loop"
  /\ UNCHANGED <<recorderVars, scene, machineVars, limit, posted, rewound, lived>>

\* Its loop.  Machine::run_until never returns short of its deadline, so the
\* branch for a run that did not move is never taken.
Loop ==
  /\ pc = "loop"
  /\ IF now < goal
     THEN /\ limit' = Min2(goal, Max2(due, now + Max2(scene.cadence, QUANTUM)))
          /\ pc' = "pump"
     ELSE pc' = "idle" /\ UNCHANGED limit
  /\ UNCHANGED <<recorderVars, scene, machineVars, historyVars, goal, posted, rewound,
                 lived>>

\* pump_inputs; an error ends the run.
Pump ==
  /\ pc = "pump"
  /\ Deliver(now)
  /\ pc' = IF Refuses(now) THEN "idle" ELSE "round"
  /\ UNCHANGED <<scene, machineVars, historyVars, goal, limit, posted, rewound, lived>>

Boundary == (now \div QUANTUM + 1) * QUANTUM

\* Mutant: the round is tried again.
DeclineAgain ==
  /\ pc = "round" /\ Boundary > limit
  /\ pc' = "pump"
  /\ UNCHANGED <<recorderVars, scene, machineVars, historyVars, goal, limit, posted,
                 rewound, lived>>

\* decline_round: the round does not fit, and time passes without it.
Decline ==
  /\ pc = "round" /\ Boundary > limit
  /\ now' = limit /\ pc' = "after"
  /\ UNCHANGED <<recorderVars, scene, edge, read, historyVars, goal, limit, posted,
                 rewound, lived>>

\* A round: the guest executes up to the boundary.
Round ==
  /\ pc = "round" /\ Boundary <= limit
  /\ \E n \in {Min2(scene.appetite, Len(port))} :
       /\ Reads(n)
       /\ read' = read \o [i \in 1 .. n |-> [at |-> edge, what |-> port[i]]]
  /\ edge' = Boundary /\ now' = Boundary
  /\ lived' = IF recording THEN Append(SubSeq(lived, 1, edge \div QUANTUM), read')
                           ELSE lived
  /\ pc' = IF Boundary < limit THEN "pump" ELSE "after"
  /\ UNCHANGED <<scene, historyVars, goal, limit, posted, rewound>>

After ==
  /\ pc = "after" /\ pc' = "loop"
  /\ IF now >= due THEN Snapshot ELSE UNCHANGED historyVars
  /\ UNCHANGED <<recorderVars, scene, machineVars, goal, limit, posted, rewound, lived>>

\* rewind_to: the newest keyframe at or before the instant is loaded, which
\* moves the recorder; later keyframes go, and the machine runs forward.
Abandoned(k) == IF recording THEN SubSeq(lived, 1, k.edge \div QUANTUM) ELSE lived
Covering(at) == {i \in 1 .. Len(keyframes) : keyframes[i].at <= at}

\* Mutant: the keyframes of the abandoned future stay.
RewindToKeeps(at) ==
  /\ pc = "idle" /\ Covering(at) # {}
  /\ rewound < scene.rewinds[IF recording THEN 1 ELSE 2]
  /\ LET k == keyframes[Cardinality(Covering(at))]
     IN /\ now' = k.at /\ edge' = k.edge /\ read' = k.read
        /\ RewindRecorder(k.at) /\ lived' = Abandoned(k)
        /\ due' = k.at + scene.cadence
        /\ IF at > k.at THEN goal' = at /\ pc' = "loop" ELSE UNCHANGED <<goal, pc>>
  /\ rewound' = rewound + 1
  /\ UNCHANGED <<scene, keyframes, limit, posted>>

RewindTo(at) ==
  /\ pc = "idle" /\ Covering(at) # {}
  /\ rewound < scene.rewinds[IF recording THEN 1 ELSE 2]
  /\ LET i == Cardinality(Covering(at))
         k == keyframes[i]
     IN /\ now' = k.at /\ edge' = k.edge /\ read' = k.read
        /\ RewindRecorder(k.at) /\ lived' = Abandoned(k)
        /\ keyframes' = SubSeq(keyframes, 1, i)
        /\ due' = k.at + scene.cadence
        /\ IF at > k.at THEN goal' = at /\ pc' = "loop" ELSE UNCHANGED <<goal, pc>>
  /\ rewound' = rewound + 1
  /\ UNCHANGED <<scene, limit, posted>>

\* forget_before: the keyframe that covers the instant stays.
ForgetBefore(at) ==
  /\ pc = "idle" /\ Cardinality(Covering(at)) > 1
  /\ keyframes' = SubSeq(keyframes, Cardinality(Covering(at)), Len(keyframes))
  /\ UNCHANGED <<recorderVars, scene, machineVars, due, goal, limit, pc, posted,
                 rewound, lived>>

\* A host thread.
HostPosts ==
  /\ posted < MaxPosts
  /\ Post(posted + 1) /\ posted' = posted + 1
  /\ UNCHANGED <<scene, machineVars, historyVars, goal, limit, pc, rewound, lived>>

\* The session ends; its log is replayed on a fresh machine with a fresh
\* timeline.
Replay ==
  /\ pc = "idle" /\ now > 0 /\ Replaying
  /\ now' = 0 /\ edge' = 0 /\ read' = <<>>
  /\ keyframes' = <<>> /\ due' = 0 /\ rewound' = 0
  /\ UNCHANGED <<scene, goal, limit, pc, posted, lived>>

Driving == Loop \/ Pump \/ Decline \/ Round \/ After

Next ==
  \/ RunUntil \/ Driving \/ HostPosts \/ Replay
  \/ \E at \in scene.backTo : RewindTo(at)
  \/ \E at \in 0 .. MaxNow : ForgetBefore(at)

\* A call that was made is carried on; nobody has to make one.
Spec == Init /\ [][Next]_vars /\ WF_vars(Driving)

-----------------------------------------------------------------------------
(***************************************************************************)
(* The log is ordered and never ahead of the machine that records it, so   *)
(* no delivery is ever refused: "virtual time went backwards between       *)
(* rounds" does not happen, whatever was rewound and posted.               *)
(***************************************************************************)
LogOrdered ==
  /\ \A i, j \in 1 .. Len(log) : i < j => log[i].at <= log[j].at
  /\ recording /\ log # <<>> => Last(log).at <= now

(***************************************************************************)
(* Every input enters the guest once: what it has read and what waits in   *)
(* its port is exactly what the log holds, or what a replay has handed out *)
(* of it, in that order, but for what a full port refused.  A rewind takes *)
(* inputs back and hands them out again; none is doubled and none is lost. *)
(***************************************************************************)
InputsOnce ==
  Payloads(read) \o port =
    SelectSeq(Payloads(IF recording THEN log ELSE SubSeq(log, 1, cursor)),
              LAMBDA x : x \notin dropped)

(***************************************************************************)
(* A replay goes through the states the recording went through, round for  *)
(* round, however the replay is sliced, snapshotted and rewound, up to the *)
(* first input that the recording took inside a round.  (A call that ends  *)
(* inside a round declines it, and the next call takes inputs there before *)
(* the round runs; a replay that does not stop there runs the round        *)
(* without them.)                                                          *)
(***************************************************************************)
ReplayFaithful ==
  /\ ~recording /\ edge > 0 /\ edge \div QUANTUM <= Len(lived)
  /\ \A i \in 1 .. Len(log) : log[i].at < edge => log[i].at % QUANTUM = 0
  => read = lived[edge \div QUANTUM]

(***************************************************************************)
(* Every keyframe is one of the run as it now stands: instants ascend, the *)
(* newest is not ahead of the machine, and what a keyframe would restore   *)
(* is what the guest went through on the way to where it is, not a future  *)
(* that a rewind has replaced.                                             *)
(***************************************************************************)
KeyframesTrue ==
  /\ \A i, j \in 1 .. Len(keyframes) : i < j => keyframes[i].at < keyframes[j].at
  /\ keyframes # <<>> => Last(keyframes).at <= now
  /\ \A i \in 1 .. Len(keyframes) :
       /\ keyframes[i].edge = (keyframes[i].at \div QUANTUM) * QUANTUM
       /\ IsPrefix(keyframes[i].read, read)

\* run_until and rewind_to return: the loop over cadence points never stands
\* still, whatever the cadence.
RunReturns == []<>(pc = "idle")
=============================================================================
