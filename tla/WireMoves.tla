------------------------------ MODULE WireMoves ------------------------------
(***************************************************************************)
(* Where each step of a call on a net leaves the thread that takes it, and *)
(* what else it changes: the facts the proofs about Wire are built from.   *)
(***************************************************************************)
EXTENDS Wire, TLAPS

Stations == Delivery \cup {"out", "mark", "announce", "claim", "look"}

Standing == [pc : Stations, at : Sources, moved : BOOLEAN, passes : Nat,
             level : {0, 1}, seen : SUBSET Drives]

WireTypes ==
  /\ mode \in Modes
  /\ drives \in [Sources -> Drives]
  /\ pending \in [Sources -> BOOLEAN]
  /\ delivering \in BOOLEAN
  /\ unsettled \in Nat
  /\ last_resolved \in {0, 1, RESOLVED_UNKNOWN}
  /\ heard \in [Sources -> {0, 1}]
  /\ wt \in [Threads -> Standing]

-----------------------------------------------------------------------------
\* The flag is up while some thread delivers, and no other does.
Exclusive ==
  /\ \A t, u \in Threads : wt[t].pc \in Delivery /\ wt[u].pc \in Delivery => t = u
  /\ delivering <=> \E t \in Threads : wt[t].pc \in Delivery

\* Each mode has its own way through a pass, and a pass begins with nothing read.
Ways ==
  \A t \in Threads :
    /\ wt[t].pc \in {"read", "settle"} => mode = "Resolved"
    /\ wt[t].pc = "level" => mode = "PerSink"
    /\ wt[t].pc = "scan" /\ mode = "Resolved" => wt[t].seen = {}
    /\ wt[t].pc = "settle" => wt[t].at = 1
    /\ wt[t].pc \in {"drop", "leave"} => unsettled > 0

Base == WireTypes /\ Exclusive /\ Ways

-----------------------------------------------------------------------------
\* Where a step leaves its thread.  The other threads stay where they are.
Others(t) == wt' \in [Threads -> Standing] /\ \A u \in Threads \ {t} : wt'[u] = wt[u]

LEMMA Going ==
  ASSUME WireTypes, NEW t \in Threads, NEW pc \in Stations, NEW r \in Standing, Goes(t, pc, r)
  PROVE  /\ Others(t)
         /\ wt'[t].pc = pc /\ wt'[t].at = r.at /\ wt'[t].moved = r.moved
         /\ wt'[t].level = r.level /\ wt'[t].seen = r.seen
<1>1. [r EXCEPT !.pc = pc] \in Standing
  BY DEF Standing
<1>2. QED
  BY <1>1 DEF Goes, Others, WireTypes, Standing

LEMMA OutsideStands == Outside \in Standing /\ 1 \in Sources /\ NSources \in Sources
  BY WireAssumption DEF Outside, Standing, Stations, Sources

\* Back outside the walk of a pass: nothing gathered, nothing moved.
Afresh(t) == wt'[t].at = 1 /\ wt'[t].moved = FALSE /\ wt'[t].seen = {}

LEMMA GoingAfresh ==
  ASSUME WireTypes, NEW t \in Threads, NEW pc \in Stations, Goes(t, pc, Outside)
  PROVE  Others(t) /\ wt'[t].pc = pc /\ Afresh(t)
  BY Going, OutsideStands DEF Afresh, Outside

LEMMA Walking ==
  ASSUME WireTypes, NEW t \in Threads, NEW loop \in Stations, NEW pc \in Stations,
         NEW r \in Standing, Walk(t, loop, pc, r)
  PROVE  /\ Others(t) /\ wt'[t].seen = r.seen
         /\ \/ r.at < NSources /\ wt'[t].pc = loop /\ wt'[t].at = r.at + 1
            \/ r.at = NSources /\ wt'[t].pc = pc /\ wt'[t].at = 1
<1>1. CASE r.at < NSources
  <2>1. [r EXCEPT !.at = @ + 1] \in Standing
    BY <1>1, WireAssumption DEF Standing, Sources
  <2>2. Goes(t, loop, [r EXCEPT !.at = @ + 1])
    BY <1>1 DEF Walk
  <2>3. QED
    BY <1>1, <2>1, <2>2, Going DEF Standing
<1>2. CASE ~(r.at < NSources)
  <2>1. [r EXCEPT !.at = 1] \in Standing
    BY OutsideStands DEF Standing
  <2>2. Goes(t, pc, [r EXCEPT !.at = 1])
    BY <1>2 DEF Walk
  <2>3. r.at = NSources
    BY <1>2, WireAssumption DEF Standing, Sources
  <2>4. QED
    BY <2>1, <2>2, <2>3, Going DEF Standing
<1>3. QED
  BY <1>1, <1>2

LEMMA PassingOver ==
  ASSUME WireTypes, NEW t \in Threads, NEW moved \in BOOLEAN, NEW r \in Standing,
         PassOver(t, moved, r)
  PROVE  /\ Others(t) /\ Afresh(t)
         /\ wt'[t].pc = "open" \/ (moved /\ wt'[t].pc \in {"scan", "giveup"})
         /\ ~moved => wt'[t].pc = "open"
<1>1. CASE ~moved
  BY <1>1, GoingAfresh DEF PassOver, Stations, Delivery
<1>2. CASE moved /\ r.passes + 1 >= SETTLE_LIMIT
  BY <1>2, GoingAfresh DEF PassOver, Stations, Delivery
<1>3. CASE moved /\ ~(r.passes + 1 >= SETTLE_LIMIT)
  <2> DEFINE o == [Outside EXCEPT !.passes = r.passes + 1]
  <2>1. o \in Standing /\ o.at = 1 /\ o.moved = FALSE /\ o.seen = {}
    <3>1. Outside.at = 1 /\ Outside.moved = FALSE /\ Outside.seen = {}
      BY DEF Outside
    <3>2. QED
      BY <3>1, OutsideStands DEF Standing
  <2>2. Goes(t, "scan", o)
    BY <1>3 DEF PassOver
  <2> HIDE DEF o
  <2>3. QED
    BY <1>3, <2>1, <2>2, Going DEF Stations, Delivery, Afresh
<1>4. QED
  BY <1>1, <1>2, <1>3

LEMMA NextSources ==
  ASSUME WireTypes, NEW t \in Threads, NEW r \in Standing, NextSource(t, r)
  PROVE  /\ Others(t)
         /\ \/ /\ r.at < NSources /\ wt'[t].pc = "scan" /\ wt'[t].at = r.at + 1
               /\ wt'[t].moved = r.moved /\ wt'[t].seen = r.seen
            \/ r.at = NSources /\ Afresh(t) /\ wt'[t].pc \in {"open", "scan", "giveup"}
<1>1. CASE r.at < NSources
  <2> DEFINE o == [r EXCEPT !.at = @ + 1]
  <2>1. o \in Standing /\ o.at = r.at + 1 /\ o.moved = r.moved /\ o.seen = r.seen
    BY <1>1, WireAssumption DEF Standing, Sources
  <2>2. Goes(t, "scan", o)
    BY <1>1 DEF NextSource
  <2> HIDE DEF o
  <2>3. QED
    BY <1>1, <2>1, <2>2, Going DEF Stations, Delivery
<1>2. CASE ~(r.at < NSources)
  <2>1. r.at = NSources /\ r.moved \in BOOLEAN
    BY <1>2, WireAssumption DEF Standing, Sources
  <2>2. QED
    BY <1>2, <2>1, PassingOver DEF NextSource
<1>3. QED
  BY <1>1, <1>2

-----------------------------------------------------------------------------
\* The steps of a call, one by one.
LEMMA DriveMoves ==
  ASSUME WireTypes, NEW t \in Threads, NEW s \in Sources, NEW d \in Drives, Drive(t, s, d)
  PROVE  /\ wt[t].pc = "out" /\ Others(t)
         /\ \/ drives' = drives /\ wt' = wt
            \/ drives' = [drives EXCEPT ![s] = d] /\ wt'[t].pc = "mark" /\ wt'[t].at = s
         /\ UNCHANGED <<mode, pending, delivering, unsettled, last_resolved, heard>>
<1> DEFINE o == [Outside EXCEPT !.pc = "mark", !.at = s]
<1>1. o \in Standing /\ o.pc = "mark" /\ o.at = s
  BY OutsideStands, Zenon DEF Standing, Stations
<1>2. CASE drives[s] = d
  BY <1>2 DEF Drive, Others, WireTypes
<1>3. CASE drives[s] # d
  <2>1. wt' = [wt EXCEPT ![t] = o]
    BY <1>3 DEF Drive
  <2> HIDE DEF o
  <2>2. QED
    BY <1>1, <2>1 DEF Drive, Others, WireTypes
<1>4. QED
  BY <1>2, <1>3

LEMMA RefreshMoves ==
  ASSUME WireTypes, NEW t \in Threads, Refresh(t)
  PROVE  /\ wt[t].pc = "out" /\ Others(t) /\ wt'[t].pc = "announce" /\ wt'[t].at = 1
         /\ last_resolved' = RESOLVED_UNKNOWN
         /\ UNCHANGED <<mode, drives, pending, delivering, unsettled, heard>>
  BY GoingAfresh, Zenon DEF Refresh, Stations, Afresh

LEMMA MarkMoves ==
  ASSUME WireTypes, NEW t \in Threads, Mark(t)
  PROVE  /\ wt[t].pc = "mark" /\ Others(t) /\ wt'[t].pc = "claim"
         /\ pending' = [pending EXCEPT ![wt[t].at] = TRUE]
         /\ UNCHANGED <<mode, drives, delivering, unsettled, last_resolved, heard>>
  BY GoingAfresh DEF Mark, Stations

LEMMA AnnounceMoves ==
  ASSUME WireTypes, NEW t \in Threads, Announce(t)
  PROVE  /\ wt[t].pc = "announce" /\ Others(t) /\ wt'[t].pc \in {"announce", "claim"}
         /\ pending' = [pending EXCEPT ![wt[t].at] = TRUE]
         /\ UNCHANGED <<mode, drives, delivering, unsettled, last_resolved, heard>>
<1>1. wt[t] \in Standing /\ "announce" \in Stations /\ "claim" \in Stations
  BY DEF WireTypes, Stations
<1>2. Walk(t, "announce", "claim", wt[t])
  BY DEF Announce
<1>3. Others(t) /\ wt'[t].pc \in {"announce", "claim"}
  BY <1>1, <1>2, Walking
<1>4. QED
  BY <1>3, Zenon DEF Announce

LEMMA ClaimMoves ==
  ASSUME WireTypes, NEW t \in Threads, Claim(t)
  PROVE  /\ wt[t].pc = "claim" /\ Others(t) /\ Afresh(t) /\ delivering' = TRUE
         /\ wt'[t].pc = IF delivering THEN "out" ELSE "scan"
         /\ UNCHANGED <<mode, drives, pending, unsettled, last_resolved, heard>>
  BY GoingAfresh DEF Claim, Stations, Delivery

LEMMA ReadLevelMoves ==
  ASSUME WireTypes, NEW t \in Threads, ReadLevel(t)
  PROVE  /\ wt[t].pc = "level" /\ Others(t) /\ wt'[t].pc = "tell" /\ wt'[t].at = wt[t].at
         /\ wt'[t].level = code_is_high(drives[wt[t].at])
         /\ UNCHANGED <<mode, drives, pending, delivering, unsettled, last_resolved, heard>>
<1> DEFINE o == [wt[t] EXCEPT !.level = code_is_high(drives[wt[t].at])]
<1>1. o \in Standing /\ o.at = wt[t].at /\ o.level = code_is_high(drives[wt[t].at])
  BY DEF WireTypes, Standing, code_is_high
<1>2. wt[t].pc = "level" /\ Goes(t, "tell", o)
  BY DEF ReadLevel
<1> HIDE DEF o
<1>3. QED
  BY <1>1, <1>2, Going DEF ReadLevel, Stations, Delivery

LEMMA ReadDriveMoves ==
  ASSUME WireTypes, NEW t \in Threads, ReadDrive(t)
  PROVE  /\ wt[t].pc = "read" /\ Others(t)
         /\ wt'[t].seen = wt[t].seen \cup {drives[wt[t].at]}
         /\ \/ wt[t].at < NSources /\ wt'[t].pc = "read" /\ wt'[t].at = wt[t].at + 1
            \/ wt[t].at = NSources /\ wt'[t].pc = "settle" /\ wt'[t].at = 1
         /\ UNCHANGED <<mode, drives, pending, delivering, unsettled, last_resolved, heard>>
<1> DEFINE o == [wt[t] EXCEPT !.seen = @ \cup {drives[wt[t].at]}]
<1>1. o \in Standing /\ o.at = wt[t].at /\ o.seen = wt[t].seen \cup {drives[wt[t].at]}
  BY DEF WireTypes, Standing
<1>2. /\ wt[t].pc = "read" /\ Walk(t, "read", "settle", o)
      /\ UNCHANGED <<mode, drives, pending, delivering, unsettled, last_resolved, heard>>
  BY DEF ReadDrive
<1> HIDE DEF o
<1>3. "read" \in Stations /\ "settle" \in Stations
  BY DEF Stations, Delivery
<1>4. QED
  BY <1>1, <1>2, <1>3, Walking

LEMMA SettleMoves ==
  ASSUME WireTypes, NEW t \in Threads, Settle(t)
  PROVE  /\ wt[t].pc = "settle" /\ Others(t)
         /\ last_resolved' = resolve_drives(wt[t].seen)
         /\ \/ last_resolved = resolve_drives(wt[t].seen) /\ wt'[t].pc = "open"
            \/ /\ wt'[t].pc = "tell" /\ wt'[t].at = wt[t].at
               /\ wt'[t].level = resolve_drives(wt[t].seen)
         /\ UNCHANGED <<mode, drives, pending, delivering, unsettled, heard>>
<1> DEFINE level == resolve_drives(wt[t].seen)
           o == [wt[t] EXCEPT !.level = level]
<1>1. level \in {0, 1}
  BY DEF resolve_drives
<1> HIDE DEF level
<1>2. o \in Standing /\ o.at = wt[t].at /\ o.level = level
  BY <1>1 DEF WireTypes, Standing
<1>3. wt[t].pc = "settle" /\ last_resolved' = level
      /\ UNCHANGED <<mode, drives, pending, delivering, unsettled, heard>>
  BY DEF Settle, level
<1>4. CASE last_resolved = level
  <2>1. PassOver(t, FALSE, wt[t])
    BY <1>4, Zenon DEF Settle, level
  <2>2. QED
    BY <1>3, <1>4, <2>1, PassingOver, Zenon DEF WireTypes, level
<1>5. CASE last_resolved # level
  <2>1. Goes(t, "tell", o)
    BY <1>5, SMTT(30) DEF Settle, level
  <2> HIDE DEF o
  <2>2. QED
    BY <1>2, <1>3, <2>1, Going DEF Stations, Delivery, level
<1>6. QED
  BY <1>4, <1>5

LEMMA ScanMoves ==
  ASSUME WireTypes, NEW t \in Threads, Scan(t)
  PROVE  /\ wt[t].pc = "scan" /\ Others(t)
         /\ pending' = [pending EXCEPT ![wt[t].at] = FALSE]
         /\ \/ /\ mode = "PerSink" /\ pending[wt[t].at]
               /\ wt'[t].pc = "level" /\ wt'[t].at = wt[t].at
            \/ /\ mode = "PerSink" /\ ~pending[wt[t].at]
               /\ wt'[t].pc \in {"scan", "open", "giveup"}
            \/ /\ mode # "PerSink" /\ wt'[t].pc = "scan" /\ wt'[t].seen = wt[t].seen
               /\ wt'[t].moved = (wt[t].moved \/ pending[wt[t].at])
            \/ /\ mode # "PerSink" /\ wt'[t].pc = "read" /\ wt'[t].at = 1
               /\ wt'[t].seen = wt[t].seen
            \/ /\ mode # "PerSink" /\ wt'[t].pc = "open"
               /\ ~wt[t].moved /\ ~pending[wt[t].at]
         /\ UNCHANGED <<mode, drives, delivering, unsettled, last_resolved, heard>>
<1> DEFINE s == wt[t].at
           r == [wt[t] EXCEPT !.moved = @ \/ pending[s]]
<1>1. /\ r \in Standing /\ r.at = wt[t].at /\ r.seen = wt[t].seen
      /\ r.moved = (wt[t].moved \/ pending[s]) /\ s \in Sources
  BY DEF WireTypes, Standing
<1>2. /\ wt[t].pc = "scan"
      /\ pending' = [pending EXCEPT ![s] = FALSE]
      /\ UNCHANGED <<mode, drives, delivering, unsettled, last_resolved, heard>>
  BY DEF Scan
<1>3. IF mode = "PerSink"
      THEN IF pending[s] THEN Goes(t, "level", r) ELSE NextSource(t, r)
      ELSE IF r.at < NSources THEN Goes(t, "scan", [r EXCEPT !.at = @ + 1])
           ELSE IF r.moved THEN Goes(t, "read", [r EXCEPT !.at = 1])
                ELSE PassOver(t, FALSE, r)
  BY Zenon DEF Scan
<1> HIDE DEF r
<1>4. {"scan", "read", "level", "open", "giveup"} \subseteq Stations
  BY DEF Stations, Delivery
<1>5. CASE mode = "PerSink" /\ pending[s]
  BY <1>1, <1>2, <1>3, <1>4, <1>5, Going
<1>6. CASE mode = "PerSink" /\ ~pending[s]
  BY <1>1, <1>2, <1>3, <1>6, NextSources, SMTT(30)
<1>7. CASE mode # "PerSink" /\ r.at < NSources
  <2> DEFINE o == [r EXCEPT !.at = @ + 1]
  <2>1. o \in Standing /\ o.moved = r.moved /\ o.seen = r.seen
    BY <1>1, <1>7, WireAssumption DEF Standing, Sources
  <2>2. Goes(t, "scan", o)
    BY <1>3, <1>7
  <2> HIDE DEF o
  <2>3. QED
    BY <1>1, <1>2, <1>4, <1>7, <2>1, <2>2, Going
<1>8. CASE mode # "PerSink" /\ ~(r.at < NSources) /\ r.moved
  <2> DEFINE o == [r EXCEPT !.at = 1]
  <2>1. o \in Standing /\ o.at = 1 /\ o.seen = r.seen
    BY <1>1, OutsideStands DEF Standing
  <2>2. Goes(t, "read", o)
    BY <1>3, <1>8
  <2> HIDE DEF o
  <2>3. QED
    BY <1>1, <1>2, <1>4, <1>8, <2>1, <2>2, Going
<1>9. CASE mode # "PerSink" /\ ~(r.at < NSources) /\ ~r.moved
  BY <1>1, <1>2, <1>3, <1>9, PassingOver, Zenon
<1>10. QED
  BY <1>5, <1>6, <1>7, <1>8, <1>9

LEMMA AnswersDrive ==
  ASSUME WireTypes, NEW s \in Sources, NEW level \in {0, 1}
  PROVE  Answered(s, level) \in [Sources -> Drives]
<1> SUFFICES ASSUME NEW i \in Sources
             PROVE  Answered(s, level)[i] \in Drives
  BY Zenon DEF Answered
<1>1. CASE \E d \in Drives : <<i, d>> \in Feedback[<<s, level>>]
  BY <1>1 DEF Answered
<1>2. CASE ~\E d \in Drives : <<i, d>> \in Feedback[<<s, level>>]
  BY <1>2, SMTT(30) DEF Answered, WireTypes
<1>3. QED
  BY <1>1, <1>2

LEMMA TellMoves ==
  ASSUME WireTypes, NEW t \in Threads, Tell(t)
  PROVE  /\ wt[t].pc = "tell" /\ Others(t)
         /\ heard' = [heard EXCEPT ![wt[t].at] = wt[t].level]
         /\ drives' \in [Sources -> Drives]
         /\ pending' \in [Sources -> BOOLEAN]
         /\ \A i \in Sources : pending'[i] <=> (pending[i] \/ drives'[i] # drives[i])
         /\ delivering' \in BOOLEAN /\ (delivering => delivering')
         /\ \/ /\ mode = "PerSink" /\ wt'[t].pc \in {"scan", "open", "giveup"}
            \/ /\ mode # "PerSink" /\ wt'[t].pc = "tell" /\ wt'[t].level = wt[t].level
               /\ wt[t].at < NSources /\ wt'[t].at = wt[t].at + 1
            \/ /\ mode # "PerSink" /\ wt'[t].pc \in {"open", "scan", "giveup"}
               /\ wt[t].at = NSources /\ Afresh(t)
         /\ UNCHANGED <<mode, unsettled, last_resolved>>
<1>1. wt[t] \in Standing /\ wt[t].at \in Sources /\ wt[t].level \in {0, 1}
  BY DEF WireTypes, Standing
<1>2. drives' \in [Sources -> Drives]
  BY <1>1, AnswersDrive DEF Tell
<1>3. /\ wt[t].pc = "tell"
      /\ heard' = [heard EXCEPT ![wt[t].at] = wt[t].level]
      /\ pending' = [i \in Sources |-> pending[i] \/ drives'[i] # drives[i]]
      /\ delivering' \in BOOLEAN /\ (delivering => delivering')
      /\ UNCHANGED <<mode, unsettled, last_resolved>>
  BY DEF Tell, WireTypes
<1>9. /\ pending' \in [Sources -> BOOLEAN]
      /\ \A i \in Sources : pending'[i] <=> (pending[i] \/ drives'[i] # drives[i])
  BY <1>3, Zenon
<1>4. IF mode = "PerSink" THEN NextSource(t, wt[t])
      ELSE IF wt[t].at < NSources THEN Goes(t, "tell", [wt[t] EXCEPT !.at = @ + 1])
           ELSE PassOver(t, TRUE, wt[t])
  BY Zenon DEF Tell
<1>5. CASE mode = "PerSink"
  BY <1>1, <1>2, <1>3, <1>4, <1>5, <1>9, NextSources, SMTT(30)
<1>6. CASE mode # "PerSink" /\ wt[t].at < NSources
  <2> DEFINE o == [wt[t] EXCEPT !.at = @ + 1]
  <2>1. o \in Standing /\ o.at = wt[t].at + 1 /\ o.level = wt[t].level
    BY <1>1, <1>6, WireAssumption DEF Standing, Sources
  <2>2. Goes(t, "tell", o) /\ "tell" \in Stations
    BY <1>4, <1>6 DEF Stations, Delivery
  <2> HIDE DEF o
  <2>3. QED
    BY <1>2, <1>3, <1>6, <1>9, <2>1, <2>2, Going
<1>7. CASE mode # "PerSink" /\ ~(wt[t].at < NSources)
  <2>1. wt[t].at = NSources
    BY <1>1, <1>7, WireAssumption DEF Sources
  <2>2. QED
    BY <1>1, <1>2, <1>3, <1>4, <1>7, <1>9, <2>1, PassingOver, Zenon
<1>8. QED
  BY <1>5, <1>6, <1>7

LEMMA OpenMoves ==
  ASSUME WireTypes, NEW t \in Threads, Open(t)
  PROVE  /\ wt[t].pc = "open" /\ Others(t) /\ wt'[t].pc = "look" /\ wt'[t].at = 1
         /\ delivering' = FALSE
         /\ UNCHANGED <<mode, drives, pending, unsettled, last_resolved, heard>>
  BY GoingAfresh, Zenon DEF Open, Stations, Afresh

LEMMA LookMoves ==
  ASSUME WireTypes, NEW t \in Threads, Look(t)
  PROVE  /\ wt[t].pc = "look" /\ Others(t)
         /\ \/ wt'[t].pc = "claim"
            \/ /\ ~pending[wt[t].at]
               /\ \/ wt'[t].pc = "look" /\ wt'[t].at = wt[t].at + 1
                  \/ wt'[t].pc = "out" /\ wt[t].at = NSources
         /\ UNCHANGED <<mode, drives, pending, delivering, unsettled, last_resolved, heard>>
<1>1. wt[t] \in Standing /\ "look" \in Stations /\ "out" \in Stations /\ "claim" \in Stations
  BY DEF WireTypes, Stations
<1>2. CASE pending[wt[t].at]
  BY <1>1, <1>2, GoingAfresh DEF Look
<1>3. CASE ~pending[wt[t].at]
  BY <1>1, <1>3, Walking DEF Look
<1>4. QED
  BY <1>2, <1>3

LEMMA GiveUpMoves ==
  ASSUME WireTypes, NEW t \in Threads, GiveUp(t)
  PROVE  /\ wt[t].pc = "giveup" /\ Others(t) /\ wt'[t].pc = "drop"
         /\ unsettled' = unsettled + 1
         /\ UNCHANGED <<mode, drives, pending, delivering, last_resolved, heard>>
  BY GoingAfresh DEF GiveUp, Stations, Delivery

LEMMA DropMarkMoves ==
  ASSUME WireTypes, NEW t \in Threads, DropMark(t)
  PROVE  /\ wt[t].pc = "drop" /\ Others(t) /\ wt'[t].pc \in {"drop", "leave"}
         /\ pending' = [pending EXCEPT ![wt[t].at] = FALSE]
         /\ UNCHANGED <<mode, drives, delivering, unsettled, last_resolved, heard>>
<1>1. wt[t] \in Standing /\ "drop" \in Stations /\ "leave" \in Stations
  BY DEF WireTypes, Stations, Delivery
<1>2. QED
  BY <1>1, Walking DEF DropMark

LEMMA LeaveMoves ==
  ASSUME WireTypes, NEW t \in Threads, Leave(t)
  PROVE  /\ wt[t].pc = "leave" /\ Others(t) /\ wt'[t].pc = "out" /\ delivering' = FALSE
         /\ UNCHANGED <<mode, drives, pending, unsettled, last_resolved, heard>>
  BY GoingAfresh DEF Leave, Stations, Delivery

-----------------------------------------------------------------------------
\* What every step keeps of the base of the invariant.
LEMMA TwoModes == WireTypes => mode = "PerSink" \/ mode = "Resolved"
  BY WireAssumption, SMTT(30) DEF WireTypes

LEMMA TypesStep ==
  ASSUME WireTypes, NEW t \in Threads,
         (\E s \in Sources, d \in Drives : Drive(t, s, d)) \/ Refresh(t) \/ WireStep(t)
  PROVE  WireTypes'
<1> USE DEF WireTypes, Others
<1>1. ASSUME NEW s \in Sources, NEW d \in Drives, Drive(t, s, d)
      PROVE  WireTypes'
  BY <1>1, DriveMoves
<1>2. CASE Refresh(t)
  BY <1>2, RefreshMoves
<1>3. CASE Mark(t)
  BY <1>3, MarkMoves, Zenon
<1>4. CASE Announce(t)
  BY <1>4, AnnounceMoves, Zenon
<1>5. CASE Claim(t)
  BY <1>5, ClaimMoves, Zenon
<1>6. CASE Scan(t)
  BY <1>6, ScanMoves, Zenon
<1>7. CASE ReadLevel(t)
  BY <1>7, ReadLevelMoves
<1>8. CASE ReadDrive(t)
  BY <1>8, ReadDriveMoves, SMTT(30)
<1>9. CASE Settle(t)
  BY <1>9, SettleMoves, SMTT(30) DEF resolve_drives
<1>10. CASE Tell(t)
  <2>1. wt[t].level \in {0, 1} /\ wt[t].at \in Sources
    BY SMTT(30) DEF Standing
  <2>2. QED
    BY <1>10, <2>1, TellMoves
<1>11. CASE Open(t)
  BY <1>11, OpenMoves, Zenon
<1>12. CASE Look(t)
  BY <1>12, LookMoves
<1>13. CASE GiveUp(t)
  BY <1>13, GiveUpMoves
<1>14. CASE DropMark(t)
  BY <1>14, DropMarkMoves, Zenon
<1>15. CASE Leave(t)
  BY <1>15, LeaveMoves, Zenon
<1>16. QED
  BY <1>1, <1>2, <1>3, <1>4, <1>5, <1>6, <1>7, <1>8, <1>9, <1>10, <1>11,
     <1>12, <1>13, <1>14, <1>15, SMTT(30) DEF WireStep

LEMMA SameSide ==
  ASSUME Exclusive, NEW t \in Threads, Others(t), delivering' = delivering,
         wt'[t].pc \in Delivery <=> wt[t].pc \in Delivery
  PROVE  Exclusive'
  BY SMTT(30) DEF Exclusive, Others

LEMMA ExclusiveStep ==
  ASSUME WireTypes, Exclusive, NEW t \in Threads,
         (\E s \in Sources, d \in Drives : Drive(t, s, d)) \/ Refresh(t) \/ WireStep(t)
  PROVE  Exclusive'
<1> USE DEF Delivery
<1>1. ASSUME NEW s \in Sources, NEW d \in Drives, Drive(t, s, d)
      PROVE  Exclusive'
  BY <1>1, DriveMoves, SameSide, Zenon
<1>2. CASE Refresh(t)
  BY <1>2, RefreshMoves, SameSide, SMTT(30)
<1>3. CASE Mark(t)
  BY <1>3, MarkMoves, SameSide, SMTT(30)
<1>4. CASE Announce(t)
  BY <1>4, AnnounceMoves, SameSide, SMTT(30)
<1>5. CASE Claim(t)
  <2>1. wt[t].pc = "claim" /\ Others(t) /\ delivering' = TRUE
    BY <1>5, ClaimMoves, Zenon
  <2>2. CASE delivering
    <3>1. wt'[t].pc = "out"
      BY <1>5, <2>2, ClaimMoves, Zenon
    <3>2. QED
      BY <2>1, <2>2, <3>1, SMTT(30) DEF Exclusive, Others
  <2>3. CASE ~delivering
    <3>1. wt'[t].pc = "scan"
      BY <1>5, <2>3, ClaimMoves, Zenon
    <3>2. QED
      BY <2>1, <2>3, <3>1, SMTT(30) DEF Exclusive, Others
  <2>4. QED
    BY <2>2, <2>3, SMTT(30)
<1>6. CASE Scan(t)
  BY <1>6, ScanMoves, SameSide, Zenon
<1>7. CASE ReadLevel(t)
  BY <1>7, ReadLevelMoves, SameSide, Zenon
<1>8. CASE ReadDrive(t)
  BY <1>8, ReadDriveMoves, SameSide, Zenon
<1>9. CASE Settle(t)
  BY <1>9, SettleMoves, SameSide, Zenon
<1>10. CASE Tell(t)
  <2>1. delivering /\ delivering' /\ delivering' = delivering
    BY <1>10, TellMoves, Zenon DEF Exclusive, WireTypes
  <2>2. QED
    BY <1>10, <2>1, TellMoves, SameSide, Zenon
<1>11. CASE Open(t)
  <2>1. wt[t].pc = "open" /\ Others(t) /\ delivering' = FALSE /\ wt'[t].pc = "look"
    BY <1>11, OpenMoves, Zenon
  <2>2. QED
    BY <2>1, SMTT(30) DEF Exclusive, Others
<1>12. CASE Look(t)
  BY <1>12, LookMoves, SameSide, Zenon
<1>13. CASE GiveUp(t)
  BY <1>13, GiveUpMoves, SameSide, SMTT(30)
<1>14. CASE DropMark(t)
  BY <1>14, DropMarkMoves, SameSide, SMTT(30)
<1>15. CASE Leave(t)
  <2>1. wt[t].pc = "leave" /\ Others(t) /\ delivering' = FALSE /\ wt'[t].pc = "out"
    BY <1>15, LeaveMoves, Zenon
  <2>2. QED
    BY <2>1, SMTT(30) DEF Exclusive, Others
<1>16. QED
  BY <1>1, <1>2, <1>3, <1>4, <1>5, <1>6, <1>7, <1>8, <1>9, <1>10, <1>11,
     <1>12, <1>13, <1>14, <1>15, SMTT(30) DEF WireStep

LEMMA WaysStep ==
  ASSUME WireTypes, Ways, NEW t \in Threads,
         (\E s \in Sources, d \in Drives : Drive(t, s, d)) \/ Refresh(t) \/ WireStep(t)
  PROVE  Ways'
<1> USE DEF Ways, Others
<1>1. ASSUME NEW s \in Sources, NEW d \in Drives, Drive(t, s, d)
      PROVE  Ways'
  BY <1>1, DriveMoves, SMTT(30)
<1>2. CASE Refresh(t)
  BY <1>2, RefreshMoves, SMTT(30)
<1>3. CASE Mark(t)
  <2>1. Others(t) /\ wt'[t].pc = "claim" /\ UNCHANGED <<mode, unsettled>>
    BY <1>3, MarkMoves, Zenon
  <2>2. QED
    BY <2>1, SMTT(30)
<1>4. CASE Announce(t)
  BY <1>4, AnnounceMoves, SMTT(30)
<1>5. CASE Claim(t)
  <2>1. Others(t) /\ wt'[t].seen = {} /\ UNCHANGED <<mode, unsettled>>
    BY <1>5, ClaimMoves, Zenon DEF Afresh
  <2>2. wt'[t].pc \in {"out", "scan"}
    BY <1>5, ClaimMoves, Zenon
  <2>3. QED
    BY <2>1, <2>2, SMTT(30)
<1>6. CASE Scan(t)
  BY <1>6, ScanMoves, TwoModes, SMTT(30)
<1>7. CASE ReadLevel(t)
  BY <1>7, ReadLevelMoves, SMTT(30)
<1>8. CASE ReadDrive(t)
  BY <1>8, ReadDriveMoves, SMTT(30)
<1>9. CASE Settle(t)
  BY <1>9, SettleMoves, SMTT(30)
<1>10. CASE Tell(t)
  <2>1. wt'[t].pc = "scan" /\ mode = "Resolved" => wt'[t].seen = {}
    BY <1>10, TellMoves, Zenon DEF Afresh
  <2>2. wt'[t].pc \in {"scan", "open", "giveup", "tell"}
    BY <1>10, TellMoves, Zenon
  <2>3. QED
    BY <1>10, <2>1, <2>2, TellMoves, SMTT(30)
<1>11. CASE Open(t)
  BY <1>11, OpenMoves, Zenon
<1>12. CASE Look(t)
  BY <1>12, LookMoves
<1>13. CASE GiveUp(t)
  BY <1>13, GiveUpMoves DEF WireTypes
<1>14. CASE DropMark(t)
  BY <1>14, DropMarkMoves
<1>15. CASE Leave(t)
  BY <1>15, LeaveMoves, Zenon
<1>16. QED
  BY <1>1, <1>2, <1>3, <1>4, <1>5, <1>6, <1>7, <1>8, <1>9, <1>10, <1>11,
     <1>12, <1>13, <1>14, <1>15, Zenon DEF WireStep
=============================================================================
