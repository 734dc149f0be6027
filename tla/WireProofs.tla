----------------------------- MODULE WireProofs -----------------------------
(***************************************************************************)
(* One deliverer at a time, and no change of drive forgotten, for any      *)
(* number of threads and sources, any answer of the sinks and any settle   *)
(* limit.                                                                  *)
(***************************************************************************)
EXTENDS WireMoves, FiniteSetTheorems

\* A change of source s that no delivery has taken up yet.
Stirred(s) == pending[s] \/ \E t \in Threads : wt[t].pc = "mark" /\ wt[t].at = s

\* Somebody will come by the mark of source s.
Comes(t, s) ==
  \/ wt[t].pc \in Delivery \cup {"claim", "announce"}
  \/ wt[t].pc = "look" /\ wt[t].at <= s
MarksSeen == \A s \in Sources : pending[s] => \E t \in Threads : Comes(t, s)

\* On a per-sink net a source's level is known, or on its way, or stirred.
Kept(s) ==
  \/ Stirred(s)
  \/ /\ \A t \in Threads : wt[t].pc = "tell" /\ wt[t].at = s =>
                             wt[t].level = code_is_high(drives[s])
     /\ \/ heard[s] = code_is_high(drives[s])
        \/ \E t \in Threads : wt[t].pc \in {"level", "tell"} /\ wt[t].at = s

\* On a resolved net last_resolved is what the sinks know, or will when the
\* telling under way is done, unless a refresh has forgotten it.
Remembered ==
  mode = "Resolved" =>
    /\ (\A t \in Threads : wt[t].pc # "tell") /\ last_resolved # RESOLVED_UNKNOWN =>
         \A s \in Sources : heard[s] = last_resolved
    /\ \A t \in Threads : wt[t].pc = "tell" =>
         /\ last_resolved \in {wt[t].level, RESOLVED_UNKNOWN}
         /\ \A s \in Sources : s < wt[t].at => heard[s] = wt[t].level

\* What a deliverer has gathered of the drives is what they are.
Net == resolve_drives(DrivesOn(drives))
Gathered ==
  \A t \in Threads :
    /\ wt[t].pc = "read" => wt[t].seen = {drives[s] : s \in 1 .. wt[t].at - 1}
    /\ wt[t].pc = "settle" => wt[t].seen = DrivesOn(drives)
    /\ wt[t].pc = "tell" => wt[t].level = Net

\* On a resolved net the sinks know what the drives say, or the news is on its
\* way, or some change has not been taken up or not been read yet.
Moving == \E t \in Threads : wt[t].pc = "scan" /\ wt[t].moved
Reading == \E t \in Threads : wt[t].pc \in {"read", "settle", "tell"}
AllStirred == \E s \in Sources : Stirred(s)
AllKnown == Gathered /\ ((\A s \in Sources : heard[s] = Net) \/ Reading)
NetKept == AllStirred \/ Moving \/ AllKnown

NothingLost ==
  /\ MarksSeen
  /\ mode = "PerSink" => \A s \in Sources : Kept(s)
  /\ mode = "Resolved" => NetKept
WireInv == Base /\ Remembered /\ (unsettled = 0 => NothingLost)

-----------------------------------------------------------------------------
\* No mark is left behind.  A thread that stays in the delivery, or enters it,
\* will come by every mark.
LEMMA StillComing ==
  ASSUME WireTypes, MarksSeen, NEW t \in Threads, Others(t), pending' = pending,
         \A s \in Sources : pending[s] /\ Comes(t, s) => Comes(t, s)'
  PROVE  MarksSeen'
  BY DEF MarksSeen, Comes, Others

LEMMA NotGivenUp ==
  ASSUME Base, unsettled = 0, NEW t \in Threads
  PROVE  wt[t].pc # "drop" /\ wt[t].pc # "leave"
  BY DEF Base, Ways

LEMMA Everywhere ==
  ASSUME NEW t \in Threads, wt'[t].pc \in Delivery \cup {"claim", "announce"}
  PROVE  MarksSeen'
  BY DEF MarksSeen, Comes

LEMMA MarksStep ==
  ASSUME Base, unsettled = 0, MarksSeen, NEW t \in Threads,
         (\E s \in Sources, d \in Drives : Drive(t, s, d)) \/ Refresh(t) \/ WireStep(t)
  PROVE  MarksSeen'
<1> WireTypes
  BY DEF Base
<1>1. ASSUME NEW s \in Sources, NEW d \in Drives, Drive(t, s, d)
      PROVE  MarksSeen'
  BY <1>1, DriveMoves, StillComing DEF Comes, Delivery
<1>2. CASE Refresh(t)
  BY <1>2, RefreshMoves, Everywhere
<1>3. CASE Mark(t)
  BY <1>3, MarkMoves, Everywhere DEF Delivery
<1>4. CASE Announce(t)
  BY <1>4, AnnounceMoves, Everywhere DEF Delivery
<1>5. CASE Claim(t)
  <2>1. CASE delivering
    <3>1. PICK u \in Threads : wt[u].pc \in Delivery
      BY <2>1 DEF Base, Exclusive
    <3>2. u # t /\ wt'[u].pc \in Delivery
      BY <1>5, <3>1, ClaimMoves, Zenon DEF Delivery, Others
    <3>3. QED
      BY <3>2, Everywhere
  <2>2. CASE ~delivering
    BY <1>5, <2>2, ClaimMoves, Everywhere, Zenon DEF Delivery
  <2>3. QED
    BY <2>1, <2>2
<1>6. CASE Scan(t)
  BY <1>6, ScanMoves, Everywhere DEF Delivery
<1>7. CASE ReadLevel(t)
  BY <1>7, ReadLevelMoves, Everywhere DEF Delivery
<1>8. CASE ReadDrive(t)
  BY <1>8, ReadDriveMoves, Everywhere DEF Delivery
<1>9. CASE Settle(t)
  BY <1>9, SettleMoves, Everywhere DEF Delivery
<1>10. CASE Tell(t)
  BY <1>10, TellMoves, Everywhere DEF Delivery
<1>11. CASE Open(t)
  <2>1. \A s \in Sources : Comes(t, s)'
    <3>1. wt'[t].pc = "look" /\ wt'[t].at = 1
      BY <1>11, OpenMoves, Zenon
    <3>2. \A s \in Sources : 1 <= s
      BY WireAssumption DEF Sources
    <3>3. QED
      BY <3>1, <3>2 DEF Comes
  <2>2. QED
    BY <1>11, <2>1, OpenMoves, StillComing, Zenon
<1>12. CASE Look(t)
  <2>1. CASE wt'[t].pc = "claim"
    BY <2>1, Everywhere
  <2>2. CASE ~pending[wt[t].at] /\ wt'[t].pc = "look" /\ wt'[t].at = wt[t].at + 1
    <3>1. \A s \in Sources : pending[s] /\ wt[t].at <= s => wt[t].at + 1 <= s
      BY <2>2 DEF WireTypes, Standing, Sources
    <3>2. QED
      BY <1>12, <2>2, <3>1, LookMoves, StillComing DEF Comes, Delivery
  <2>3. CASE ~pending[wt[t].at] /\ wt'[t].pc = "out" /\ wt[t].at = NSources
    <3>1. \A s \in Sources : ~(pending[s] /\ wt[t].at <= s)
      BY <2>3, WireAssumption DEF Sources
    <3>2. QED
      BY <1>12, <2>3, <3>1, LookMoves, StillComing DEF Comes, Delivery
  <2>4. QED
    BY <1>12, <2>1, <2>2, <2>3, LookMoves
<1>13. CASE GiveUp(t)
  BY <1>13, GiveUpMoves, Everywhere DEF Delivery
<1>14. CASE DropMark(t)
  BY <1>14, DropMarkMoves, NotGivenUp
<1>15. CASE Leave(t)
  BY <1>15, LeaveMoves, NotGivenUp, Zenon
<1>16. QED
  BY <1>1, <1>2, <1>3, <1>4, <1>5, <1>6, <1>7, <1>8, <1>9, <1>10, <1>11,
     <1>12, <1>13, <1>14, <1>15 DEF WireStep

-----------------------------------------------------------------------------
\* A step that takes up no change and reads or tells no level.
LEMMA KeptStill ==
  ASSUME NEW s \in Sources, Kept(s), NEW t \in Threads, Others(t),
         pending[s] => pending'[s], UNCHANGED <<drives, heard>>,
         wt[t].pc \notin {"mark", "level", "tell"}, wt'[t].pc \notin {"level", "tell"}
  PROVE  Kept(s)'
<1>1. CASE Stirred(s)
  BY <1>1 DEF Stirred, Others, Kept
<1>2. CASE ~Stirred(s)
  BY <1>2 DEF Others, Kept
<1>3. QED
  BY <1>1, <1>2

LEMMA PerSinkStep ==
  ASSUME Base, unsettled = 0, mode = "PerSink", NEW z \in Sources, Kept(z), NEW t \in Threads,
         (\E s \in Sources, d \in Drives : Drive(t, s, d)) \/ Refresh(t) \/ WireStep(t)
  PROVE  Kept(z)'
<1> WireTypes /\ Exclusive /\ Ways
  BY DEF Base
<1>1. ASSUME NEW s \in Sources, NEW d \in Drives, Drive(t, s, d)
      PROVE  Kept(z)'
  <2>1. CASE wt' = wt /\ drives' = drives
    BY <1>1, <2>1, DriveMoves, KeptStill
  <2>2. CASE wt'[t].pc = "mark" /\ wt'[t].at = s /\ z = s
    BY <2>2 DEF Kept, Stirred
  <2>3. CASE wt'[t].pc = "mark" /\ drives' = [drives EXCEPT ![s] = d] /\ z # s
    <3>1. /\ drives'[z] = drives[z] /\ heard' = heard /\ pending' = pending
          /\ Others(t) /\ wt[t].pc = "out" /\ wt'[t].pc = "mark"
      BY <1>1, <2>3, DriveMoves, SMTT(30) DEF WireTypes
    <3>2. CASE Stirred(z)
      BY <3>1, <3>2, SMTT(30) DEF Kept, Stirred, Others
    <3>3. CASE ~Stirred(z)
      BY <3>1, <3>3, SMTT(30) DEF Kept, Others
    <3>4. QED
      BY <3>2, <3>3
  <2>4. QED
    BY <1>1, <2>1, <2>2, <2>3, DriveMoves, SMTT(30)
<1>2. CASE Refresh(t)
  BY <1>2, RefreshMoves, KeptStill
<1>3. CASE Mark(t)
  <2>1. CASE z = wt[t].at
    BY <1>3, <2>1, MarkMoves DEF Kept, Stirred, WireTypes
  <2>2. CASE z # wt[t].at
    <3>1. /\ pending'[z] = pending[z] /\ UNCHANGED <<drives, heard>>
          /\ Others(t) /\ wt[t].pc = "mark" /\ wt'[t].pc = "claim"
      BY <1>3, <2>2, MarkMoves, SMTT(30) DEF WireTypes
    <3>2. CASE Stirred(z)
      BY <2>2, <3>1, <3>2, SMTT(30) DEF Kept, Stirred, Others
    <3>3. CASE ~Stirred(z)
      BY <3>1, <3>3, SMTT(30) DEF Kept, Others
    <3>4. QED
      BY <3>2, <3>3
  <2>3. QED
    BY <2>1, <2>2, SMTT(30)
<1>4. CASE Announce(t)
  BY <1>4, AnnounceMoves, KeptStill, SMTT(30) DEF WireTypes
<1>5. CASE Claim(t)
  BY <1>5, ClaimMoves, KeptStill, Zenon DEF WireTypes
<1>6. CASE Scan(t)
  <2>1. CASE ~pending[wt[t].at]
    BY <1>6, <2>1, ScanMoves, KeptStill, SMTT(30) DEF WireTypes
  <2>2. CASE pending[wt[t].at] /\ z = wt[t].at
    <3>1. \A u \in Threads : wt'[u].pc # "tell"
      BY <1>6, <2>2, ScanMoves, SMTT(30) DEF Exclusive, Others, Delivery
    <3>2. QED
      BY <1>6, <2>2, <3>1, ScanMoves, SMTT(30) DEF Kept
  <2>3. CASE pending[wt[t].at] /\ z # wt[t].at
    <3>1. /\ pending'[z] = pending[z] /\ UNCHANGED <<drives, heard>>
          /\ Others(t) /\ wt[t].pc = "scan" /\ wt'[t].pc = "level" /\ wt'[t].at # z
      BY <1>6, <2>3, ScanMoves, SMTT(30) DEF WireTypes
    <3>2. CASE Stirred(z)
      BY <3>1, <3>2, SMTT(30) DEF Kept, Stirred, Others
    <3>3. CASE ~Stirred(z)
      BY <3>1, <3>3, SMTT(30) DEF Kept, Others
    <3>4. QED
      BY <3>2, <3>3
  <2>4. QED
    BY <2>1, <2>2, <2>3, SMTT(30)
<1>7. CASE ReadLevel(t)
  <2>1. CASE Stirred(z)
    BY <1>7, <2>1, ReadLevelMoves, SMTT(30) DEF Kept, Stirred, Others
  <2>2. CASE ~Stirred(z)
    BY <1>7, <2>2, ReadLevelMoves, SMTT(30) DEF Kept, Others
  <2>3. QED
    BY <2>1, <2>2
<1>8. CASE ReadDrive(t)
  BY <1>8, ReadDriveMoves, SMTT(30) DEF Ways
<1>9. CASE Settle(t)
  BY <1>9, SettleMoves DEF Ways
<1>10. CASE Tell(t)
  <2>0. /\ wt[t].pc = "tell" /\ wt'[t].pc # "tell" /\ Others(t)
        /\ heard \in [Sources -> {0, 1}]
        /\ heard' = [heard EXCEPT ![wt[t].at] = wt[t].level]
        /\ \A i \in Sources : pending'[i] <=> (pending[i] \/ drives'[i] # drives[i])
    BY <1>10, TellMoves, SMTT(30) DEF WireTypes
  <2>1. CASE drives'[z] # drives[z]
    BY <2>0, <2>1, SMTT(30) DEF Kept, Stirred
  <2>2. CASE drives'[z] = drives[z] /\ Stirred(z)
    BY <2>0, <2>2 DEF Kept, Stirred, Others
  <2>3. CASE drives'[z] = drives[z] /\ ~Stirred(z)
    <3>1. \A u \in Threads : wt'[u].pc # "tell"
      BY <2>0 DEF Exclusive, Others, Delivery
    <3>2. heard'[z] = code_is_high(drives[z])
      <4>1. CASE z = wt[t].at
        BY <2>0, <2>3, <4>1, SMTT(30) DEF Kept
      <4>2. CASE z # wt[t].at
        <5>1. \A u \in Threads : wt[u].pc \in {"level", "tell"} => u = t
          BY <2>0 DEF Exclusive, Delivery
        <5>2. QED
          BY <2>0, <2>3, <4>2, <5>1, SMTT(30) DEF Kept
      <4>3. QED
        BY <4>1, <4>2, SMTT(30)
    <3>3. QED
      BY <2>3, <3>1, <3>2, SMTT(30) DEF Kept
  <2>4. QED
    BY <2>1, <2>2, <2>3, SMTT(30)
<1>11. CASE Open(t)
  BY <1>11, OpenMoves, KeptStill, Zenon DEF WireTypes
<1>12. CASE Look(t)
  BY <1>12, LookMoves, KeptStill, SMTT(30) DEF WireTypes
<1>13. CASE GiveUp(t)
  BY <1>13, GiveUpMoves, KeptStill, SMTT(30) DEF WireTypes
<1>14. CASE DropMark(t)
  BY <1>14, DropMarkMoves, NotGivenUp
<1>15. CASE Leave(t)
  BY <1>15, LeaveMoves, NotGivenUp, Zenon
<1>16. QED
  BY <1>1, <1>2, <1>3, <1>4, <1>5, <1>6, <1>7, <1>8, <1>9, <1>10, <1>11,
     <1>12, <1>13, <1>14, <1>15, SMTT(30) DEF WireStep

-----------------------------------------------------------------------------
\* A resolved net: what the net remembers of the last delivery.
LEMMA RememberedStill ==
  ASSUME Remembered, NEW t \in Threads, Others(t), UNCHANGED <<mode, heard>>,
         last_resolved' \in {last_resolved, RESOLVED_UNKNOWN},
         wt[t].pc # "tell", wt'[t].pc # "tell"
  PROVE  Remembered'
<1>1. \A u \in Threads : wt'[u].pc = "tell" => wt[u].pc = "tell" /\ wt'[u] = wt[u]
  BY DEF Others
<1>2. (\A u \in Threads : wt'[u].pc # "tell") => \A u \in Threads : wt[u].pc # "tell"
  BY DEF Others
<1>3. QED
  BY <1>1, <1>2 DEF Remembered

LEMMA RememberedStep ==
  ASSUME Base, Remembered, NEW t \in Threads,
         (\E s \in Sources, d \in Drives : Drive(t, s, d)) \/ Refresh(t) \/ WireStep(t)
  PROVE  Remembered'
<1> WireTypes /\ Exclusive /\ Ways
  BY SMTT(30) DEF Base
<1>1. ASSUME NEW s \in Sources, NEW d \in Drives, Drive(t, s, d)
      PROVE  Remembered'
  BY <1>1, DriveMoves, RememberedStill, SMTT(30)
<1>2. CASE Refresh(t)
  BY <1>2, RefreshMoves, RememberedStill
<1>3. CASE Mark(t)
  BY <1>3, MarkMoves, RememberedStill, SMTT(30)
<1>4. CASE Announce(t)
  BY <1>4, AnnounceMoves, RememberedStill
<1>5. CASE Claim(t)
  BY <1>5, ClaimMoves, RememberedStill, Zenon
<1>6. CASE Scan(t)
  BY <1>6, ScanMoves, RememberedStill, SMTT(30)
<1>7. CASE ReadLevel(t)
  BY <1>7, ReadLevelMoves, SMTT(30) DEF Ways, Remembered
<1>8. CASE ReadDrive(t)
  BY <1>8, ReadDriveMoves, RememberedStill, SMTT(30)
<1>9. CASE Settle(t)
  <2>1. CASE wt'[t].pc = "open" /\ last_resolved = resolve_drives(wt[t].seen)
    BY <1>9, <2>1, SettleMoves, RememberedStill, SMTT(30)
  <2>2. CASE wt'[t].pc = "tell" /\ wt'[t].level = last_resolved' /\ wt'[t].at = 1
    <3>1. \A u \in Threads : wt'[u].pc = "tell" => u = t
      BY <1>9, SettleMoves DEF Exclusive, Others, Delivery
    <3>2. \A s \in Sources : ~(s < 1)
      BY WireAssumption, SMTT(30) DEF Sources
    <3>3. QED
      BY <2>2, <3>1, <3>2, SMTT(30) DEF Remembered
  <2>3. QED
    BY <1>9, <2>1, <2>2, SettleMoves, SMTT(30) DEF Ways
<1>10. CASE Tell(t)
  <2> SUFFICES ASSUME mode' = "Resolved"
               PROVE  Remembered'
    BY SMTT(30) DEF Remembered
  <2>0. /\ wt[t].pc = "tell" /\ heard \in [Sources -> {0, 1}]
        /\ heard' = [heard EXCEPT ![wt[t].at] = wt[t].level]
    BY <1>10, TellMoves, SMTT(30) DEF WireTypes
  <2>1. mode = "Resolved" /\ last_resolved' = last_resolved
    BY <1>10, TellMoves, SMTT(30)
  <2>2. last_resolved \in {wt[t].level, RESOLVED_UNKNOWN}
    BY <1>10, <2>1, TellMoves, Zenon DEF Remembered
  <2>3. \A s \in Sources : s <= wt[t].at => heard'[s] = wt[t].level
    <3> SUFFICES ASSUME NEW s \in Sources, s <= wt[t].at
                 PROVE  heard'[s] = wt[t].level
      OBVIOUS
    <3>1. CASE s = wt[t].at
      BY <2>0, <3>1, SMTT(30)
    <3>2. CASE s # wt[t].at
      <4>1. s < wt[t].at
        BY <3>2, WireAssumption, SMTT(30) DEF Sources, WireTypes, Standing
      <4>2. QED
        BY <2>0, <2>1, <3>2, <4>1, SMTT(30) DEF Remembered
    <3>3. QED
      BY <3>1, <3>2, SMTT(30)
  <2>4. \A u \in Threads \ {t} : wt'[u].pc # "tell"
    BY <1>10, TellMoves, SMTT(30) DEF Exclusive, Others, Delivery
  <2>5. CASE wt'[t].pc = "tell" /\ wt'[t].level = wt[t].level /\ wt'[t].at = wt[t].at + 1
    <3>1. \A s \in Sources : s < wt[t].at + 1 => s <= wt[t].at
      BY WireAssumption, SMTT(30) DEF Sources, WireTypes, Standing
    <3>2. QED
      BY <2>1, <2>2, <2>3, <2>4, <2>5, <3>1, SMTT(30) DEF Remembered
  <2>6. CASE wt'[t].pc # "tell" /\ wt[t].at = NSources
    <3>1. \A s \in Sources : heard'[s] = wt[t].level
      BY <2>3, <2>6, WireAssumption DEF Sources
    <3>2. QED
      BY <2>1, <2>2, <2>4, <2>6, <3>1, SMTT(30) DEF Remembered
  <2>7. QED
    BY <1>10, <2>1, <2>5, <2>6, TellMoves, SMTT(30)
<1>11. CASE Open(t)
  BY <1>11, OpenMoves, RememberedStill, Zenon
<1>12. CASE Look(t)
  BY <1>12, LookMoves, RememberedStill
<1>13. CASE GiveUp(t)
  BY <1>13, GiveUpMoves, RememberedStill
<1>14. CASE DropMark(t)
  BY <1>14, DropMarkMoves, RememberedStill
<1>15. CASE Leave(t)
  BY <1>15, LeaveMoves, RememberedStill, Zenon
<1>16. QED
  BY <1>1, <1>2, <1>3, <1>4, <1>5, <1>6, <1>7, <1>8, <1>9, <1>10, <1>11,
     <1>12, <1>13, <1>14, <1>15, SMTT(30) DEF WireStep

-----------------------------------------------------------------------------
LEMMA StirredStill ==
  ASSUME AllStirred, NEW t \in Threads, Others(t), wt[t].pc # "mark",
         \A s \in Sources : pending[s] => pending'[s]
  PROVE  NetKept'
  BY DEF AllStirred, Stirred, Others, NetKept

\* While a thread delivers, no other gathers drives.
LEMMA NoneElse ==
  ASSUME Exclusive, NEW t \in Threads, Others(t), wt[t].pc \in Delivery
  PROVE  \A u \in Threads : u # t => wt[u].pc \notin Delivery /\ wt'[u].pc \notin Delivery
  BY DEF Exclusive, Others

LEMMA KnownStill ==
  ASSUME AllKnown, NEW t \in Threads, Others(t), UNCHANGED <<drives, heard>>,
         wt[t].pc \notin {"read", "settle", "tell"},
         wt'[t].pc \notin {"read", "settle", "tell"}
  PROVE  NetKept'
<1>1. Net' = Net /\ DrivesOn(drives)' = DrivesOn(drives)
  BY DEF Net, DrivesOn, resolve_drives
<1>2. Gathered'
  BY <1>1, SMTT(30) DEF AllKnown, Gathered, Others
<1>3. Reading => Reading'
  BY DEF Reading, Others
<1>4. QED
  BY <1>1, <1>2, <1>3 DEF AllKnown, NetKept

LEMMA NetStill ==
  ASSUME NetKept, NEW t \in Threads, Others(t), UNCHANGED <<drives, heard>>,
         \A s \in Sources : pending[s] => pending'[s],
         wt[t].pc \notin {"mark", "scan", "read", "settle", "tell"},
         wt'[t].pc \notin {"read", "settle", "tell"}
  PROVE  NetKept'
<1>1. CASE Moving
  BY <1>1 DEF Moving, Others, NetKept
<1>2. QED
  BY <1>1, StirredStill, KnownStill, SMTT(30) DEF NetKept

LEMMA NetStep ==
  ASSUME Base, Remembered, unsettled = 0, mode = "Resolved", NetKept, NEW t \in Threads,
         (\E s \in Sources, d \in Drives : Drive(t, s, d)) \/ Refresh(t) \/ WireStep(t)
  PROVE  NetKept'
<1> WireTypes /\ Exclusive /\ Ways
  BY SMTT(30) DEF Base
<1>1. ASSUME NEW s \in Sources, NEW d \in Drives, Drive(t, s, d)
      PROVE  NetKept'
  <2>1. CASE wt' = wt /\ drives' = drives
    BY <1>1, <2>1, DriveMoves, NetStill, SMTT(30)
  <2>2. CASE wt'[t].pc = "mark" /\ wt'[t].at = s
    BY <2>2, SMTT(30) DEF NetKept, AllStirred, Stirred
  <2>3. QED
    BY <1>1, <2>1, <2>2, DriveMoves, SMTT(30)
<1>2. CASE Refresh(t)
  BY <1>2, RefreshMoves, NetStill, SMTT(30)
<1>3. CASE Mark(t)
  <2>1. wt[t].at \in Sources /\ pending'[wt[t].at]
    BY <1>3, MarkMoves, SMTT(30) DEF WireTypes, Standing
  <2>2. QED
    BY <2>1, SMTT(30) DEF NetKept, AllStirred, Stirred
<1>4. CASE Announce(t)
  <2>1. wt[t].at \in Sources /\ pending'[wt[t].at]
    BY <1>4, AnnounceMoves, SMTT(30) DEF WireTypes, Standing
  <2>2. QED
    BY <2>1 DEF NetKept, AllStirred, Stirred
<1>5. CASE Claim(t)
  BY <1>5, ClaimMoves, NetStill, Zenon
<1>6. CASE Scan(t)
  <2>0. /\ wt[t].pc = "scan" /\ Others(t) /\ wt[t].seen = {}
        /\ UNCHANGED <<drives, heard>>
    BY <1>6, ScanMoves, SMTT(30) DEF Ways
  <2>1. \A u \in Threads : u # t => wt[u].pc \notin Delivery /\ wt'[u].pc \notin Delivery
    BY <2>0, NoneElse, SMTT(30) DEF Delivery
  <2>2. CASE wt'[t].pc = "scan" /\ (wt[t].moved \/ pending[wt[t].at])
    <3>1. wt'[t].moved
      BY <1>6, <2>2, ScanMoves, Zenon
    <3>2. QED
      BY <2>2, <3>1, SMTT(30) DEF NetKept, Moving
  <2>3. CASE wt'[t].pc = "read" /\ wt'[t].at = 1 /\ wt'[t].seen = wt[t].seen
    <3>1. wt'[t].seen = {drives'[s] : s \in 1 .. 1 - 1}
      BY <2>0, <2>3, SMTT(30)
    <3>2. Gathered'
      BY <2>1, <2>3, <3>1, SMTT(30) DEF Gathered, Delivery
    <3>3. QED
      BY <2>3, <3>2, SMTT(30) DEF NetKept, AllKnown, Reading
  <2>4. CASE ~wt[t].moved /\ ~pending[wt[t].at] /\ wt'[t].pc \in {"scan", "open"}
    <3>1. \A s \in Sources : pending[s] => pending'[s]
      BY <1>6, <2>4, ScanMoves, SMTT(30) DEF WireTypes
    <3>2. ~Moving
      BY <2>1, <2>4, SMTT(30) DEF Moving, Delivery
    <3>3. QED
      BY <2>0, <2>4, <3>1, <3>2, StirredStill, KnownStill, SMTT(30) DEF NetKept
  <2>5. QED
    BY <1>6, <2>2, <2>3, <2>4, ScanMoves, SMTT(30)
<1>7. CASE ReadLevel(t)
  BY <1>7, ReadLevelMoves, SMTT(30) DEF Ways
<1>8. CASE ReadDrive(t)
  <2>0. /\ wt[t].pc = "read" /\ Others(t) /\ UNCHANGED <<drives, heard, pending>>
        /\ wt'[t].seen = wt[t].seen \cup {drives[wt[t].at]}
        /\ wt[t].at \in Sources
    BY <1>8, ReadDriveMoves, Zenon DEF WireTypes, Standing
  <2>a. \/ wt'[t].pc = "read" /\ wt'[t].at = wt[t].at + 1
        \/ wt'[t].pc = "settle" /\ wt[t].at = NSources
    BY <1>8, ReadDriveMoves, Zenon
  <2>1. \A u \in Threads : u # t => wt[u].pc \notin Delivery /\ wt'[u].pc \notin Delivery
    BY <2>0, NoneElse, SMTT(30) DEF Delivery
  <2>2. CASE AllStirred
    BY <2>0, <2>2, StirredStill, SMTT(30)
  <2>3. ~Moving
    BY <2>0, <2>1, SMTT(30) DEF Moving, Delivery
  <2>4. CASE AllKnown
    <3>1. wt'[t].seen = {drives[s] : s \in 1 .. wt[t].at}
      <4>1. 1 .. wt[t].at = (1 .. wt[t].at - 1) \cup {wt[t].at}
        BY <2>0, WireAssumption, SMTT(30) DEF Sources
      <4>2. wt[t].seen = {drives[s] : s \in 1 .. wt[t].at - 1}
        BY <2>0, <2>4, SMTT(30) DEF AllKnown, Gathered
      <4>3. QED
        BY <2>0, <4>1, <4>2, SMTT(30)
    <3>2. CASE wt'[t].pc = "read" /\ wt'[t].at = wt[t].at + 1
      <4>1. wt'[t].at - 1 = wt[t].at
        BY <2>0, <3>2, WireAssumption, SMTT(30) DEF Sources
      <4>2. Gathered'
        BY <2>0, <2>1, <3>1, <3>2, <4>1, SMTT(30) DEF Gathered, Delivery
      <4>3. QED
        BY <3>2, <4>2, SMTT(30) DEF NetKept, AllKnown, Reading
    <3>3. CASE wt'[t].pc = "settle" /\ wt[t].at = NSources
      <4>1. wt'[t].seen = DrivesOn(drives')
        BY <2>0, <3>1, <3>3, SMTT(30) DEF DrivesOn, Sources
      <4>2. Gathered'
        BY <2>1, <3>3, <4>1, SMTT(30) DEF Gathered, Delivery
      <4>3. QED
        BY <3>3, <4>2, SMTT(30) DEF NetKept, AllKnown, Reading
    <3>4. QED
      BY <2>a, <3>2, <3>3, Zenon
  <2>5. QED
    BY <2>2, <2>3, <2>4, SMTT(30) DEF NetKept
<1>9. CASE Settle(t)
  <2>0. /\ wt[t].pc = "settle" /\ Others(t) /\ UNCHANGED <<drives, heard, pending>>
    BY <1>9, SettleMoves, SMTT(30)
  <2>a. \/ wt'[t].pc = "open" /\ last_resolved = resolve_drives(wt[t].seen)
        \/ wt'[t].pc = "tell" /\ wt'[t].level = resolve_drives(wt[t].seen)
    BY <1>9, SettleMoves, Zenon
  <2>1. \A u \in Threads : u # t => wt[u].pc \notin Delivery /\ wt'[u].pc \notin Delivery
    BY <2>0, NoneElse, SMTT(30) DEF Delivery
  <2>2. CASE AllStirred
    BY <2>0, <2>2, StirredStill, SMTT(30)
  <2>3. ~Moving
    BY <2>0, <2>1, SMTT(30) DEF Moving, Delivery
  <2>4. CASE AllKnown
    <3>1. resolve_drives(wt[t].seen) = Net
      BY <2>0, <2>4, SMTT(30) DEF AllKnown, Gathered, Net
    <3>2. Net' = Net
      BY <2>0, SMTT(30) DEF Net, DrivesOn, resolve_drives
    <3>3. CASE wt'[t].pc = "tell" /\ wt'[t].level = Net
      <4>1. Gathered'
        BY <2>1, <3>2, <3>3, SMTT(30) DEF Gathered, Delivery
      <4>2. QED
        BY <3>3, <4>1, SMTT(30) DEF NetKept, AllKnown, Reading
    <3>4. CASE wt'[t].pc = "open" /\ last_resolved = Net
      <4>1. Gathered'
        BY <2>1, <3>4 DEF Gathered, Delivery
      <4>2. last_resolved # RESOLVED_UNKNOWN
        BY <3>4, SMTT(30) DEF Net, resolve_drives, RESOLVED_UNKNOWN
      <4>3. \A u \in Threads : wt[u].pc # "tell"
        BY <2>0, <2>1, SMTT(30) DEF Delivery
      <4>4. \A s \in Sources : heard[s] = Net
        BY <3>4, <4>2, <4>3, SMTT(30) DEF Remembered
      <4>5. QED
        BY <2>0, <3>2, <4>1, <4>4, SMTT(30) DEF NetKept, AllKnown
    <3>5. QED
      BY <2>a, <3>1, <3>3, <3>4, Zenon
  <2>5. QED
    BY <2>2, <2>3, <2>4 DEF NetKept
<1>10. CASE Tell(t)
  <2>0. /\ wt[t].pc = "tell" /\ Others(t) /\ wt[t].at \in Sources
        /\ drives \in [Sources -> Drives] /\ drives' \in [Sources -> Drives]
        /\ heard \in [Sources -> {0, 1}]
        /\ heard' = [heard EXCEPT ![wt[t].at] = wt[t].level]
    BY <1>10, TellMoves, Zenon DEF WireTypes, Standing
  <2>a. \/ wt'[t].pc = "tell" /\ wt'[t].level = wt[t].level
        \/ wt'[t].pc \in {"open", "scan", "giveup"} /\ wt[t].at = NSources
    <3>1. mode # "PerSink"
      OBVIOUS
    <3>2. QED
      BY <1>10, <3>1, TellMoves, Zenon
  <2>1. \A u \in Threads : u # t => wt[u].pc \notin Delivery /\ wt'[u].pc \notin Delivery
    BY <2>0, NoneElse, Zenon DEF Delivery
  <2>2. CASE \E i \in Sources : drives'[i] # drives[i]
    BY <1>10, <2>2, TellMoves, SMTT(30) DEF NetKept, AllStirred, Stirred
  <2>3. CASE AllStirred
    BY <1>10, <2>0, <2>3, TellMoves, StirredStill, SMTT(30)
  <2>4. ~Moving
    BY <2>0, <2>1, SMTT(30) DEF Moving, Delivery
  <2>5. CASE AllKnown /\ \A i \in Sources : drives'[i] = drives[i]
    <3>1. drives' = drives
      BY <2>0, <2>5, SMTT(30)
    <3>2. Net' = Net
      BY <3>1, SMTT(30) DEF Net, DrivesOn, resolve_drives
    <3>3. wt[t].level = Net
      BY <2>0, <2>5, SMTT(30) DEF AllKnown, Gathered
    <3>4. CASE wt'[t].pc = "tell" /\ wt'[t].level = wt[t].level
      <4>1. Gathered'
        BY <2>1, <3>2, <3>3, <3>4, SMTT(30) DEF Gathered, Delivery
      <4>2. QED
        BY <3>4, <4>1, SMTT(30) DEF NetKept, AllKnown, Reading
    <3>5. CASE wt'[t].pc \in {"open", "scan", "giveup"} /\ wt[t].at = NSources
      <4>1. Gathered'
        BY <2>1, <3>5 DEF Gathered, Delivery
      <4>2. ASSUME NEW s \in Sources
            PROVE  heard'[s] = Net
        <5>1. CASE s = NSources
          BY <2>0, <3>3, <3>5, <5>1, SMTT(30)
        <5>2. CASE s # NSources
          <6>1. s < wt[t].at
            BY <3>5, <5>2, WireAssumption, SMTT(30) DEF Sources
          <6>2. heard[s] = wt[t].level
            BY <2>0, <6>1, SMTT(30) DEF Remembered
          <6>3. QED
            BY <2>0, <3>3, <3>5, <5>2, <6>2, SMTT(30)
        <5>3. QED
          BY <5>1, <5>2, SMTT(30)
      <4>3. QED
        BY <3>2, <4>1, <4>2, SMTT(30) DEF NetKept, AllKnown
    <3>6. QED
      BY <2>a, <3>4, <3>5, Zenon
  <2>6. QED
    BY <2>2, <2>3, <2>4, <2>5, SMTT(30) DEF NetKept
<1>11. CASE Open(t)
  BY <1>11, OpenMoves, NetStill, Zenon
<1>12. CASE Look(t)
  BY <1>12, LookMoves, NetStill, SMTT(30)
<1>13. CASE GiveUp(t)
  BY <1>13, GiveUpMoves, NetStill, SMTT(30)
<1>14. CASE DropMark(t)
  BY <1>14, DropMarkMoves, NotGivenUp
<1>15. CASE Leave(t)
  BY <1>15, LeaveMoves, NotGivenUp, Zenon
<1>16. QED
  BY <1>1, <1>2, <1>3, <1>4, <1>5, <1>6, <1>7, <1>8, <1>9, <1>10, <1>11,
     <1>12, <1>13, <1>14, <1>15, SMTT(30) DEF WireStep

-----------------------------------------------------------------------------
LEMMA WireInitInv == WireInit => WireInv
<1> SUFFICES ASSUME WireInit
             PROVE  WireInv
  OBVIOUS
<1>1. \A s \in Sources : Due(drives, s) \in {0, 1}
  BY SMTT(30) DEF Due, code_is_high, resolve_drives
<1>2. \A t \in Threads : wt[t].pc = "out"
  BY DEF WireInit, Outside
<1>3. WireTypes
  BY <1>1, OutsideStands, WireAssumption, Zenon DEF WireInit, WireTypes
<1>4. Exclusive /\ Ways
  BY <1>2 DEF WireInit, Exclusive, Ways, Delivery
<1>5. Remembered
  BY <1>2, OutsideStands, SMTT(30) DEF WireInit, Remembered, Due
<1>6. MarksSeen
  BY SMTT(30) DEF WireInit, MarksSeen
<1>7. mode = "PerSink" => \A s \in Sources : Kept(s)
  BY <1>2, SMTT(30) DEF WireInit, Kept, Due
<1>8. mode = "Resolved" => NetKept
  BY <1>2 DEF WireInit, NetKept, AllKnown, Gathered, Net, Due
<1>9. QED
  BY <1>3, <1>4, <1>5, <1>6, <1>7, <1>8 DEF WireInv, Base, NothingLost

LEMMA WireStepInv == WireInv /\ [WireNext]_wireVars => WireInv'
<1> SUFFICES ASSUME WireInv, [WireNext]_wireVars
             PROVE  WireInv'
  OBVIOUS
<1>1. CASE UNCHANGED wireVars
  <2> USE <1>1 DEF wireVars
  <2>1. Base'
    BY SMTT(30) DEF WireInv, Base, WireTypes, Exclusive, Ways
  <2>2. Remembered'
    BY SMTT(30) DEF WireInv, Remembered
  <2>3. MarksSeen => MarksSeen'
    BY SMTT(30) DEF MarksSeen, Comes
  <2>4. \A s \in Sources : Kept(s) => Kept(s)'
    BY SMTT(30) DEF Kept, Stirred, code_is_high
  <2>5. NetKept => NetKept'
    <3>1. Net' = Net
      BY SMTT(30) DEF Net, DrivesOn, resolve_drives
    <3>2. AllKnown => AllKnown'
      BY <3>1 DEF AllKnown, Gathered, Reading, DrivesOn
    <3>3. QED
      BY <3>2, SMTT(30) DEF NetKept, AllStirred, Stirred, Moving
  <2>6. QED
    BY <2>1, <2>2, <2>3, <2>4, <2>5, SMTT(30) DEF WireInv, NothingLost
<1>2. CASE WireNext
  <2>1. PICK t \in Threads :
          (\E s \in Sources, d \in Drives : Drive(t, s, d)) \/ Refresh(t) \/ WireStep(t)
    BY <1>2 DEF WireNext
  <2>2. Base'
    BY <2>1, TypesStep, ExclusiveStep, WaysStep DEF WireInv, Base
  <2>3. Remembered'
    BY <2>1, RememberedStep, SMTT(30) DEF WireInv
  <2>4. unsettled' = 0 => unsettled = 0 /\ mode' = mode
    <3>1. WireTypes
      BY SMTT(30) DEF WireInv, Base
    <3>2. UNCHANGED mode /\ unsettled' \in {unsettled, unsettled + 1}
      BY <2>1, Zenon DEF WireStep, Drive, Refresh, Mark, Announce, Claim, Scan, ReadLevel, ReadDrive,
                  Settle, Tell, Open, Look, GiveUp, DropMark, Leave
    <3>3. QED
      BY <3>1, <3>2 DEF WireTypes
  <2>5. unsettled' = 0 => NothingLost'
    BY <2>1, <2>4, MarksStep, PerSinkStep, NetStep DEF WireInv, NothingLost
  <2>6. QED
    BY <2>2, <2>3, <2>5 DEF WireInv
<1>3. QED
  BY <1>1, <1>2

\* The strengthening is an invariant of every call on the net.
LEMMA WireInvariant == WireSpec => []WireInv
  BY WireInitInv, WireStepInv, PTL DEF WireSpec

\* set's promise: once every call has returned, the sinks have been told what
\* the drives now say, whatever the interleaving of the calls, unless a delivery
\* has given up at the settle limit.
THEOREM SettledAlways == WireSpec => []Settled
<1>1. WireInv => Settled
  <2> SUFFICES ASSUME WireInv, Idle, unsettled = 0, NEW s \in Sources
               PROVE  heard[s] = Due(drives, s)
    BY DEF Settled
  <2>1. NothingLost /\ WireTypes
    BY DEF WireInv, Base
  <2>2. \A i \in Sources : ~Stirred(i)
    BY <2>1, SMTT(30) DEF Idle, NothingLost, MarksSeen, Comes, Stirred, Delivery
  <2>3. CASE mode = "PerSink"
    BY <2>1, <2>2, <2>3, SMTT(30) DEF Idle, NothingLost, Kept, Due
  <2>4. CASE mode = "Resolved"
    BY <2>1, <2>2, <2>4
       DEF Idle, NothingLost, NetKept, AllStirred, Moving, AllKnown, Reading, Due, Net
  <2>5. QED
    BY <2>1, <2>3, <2>4, TwoModes
<1>2. QED
  BY <1>1, WireInvariant, PTL

\* deliver's flag: at most one thread is between the swap that raises it and
\* the store that lowers it, however many threads call and whatever the sinks do
\* in answer.
THEOREM OneDelivererAlways == WireSpec => []OneDeliverer
<1>1. WireInv => OneDeliverer
  <2> SUFFICES ASSUME WireInv
               PROVE  Cardinality({t \in Threads : wt[t].pc \in Delivery}) <= 1
    BY DEF WireInv, Base, Exclusive, OneDeliverer
  <2>1. CASE \A t \in Threads : wt[t].pc \notin Delivery
    <3>1. {t \in Threads : wt[t].pc \in Delivery} = {}
      BY <2>1, SMTT(30)
    <3>2. QED
      BY <3>1, FS_EmptySet, SMTT(30)
  <2>2. CASE \E t \in Threads : wt[t].pc \in Delivery
    <3>1. PICK u \in Threads : wt[u].pc \in Delivery
      BY <2>2, SMTT(30)
    <3>2. {t \in Threads : wt[t].pc \in Delivery} = {u}
      BY <3>1, SMTT(30) DEF WireInv, Base, Exclusive
    <3>3. Cardinality({u}) = 1
      BY FS_Singleton, SMTT(30)
    <3>4. QED
      BY <3>2, <3>3, SMTT(30)
  <2>3. QED
    BY <2>1, <2>2, SMTT(30)
<1>2. QED
  BY <1>1, WireInvariant, PTL

=============================================================================
