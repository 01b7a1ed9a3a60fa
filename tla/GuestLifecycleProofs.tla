------------------------ MODULE GuestLifecycleProofs ------------------------
(***************************************************************************)
(* Proofs about the life cycle of a guest, for any number of OTA jobs,     *)
(* commands, processes and faults.                                         *)
(***************************************************************************)
EXTENDS GuestLifecycle, TLAPS

JobStep(j) == \/ CmdJob(j) \/ JobPullFails(j) \/ JobKill(j) \/ JobLeave(j)
              \/ JobRestart(j) \/ CmdAddFile(j) \/ AddFileEnds(j)

Refreshers == {"main", "mqtt"}
Workers == Threads \ {"main"}

RowT == [named : BOOLEAN, state : {"running", "stopped"}, pid : Pids]
LocT == [pid : Pids, key : {"pid", "ip"}, snap : Meta]

Types == /\ row \in RowT
         /\ meta \in Meta
         /\ forked \in 0 .. MaxQvm /\ alive \subseteq 1 .. forked
         /\ doomed \subseteq alive
         /\ pc \in [Threads -> Steps]
         /\ pc["main"] \in {"idle"} \cup RefreshSteps
         /\ pc["mqtt"] \in {"idle"} \cup RefreshSteps \cup OpSteps
         /\ \A j \in Jobs : pc[j] \in {"idle", "pull", "copy", "add"} \cup OpSteps
         /\ loc \in [Threads -> LocT]
         /\ serving \in BOOLEAN /\ up \in BOOLEAN

(* Commands and jobs wait for the first refresh of main.                   *)
ServingInv == /\ ~up => ~serving /\ pc["main"] = "idle"
              /\ ~serving => \A t \in Workers : pc[t] = "idle"

(* The row has its names, or is about to get them. *)
NamedInv == up => \/ row.named
                  \/ \E t \in Refreshers : pc[t] = "fill"
                  \/ pc["main"] = "clear" /\ ~serving

BaseInv == Types /\ ServingInv /\ NamedInv

(* Without overlap, a thread inside a start or a kill is alone with the    *)
(* row and the file: what it has checked and read is still true.           *)
Solo == \A t \in Workers, u \in Threads :
          t # u /\ InOp(t) => ~InOp(u) /\ ~InRefresh(u) /\ pc[u] # "copy"
OneCopy == \A t, u \in Jobs : pc[t] = "copy" /\ pc[u] = "copy" => t = u
Unmoved == \A t \in Workers : /\ pc[t] = "send" => row.state = "running" /\ row.pid > 0
                              /\ pc[t] = "metaWrite" => loc[t].snap = meta

SoloInv == /\ "overlap" \notin excuse => Solo /\ OneCopy /\ Unmoved
           /\ OwnGroupByOverlap

(* The row does not hide a process that runs. *)
Good == /\ row.named
        /\ row.state # "running" => Live = {}
        /\ row.pid > 0 => Live \subseteq {row.pid}

Recorded == Live \subseteq {meta.pid}

Idle == \A t \in Workers : ~InOp(t)
NoRefresh == \A t \in Refreshers : ~InRefresh(t)

(* What a thread inside a start or a kill knows. *)
OpInv(t) ==
  /\ pc[t] \in {"start", "kill"} => Good /\ Recorded
  /\ pc[t] = "fork" => row.named /\ Live = {}
  /\ pc[t] \in {"metaRead", "metaWrite"} =>
       IF loc[t].key = "ip" THEN Good /\ Recorded ELSE row.named /\ Live \subseteq {loc[t].pid}
  /\ pc[t] = "settle" => row.named /\ Live \subseteq {loc[t].pid} /\ meta.pid = loc[t].pid
  /\ pc[t] = "send" => row.named /\ Live \subseteq {row.pid} /\ Recorded

(* A rebuild has lost sight of the process in the file: another one        *)
(* cleared the row under it, and that one will find it or has found it.    *)
(* It has no number then, not an old one: a process that was sent SIGKILL  *)
(* does not come back into the row.                                        *)
Stale(t)   == pc[t] = "verify" /\ loc[t].pid # meta.pid
Current(t) == pc[t] \in {"fill", "reset"} \/ (pc[t] = "verify" /\ loc[t].pid = meta.pid)
RefreshInv == \A t \in Refreshers : Stale(t) =>
                /\ loc[t].pid = 0
                /\ \A u \in Refreshers : t # u => Good \/ Current(u)

TruthInv == excuse = {} =>
  /\ Idle => Recorded
  /\ up /\ Idle /\ NoRefresh => Good
  /\ \A t \in Workers : OpInv(t)
  /\ up => RefreshInv
  /\ \A j \in Jobs : pc[j] = "copy" => Live = {}

GuestInv == BaseInv /\ SoloInv /\ TruthInv
-----------------------------------------------------------------------------
LEMMA PidsTyped == /\ 0 \in Pids /\ MaxQvm \in Nat /\ Pids = 0 .. MaxQvm
  BY BoundsAssumption DEF Pids

LEMMA LocTyped ==
  /\ NoLoc \in LocT /\ NoLoc.snap \in Meta
  /\ \A l \in LocT : /\ \A p \in Pids : [l EXCEPT !.pid = p] \in LocT
                     /\ \A p \in Pids, k \in {"pid", "ip"} : [l EXCEPT !.pid = p, !.key = k] \in LocT
                     /\ \A k \in {"pid", "ip"} : [l EXCEPT !.key = k] \in LocT
                     /\ \A m \in Meta : [l EXCEPT !.snap = m] \in LocT
  <1>1. NoLoc \in LocT /\ NoLoc.snap \in Meta
    BY PidsTyped DEF NoLoc, Meta, LocT
  <1> QED
    BY <1>1 DEF LocT

LEMMA StartReturns ==
  ASSUME Types, NEW t \in Workers, NEW ok, StartReturn(t, ok)
  PROVE  /\ row' \in RowT /\ row'.named = row.named
         /\ t \in Jobs /\ ok => row'.state = "running" /\ row'.pid = 0
         /\ ~(t \in Jobs /\ ok) => row' = row
         /\ pc' = [pc EXCEPT ![t] = IF t \in Jobs THEN "idle" ELSE "clear"]
  BY PidsTyped DEF StartReturn, Goto, Types, RowT

LEMMA KillReturns ==
  ASSUME Types, NEW t \in Workers, KillReturn(t)
  PROVE  /\ row' \in RowT /\ row'.named = row.named
         /\ t \in Jobs => row'.state = "stopped" /\ row'.pid = 0
         /\ t \notin Jobs => row' = row
         /\ pc' = [pc EXCEPT ![t] = IF t \in Jobs THEN "copy" ELSE "clear"]
  BY PidsTyped DEF KillReturn, Goto, Types, RowT

-----------------------------------------------------------------------------
(* The types, and what main prepares for the others. *)
LEMMA BaseInvRefresh ==
  ASSUME BaseInv, NEW t \in Refreshers, Refresh(t)
  PROVE  BaseInv'
  <1> USE JobsAssumption, PidsTyped
      DEF At, Goto, counters, BaseInv, Types, ServingInv, NamedInv, Threads, Workers, Refreshers,
          Steps, RefreshSteps, OpSteps
  <1>1. CASE Clear(t)
    <2>1. row' \in RowT
      BY <1>1 DEF Clear, Cleared, RowT
    <2> QED
      BY <1>1, <2>1 DEF Clear
  <1>2. CASE Fill(t)
    <2>1. row' \in RowT /\ row'.named
      BY <1>2 DEF Fill, RowT, Meta
    <2> QED
      BY <1>2, <2>1 DEF Fill
  <1>3. CASE Reset(t)
    <2>1. row' \in RowT /\ row'.named = row.named
      BY <1>3 DEF Reset, RowT
    <2>2. loc' \in [Threads -> LocT]
      BY <1>3, LocTyped DEF Reset, RowT, Meta
    <2> QED
      BY <1>3, <2>1, <2>2 DEF Reset
  <1>4. CASE Verify(t)
    <2>1. row' \in RowT /\ row'.named = row.named
      BY <1>4 DEF Verify, RowT, LocT
    <2>2. loc' \in [Threads -> LocT]
      BY <1>4, LocTyped DEF Verify
    <2> QED
      BY <1>4, <2>1, <2>2 DEF Verify
  <1> QED
    BY <1>1, <1>2, <1>3, <1>4 DEF Refresh

(* One step of guest_start, guest_stop or guest_kill, for any caller.      *)
LEMMA BaseInvOp ==
  ASSUME BaseInv, NEW t \in Workers, Op(t)
  PROVE  BaseInv'
  <1> USE JobsAssumption, PidsTyped
      DEF At, Goto, counters, BaseInv, Types, ServingInv, NamedInv, Threads, Workers, Refreshers,
          Steps, RefreshSteps, OpSteps
  <1>1. CASE StartCheck(t)
    <2>1. row' \in RowT /\ row'.named = row.named
      BY <1>1, StartReturns DEF StartCheck
    <2>2. loc' \in [Threads -> LocT]
      BY <1>1, LocTyped DEF StartCheck
    <2>3. /\ pc' = [pc EXCEPT ![t] = pc'[t]] /\ pc'[t] \in OpSteps \cup {"clear", "copy", "idle"}
          /\ t \notin Jobs => pc'[t] \in OpSteps \cup {"clear"}
          /\ t \in Jobs => pc'[t] # "clear"
      BY <1>1, StartReturns DEF StartCheck
    <2> QED
      BY <1>1, <2>1, <2>2, <2>3 DEF StartCheck
  <1>2. CASE ForkFails(t)
    <2>1. row' \in RowT /\ row'.named = row.named
      BY <1>2, StartReturns DEF ForkFails
    <2>2. loc' \in [Threads -> LocT]
      BY <1>2, LocTyped DEF ForkFails
    <2>3. /\ pc' = [pc EXCEPT ![t] = pc'[t]] /\ pc'[t] \in OpSteps \cup {"clear", "copy", "idle"}
          /\ t \notin Jobs => pc'[t] \in OpSteps \cup {"clear"}
          /\ t \in Jobs => pc'[t] # "clear"
      BY <1>2, StartReturns DEF ForkFails
    <2> QED
      BY <1>2, <2>1, <2>2, <2>3 DEF ForkFails
  <1>3. CASE Fork(t)
    <2>1. forked + 1 \in Pids
      BY <1>3 DEF Fork
    <2>2. loc' \in [Threads -> LocT]
      BY <1>3, <2>1, LocTyped DEF Fork
    <2> QED
      BY <1>3, <2>2 DEF Fork
  <1>4. CASE Settle(t)
    <2>1. row' \in RowT /\ row'.named = row.named
      BY <1>4, StartReturns DEF Settle
    <2>2. loc' \in [Threads -> LocT]
      BY <1>4, LocTyped DEF Settle
    <2>3. /\ pc' = [pc EXCEPT ![t] = pc'[t]] /\ pc'[t] \in OpSteps \cup {"clear", "copy", "idle"}
          /\ t \notin Jobs => pc'[t] \in OpSteps \cup {"clear"}
          /\ t \in Jobs => pc'[t] # "clear"
      BY <1>4, StartReturns DEF Settle
    <2> QED
      BY <1>4, <2>1, <2>2, <2>3 DEF Settle
  <1>5. CASE KillCheck(t)
    <2>1. row' \in RowT /\ row'.named = row.named
      BY <1>5, KillReturns DEF KillCheck
    <2>2. loc' \in [Threads -> LocT]
      BY <1>5, LocTyped DEF KillCheck
    <2>3. /\ pc' = [pc EXCEPT ![t] = pc'[t]] /\ pc'[t] \in OpSteps \cup {"clear", "copy", "idle"}
          /\ t \notin Jobs => pc'[t] \in OpSteps \cup {"clear"}
          /\ t \in Jobs => pc'[t] # "clear"
      BY <1>5, KillReturns DEF KillCheck
    <2> QED
      BY <1>5, <2>1, <2>2, <2>3 DEF KillCheck
  <1>6. CASE KillSend(t)
    <2>1. row' \in RowT /\ row'.named = row.named
      BY <1>6, KillReturns DEF KillSend
    <2>2. loc' \in [Threads -> LocT]
      <3>1. [loc EXCEPT ![t].pid = 0, ![t].key = "pid"] \in [Threads -> LocT]
        BY LocTyped
      <3> QED
        BY <1>6, <3>1 DEF KillSend
    <2>3. /\ pc' = [pc EXCEPT ![t] = pc'[t]] /\ pc'[t] \in OpSteps \cup {"clear", "copy", "idle"}
          /\ t \notin Jobs => pc'[t] \in OpSteps \cup {"clear"}
          /\ t \in Jobs => pc'[t] # "clear"
      BY <1>6, KillReturns DEF KillSend
    <2> QED
      BY <1>6, <2>1, <2>2, <2>3 DEF KillSend
  <1>7. CASE KillOwnGroup(t)
    <2>1. row' \in RowT /\ loc' \in [Threads -> LocT]
      BY <1>7, LocTyped DEF KillOwnGroup, Stop, RowT, Cleared
    <2> QED
      BY <1>7, <2>1 DEF KillOwnGroup, Stop
  <1>8. CASE MetaRead(t)
    <2>1. row' \in RowT /\ row'.named = row.named
      BY <1>8, KillReturns DEF MetaRead, Written
    <2>2. loc' \in [Threads -> LocT]
      BY <1>8, LocTyped DEF MetaRead, Written
    <2>3. /\ pc' = [pc EXCEPT ![t] = pc'[t]] /\ pc'[t] \in OpSteps \cup {"clear", "copy", "idle"}
          /\ t \notin Jobs => pc'[t] \in OpSteps \cup {"clear"}
          /\ t \in Jobs => pc'[t] # "clear"
      BY <1>8, KillReturns DEF MetaRead, Written
    <2> QED
      BY <1>8, <2>1, <2>2, <2>3 DEF MetaRead, Written
  <1>9. CASE MetaWrite(t)
    <2>1. row' \in RowT /\ row'.named = row.named
      BY <1>9, KillReturns DEF MetaWrite, Written
    <2>2. loc' \in [Threads -> LocT]
      BY <1>9, LocTyped DEF MetaWrite, Written
    <2>3. /\ pc' = [pc EXCEPT ![t] = pc'[t]] /\ pc'[t] \in OpSteps \cup {"clear", "copy", "idle"}
          /\ t \notin Jobs => pc'[t] \in OpSteps \cup {"clear"}
          /\ t \in Jobs => pc'[t] # "clear"
      BY <1>9, KillReturns DEF MetaWrite, Written
    <2>4. meta' \in Meta
      BY <1>9 DEF MetaWrite, Edited, LocT, Meta
    <2> QED
      BY <1>9, <2>1, <2>2, <2>3, <2>4 DEF MetaWrite, Written
  <1>10. CASE MetaFails(t)
    <2>1. row' \in RowT /\ row'.named = row.named
      BY <1>10, KillReturns DEF MetaFails, Written
    <2>2. loc' \in [Threads -> LocT]
      BY <1>10, LocTyped DEF MetaFails, Written
    <2>3. /\ pc' = [pc EXCEPT ![t] = pc'[t]] /\ pc'[t] \in OpSteps \cup {"clear", "copy", "idle"}
          /\ t \notin Jobs => pc'[t] \in OpSteps \cup {"clear"}
          /\ t \in Jobs => pc'[t] # "clear"
      BY <1>10, KillReturns DEF MetaFails, Written
    <2> QED
      BY <1>10, <2>1, <2>2, <2>3 DEF MetaFails, Written
  <1>11. CASE MetaTruncated(t)
    <2>1. row' \in RowT /\ row'.named = row.named
      BY <1>11, KillReturns DEF MetaTruncated, Written
    <2>2. loc' \in [Threads -> LocT]
      BY <1>11, LocTyped DEF MetaTruncated, Written
    <2>3. /\ pc' = [pc EXCEPT ![t] = pc'[t]] /\ pc'[t] \in OpSteps \cup {"clear", "copy", "idle"}
          /\ t \notin Jobs => pc'[t] \in OpSteps \cup {"clear"}
          /\ t \in Jobs => pc'[t] # "clear"
      BY <1>11, KillReturns DEF MetaTruncated, Written
    <2>4. meta' \in Meta
      BY <1>11 DEF MetaTruncated
    <2> QED
      BY <1>11, <2>1, <2>2, <2>3, <2>4 DEF MetaTruncated, Written
  <1> QED
    BY <1>1, <1>2, <1>3, <1>4, <1>5, <1>6, <1>7, <1>8, <1>9, <1>10, <1>11 DEF Op

(* The commands of the MQTT thread.                                        *)
LEMMA BaseInvCommand ==
  ASSUME BaseInv, MainRefresh \/ CmdUnknown \/ CmdKill \/ CmdRefresh \/ \E ip \in BOOLEAN : CmdStart(ip)
  PROVE  BaseInv'
  <1> USE JobsAssumption, PidsTyped
      DEF At, Goto, counters, BaseInv, Types, ServingInv, NamedInv, Threads, Workers, Refreshers,
          Steps, RefreshSteps, OpSteps
  <1>1. CASE MainRefresh
    BY <1>1 DEF MainRefresh, NoteRefresh
  <1>2. CASE CmdUnknown
    BY <1>2 DEF CmdUnknown, Command
  <1>3. CASE CmdKill
    BY <1>3 DEF CmdKill, Command, NoteOp
  <1>4. CASE CmdRefresh
    BY <1>4 DEF CmdRefresh, Command, NoteRefresh
  <1>5. CASE \E ip \in BOOLEAN : CmdStart(ip)
    <2>1. loc' \in [Threads -> LocT]
      <3>1. [loc EXCEPT !["mqtt"].key = "ip"] \in [Threads -> LocT]
        BY LocTyped
      <3> QED
        BY <1>5, <3>1 DEF CmdStart
    <2> QED
      BY <1>5, <2>1 DEF CmdStart, Command
  <1> QED
    BY <1>1, <1>2, <1>3, <1>4, <1>5

(* The steps of the update thread, ota_apply_thread.                       *)
LEMMA BaseInvJob ==
  ASSUME BaseInv, NEW j \in Jobs, JobStep(j)
  PROVE  BaseInv'
  <1> USE JobsAssumption, PidsTyped
      DEF At, Goto, counters, BaseInv, Types, ServingInv, NamedInv, Threads, Workers, Refreshers,
          Steps, RefreshSteps, OpSteps
  <1>1. CASE CmdJob(j)
    BY <1>1 DEF CmdJob, Command
  <1>2. CASE JobPullFails(j)
    BY <1>2 DEF JobPullFails
  <1>3. CASE JobKill(j)
    BY <1>3 DEF JobKill, NoteOp
  <1>4. CASE JobLeave(j)
    BY <1>4 DEF JobLeave
  <1>5. CASE JobRestart(j)
    BY <1>5 DEF JobRestart, NoteOp
  <1>6. CASE CmdAddFile(j)
    BY <1>6 DEF CmdAddFile, Command
  <1>7. CASE AddFileEnds(j)
    BY <1>7 DEF AddFileEnds
  <1> QED
    BY <1>1, <1>2, <1>3, <1>4, <1>5, <1>6, <1>7 DEF JobStep

(* A qvm exits, or the service crashes or starts again.                    *)
LEMMA BaseInvWorld ==
  ASSUME BaseInv, (\E p \in Live : QvmExit(p)) \/ (\E p \in doomed : QvmDies(p)) \/ Crash \/ Restart \/ UNCHANGED vars
  PROVE  BaseInv'
  <1> USE JobsAssumption, PidsTyped
      DEF At, Goto, counters, BaseInv, Types, ServingInv, NamedInv, Threads, Workers, Refreshers,
          Steps, RefreshSteps, OpSteps
  <1>1. CASE \E p \in Live : QvmExit(p)
    BY <1>1 DEF QvmExit, Live
  <1>0. CASE \E p \in doomed : QvmDies(p)
    BY <1>0 DEF QvmDies, Live
  <1>2. CASE Crash
    <2>1. row' \in RowT /\ loc' \in [Threads -> LocT]
      BY <1>2, LocTyped DEF Crash, Stop, RowT, Cleared
    <2> QED
      BY <1>2, <2>1 DEF Crash, Stop
  <1>3. CASE Restart
    BY <1>3 DEF Restart
  <1>4. CASE UNCHANGED vars
    BY <1>4 DEF vars
  <1> QED
    BY <1>0, <1>1, <1>2, <1>3, <1>4

-----------------------------------------------------------------------------
(* Starts and kills that do not overlap. *)
LEMMA SoloInvRefresh ==
  ASSUME BaseInv, SoloInv, NEW t \in Refreshers, Refresh(t)
  PROVE  SoloInv'
  <1> USE JobsAssumption, PidsTyped
      DEF At, Goto, counters, SoloInv, Solo, OneCopy, Unmoved, OwnGroupByOverlap, InOp, InRefresh,
          BaseInv, Types, ServingInv, Threads, Workers, Refreshers, Steps, RefreshSteps, OpSteps
  <1>1. CASE Clear(t)
    BY <1>1 DEF Clear
  <1>2. CASE Fill(t)
    BY <1>2 DEF Fill
  <1>3. CASE Reset(t)
    BY <1>3 DEF Reset
  <1>4. CASE Verify(t)
    BY <1>4 DEF Verify
  <1> QED
    BY <1>1, <1>2, <1>3, <1>4 DEF Refresh

LEMMA SoloInvOp ==
  ASSUME BaseInv, SoloInv, NEW t \in Workers, Op(t)
  PROVE  SoloInv'
  <1> USE JobsAssumption, PidsTyped
      DEF At, Goto, counters, SoloInv, Solo, OneCopy, Unmoved, OwnGroupByOverlap, InOp, InRefresh,
          BaseInv, Types, ServingInv, Threads, Workers, Refreshers, Steps, RefreshSteps, OpSteps
  <1>1. CASE StartCheck(t)
    BY <1>1 DEF StartCheck, StartReturn
  <1>2. CASE ForkFails(t)
    BY <1>2 DEF ForkFails, StartReturn
  <1>3. CASE Fork(t)
    BY <1>3 DEF Fork
  <1>4. CASE Settle(t)
    BY <1>4 DEF Settle, StartReturn
  <1>5. CASE KillCheck(t)
    BY <1>5 DEF KillCheck, KillReturn
  <1>6. CASE KillSend(t)
    BY <1>6 DEF KillSend, KillReturn
  <1>7. CASE KillOwnGroup(t)
    BY <1>7 DEF KillOwnGroup, Stop
  <1>8. CASE MetaRead(t)
    BY <1>8 DEF MetaRead, Written, KillReturn
  <1>9. CASE MetaWrite(t)
    BY <1>9 DEF MetaWrite, Written, KillReturn
  <1>10. CASE MetaFails(t)
    BY <1>10 DEF MetaFails, Written, KillReturn
  <1>11. CASE MetaTruncated(t)
    BY <1>11 DEF MetaTruncated, Written, KillReturn
  <1> QED
    BY <1>1, <1>2, <1>3, <1>4, <1>5, <1>6, <1>7, <1>8, <1>9, <1>10, <1>11 DEF Op

LEMMA SoloInvCommand ==
  ASSUME BaseInv, SoloInv, MainRefresh \/ CmdUnknown \/ CmdKill \/ CmdRefresh \/ \E ip \in BOOLEAN : CmdStart(ip)
  PROVE  SoloInv'
  <1> USE JobsAssumption, PidsTyped
      DEF At, Goto, counters, SoloInv, Solo, OneCopy, Unmoved, OwnGroupByOverlap, InOp, InRefresh,
          BaseInv, Types, ServingInv, Threads, Workers, Refreshers, Steps, RefreshSteps, OpSteps
  <1>1. CASE MainRefresh
    BY <1>1 DEF MainRefresh, NoteRefresh
  <1>2. CASE CmdUnknown
    BY <1>2 DEF CmdUnknown, Command
  <1>3. CASE CmdKill
    BY <1>3 DEF CmdKill, Command, NoteOp
  <1>4. CASE CmdRefresh
    BY <1>4 DEF CmdRefresh, Command, NoteRefresh
  <1>5. CASE \E ip \in BOOLEAN : CmdStart(ip)
    BY <1>5 DEF CmdStart, Command, NoteOp
  <1> QED
    BY <1>1, <1>2, <1>3, <1>4, <1>5

LEMMA SoloInvJob ==
  ASSUME BaseInv, SoloInv, NEW j \in Jobs, JobStep(j)
  PROVE  SoloInv'
  <1> USE JobsAssumption, PidsTyped
      DEF At, Goto, counters, SoloInv, Solo, OneCopy, Unmoved, OwnGroupByOverlap, InOp, InRefresh,
          BaseInv, Types, ServingInv, Threads, Workers, Refreshers, Steps, RefreshSteps, OpSteps
  <1>1. CASE CmdJob(j)
    BY <1>1 DEF CmdJob, Command
  <1>2. CASE JobPullFails(j)
    BY <1>2 DEF JobPullFails
  <1>3. CASE JobKill(j)
    BY <1>3 DEF JobKill, NoteOp
  <1>4. CASE JobLeave(j)
    BY <1>4 DEF JobLeave
  <1>5. CASE JobRestart(j)
    BY <1>5 DEF JobRestart, NoteOp
  <1>6. CASE CmdAddFile(j)
    BY <1>6 DEF CmdAddFile, Command
  <1>7. CASE AddFileEnds(j)
    BY <1>7 DEF AddFileEnds
  <1> QED
    BY <1>1, <1>2, <1>3, <1>4, <1>5, <1>6, <1>7 DEF JobStep

LEMMA SoloInvWorld ==
  ASSUME BaseInv, SoloInv, (\E p \in Live : QvmExit(p)) \/ (\E p \in doomed : QvmDies(p)) \/ Crash \/ Restart \/ UNCHANGED vars
  PROVE  SoloInv'
  <1> USE JobsAssumption, PidsTyped
      DEF At, Goto, counters, SoloInv, Solo, OneCopy, Unmoved, OwnGroupByOverlap, InOp, InRefresh,
          BaseInv, Types, ServingInv, Threads, Workers, Refreshers, Steps, RefreshSteps, OpSteps
  <1>1. CASE \E p \in Live : QvmExit(p)
    BY <1>1 DEF QvmExit, Live
  <1>0. CASE \E p \in doomed : QvmDies(p)
    BY <1>0 DEF QvmDies, Live
  <1>2. CASE Crash
    BY <1>2 DEF Crash, Stop
  <1>3. CASE Restart
    BY <1>3 DEF Restart
  <1>4. CASE UNCHANGED vars
    BY <1>4 DEF vars
  <1> QED
    BY <1>0, <1>1, <1>2, <1>3, <1>4

-----------------------------------------------------------------------------
(* The row, the file and the processes. *)
(* A thread inside a start or a kill, and what it must leave behind.       *)
LEMMA OpAlone ==
  ASSUME BaseInv, SoloInv, TruthInv, excuse = {}, NEW t \in Workers, InOp(t), up
  PROVE  /\ OpInv(t) /\ row.named
         /\ \A u \in Threads \ {t} : pc[u] \in {"idle", "pull", "add"}
         /\ pc[t] = "send" => row.state = "running" /\ row.pid > 0
         /\ pc[t] = "metaWrite" => loc[t].snap = meta
  <1>1. OpInv(t) /\ Solo /\ Unmoved
    BY DEF TruthInv, SoloInv
  <1>2. \A u \in Threads \ {t} : pc[u] \in {"idle", "pull", "add"}
    BY <1>1, JobsAssumption
    DEF Solo, InOp, InRefresh, Threads, Workers, BaseInv, Types, Steps, OpSteps, RefreshSteps
  <1>3. row.named
    BY <1>2, JobsAssumption
    DEF BaseInv, NamedInv, ServingInv, Refreshers, InOp, OpSteps, Workers, Threads
  <1> QED
    BY <1>1, <1>2, <1>3 DEF Unmoved

LEMMA AllRecorded ==
  ASSUME BaseInv, TruthInv, excuse = {}, \A t \in Threads : ~Unrecorded(t) PROVE Recorded
  <1>1. CASE Idle
    BY <1>1 DEF TruthInv
  <1>2. ASSUME NEW t \in Workers, InOp(t) PROVE Recorded
    <2>1. OpInv(t) /\ t \in Threads /\ Live \subseteq 1 .. forked /\ forked \in Nat
      BY <1>2 DEF Live, TruthInv, Workers, BaseInv, Types
    <2> QED
      BY <1>2, <2>1 DEF OpInv, Unrecorded, InOp, OpSteps, Recorded, BaseInv, Types, LocT
  <1> QED
    BY <1>1, <1>2 DEF Idle

LEMMA OpLeaves ==
  ASSUME BaseInv, NEW t \in Workers, \A u \in Threads \ {t} : pc[u] \in {"idle", "pull", "add"},
         NEW l \in OpSteps \cup {"idle", "copy", "clear"}, pc' = [pc EXCEPT ![t] = l],
         l = "clear" => t \notin Jobs, l \in OpSteps => OpInv(t)',
         l \notin OpSteps => Recorded',
         l \in {"idle", "copy"} => Good',
         l = "copy" => (Live = {})'
  PROVE  TruthInv'
  <1>1. pc'[t] = l /\ \A u \in Threads \ {t} : pc'[u] \in {"idle", "pull", "add"}
    BY DEF BaseInv, Types, Workers
  <1>2. \A u \in Workers : OpInv(u)'
    BY <1>1 DEF OpInv, OpSteps, Workers
  <1>3. Idle' => l \notin OpSteps
    BY <1>1 DEF Idle, InOp
  <1>4. Idle' /\ NoRefresh' => l \in {"idle", "copy"}
    BY <1>1, <1>3, JobsAssumption
    DEF NoRefresh, InRefresh, RefreshSteps, Refreshers, BaseInv, Types, OpSteps, Workers, Threads
  <1>5. RefreshInv'
    BY <1>1 DEF RefreshInv, Stale, Refreshers, Threads, OpSteps
  <1> QED
    BY <1>1, <1>2, <1>3, <1>4, <1>5 DEF TruthInv, Threads

(* The ends of guest_start and guest_kill. *)
LEMMA StartLeaves ==
  ASSUME BaseInv, NEW t \in Workers, \A u \in Threads \ {t} : pc[u] \in {"idle", "pull", "add"},
         Recorded', t \in Jobs => Good',
         pc' = [pc EXCEPT ![t] = IF t \in Jobs THEN "idle" ELSE "clear"]
  PROVE  TruthInv'
  <1>1. CASE t \in Jobs
    BY <1>1, OpLeaves DEF OpSteps
  <1>2. CASE t \notin Jobs
    BY <1>2, OpLeaves DEF OpSteps
  <1> QED
    BY <1>1, <1>2

LEMMA KillLeaves ==
  ASSUME BaseInv, NEW t \in Workers, \A u \in Threads \ {t} : pc[u] \in {"idle", "pull", "add"},
         row.named, Recorded', KillReturn(t), t \in Jobs => (Live = {})'
  PROVE  TruthInv'
  <1>1. CASE t \in Jobs
    <2>1. pc' = [pc EXCEPT ![t] = "copy"] /\ Good'
      BY <1>1 DEF KillReturn, Goto, Good, BaseInv, Types, RowT
    <2> QED
      BY <1>1, <2>1, OpLeaves DEF OpSteps
  <1>2. CASE t \notin Jobs
    <2>1. pc' = [pc EXCEPT ![t] = "clear"]
      BY <1>2 DEF KillReturn, Goto
    <2> QED
      BY <1>2, <2>1, OpLeaves DEF OpSteps
  <1> QED
    BY <1>1, <1>2

LEMMA TruthInvRefresh ==
  ASSUME BaseInv, SoloInv, TruthInv, NEW t \in Refreshers, Refresh(t)
  PROVE  TruthInv'
  <1> USE JobsAssumption, PidsTyped
      DEF At, Goto, counters, TruthInv, SoloInv, Solo, OneCopy, Unmoved, InOp, InRefresh, Idle,
         NoRefresh,
          Good, Recorded, Live, OpInv, Stale, Current, RefreshInv, Unrecorded,
          BaseInv, Types, ServingInv, NamedInv, Threads, Workers, Refreshers, Steps, RefreshSteps, OpSteps
  <1>1. CASE Clear(t)
    BY <1>1 DEF Clear
  <1>2. CASE Fill(t)
    BY <1>2 DEF Fill
  <1>3. CASE Reset(t)
    BY <1>3 DEF Reset
  <1>4. CASE Verify(t)
    <2> SUFFICES ASSUME excuse = {} PROVE TruthInv'
      BY <1>4 DEF Verify
    <2>1. /\ Live' = Live /\ meta' = meta /\ pc' = [pc EXCEPT ![t] = "idle"]
          /\ row'.named = row.named
          /\ loc[t].pid \notin alive => row' = row
          /\ loc[t].pid \in alive => row'.state = "running" /\ row'.pid = loc[t].pid
          /\ \A u \in Threads \ {t} : loc'[u] = loc[u]
      BY <1>4 DEF Verify, RowT
    <2>2. Live \subseteq alive /\ 0 \notin alive /\ Recorded
      BY <1>4 DEF Verify
    <2> HIDE DEF Live
    <2>3. row.named /\ (Good \/ Current(t)) => Good'
      BY <1>4, <2>1, <2>2 DEF Verify
    <2> QED
      BY <1>4, <2>1, <2>2, <2>3 DEF Verify
  <1> QED
    BY <1>1, <1>2, <1>3, <1>4 DEF Refresh

(* The end of meta_set: a file with the right number replaces the old one. *)
LEMMA TruthInvRename ==
  ASSUME BaseInv, SoloInv, TruthInv, NEW t \in Workers, excuse = {},
         At(t, "metaWrite"), meta'.pid = Edited(t).pid, Written(t),
         loc' = [loc EXCEPT ![t].snap = NoLoc.snap], UNCHANGED <<alive, doomed>>
  PROVE  TruthInv'
  <1>0. /\ Types /\ OpInv(t) /\ row.named /\ Live' = Live /\ pc[t] = "metaWrite"
        /\ loc[t].snap = meta
        /\ \A u \in Threads \ {t} : pc[u] \in {"idle", "pull", "add"}
    BY OpAlone DEF At, InOp, OpSteps, BaseInv, Live
  <1>1. CASE loc[t].key = "ip"
    <2>1. /\ row' = row /\ pc' = [pc EXCEPT ![t] = "start"]
          /\ meta'.pid = meta.pid
      BY <1>0, <1>1 DEF Written, Edited, Goto, Types, Meta
    <2>2. Good /\ Recorded
      BY <1>0, <1>1 DEF OpInv
    <2>3. OpInv(t)'
      BY <1>0, <2>1, <2>2 DEF OpInv, Good, Recorded, Types, Workers
    <2> QED
      BY <1>0, <2>1, <2>3, OpLeaves DEF OpSteps
  <1>2. CASE loc[t].key # "ip" /\ loc[t].pid # 0
    <2>1. row' = row /\ pc' = [pc EXCEPT ![t] = "settle"]
      BY <1>2 DEF Written, Goto
    <2>2. meta'.pid = loc[t].pid /\ loc'[t].pid = loc[t].pid
      BY <1>0, <1>2 DEF Edited, Types, Meta, LocT, Workers
    <2>3. OpInv(t)'
      BY <1>0, <1>2, <2>1, <2>2 DEF OpInv, Types, Workers
    <2> QED
      BY <1>0, <2>1, <2>3, OpLeaves DEF OpSteps
  <1>3. CASE loc[t].key # "ip" /\ loc[t].pid = 0
    <2>1. KillReturn(t) /\ Live = {}
      BY <1>0, <1>3 DEF Written, OpInv, Types, Live
    <2> QED
      BY <1>0, <2>1, KillLeaves DEF Recorded
  <1> QED
    BY <1>1, <1>2, <1>3

LEMMA TruthInvOp ==
  ASSUME BaseInv, SoloInv, TruthInv, NEW t \in Workers, Op(t)
  PROVE  TruthInv'
  <1>1. CASE StartCheck(t)
    <2> SUFFICES ASSUME excuse = {}, excuse' = {} PROVE TruthInv'
      BY <1>1 DEF StartCheck, TruthInv
    <2>0. /\ Types /\ OpInv(t) /\ row.named
          /\ \A u \in Threads \ {t} : pc[u] \in {"idle", "pull", "add"}
      BY <1>1, OpAlone DEF StartCheck, At, InOp, OpSteps, BaseInv
    <2>1. Good /\ Recorded
      BY <1>1, <2>0 DEF StartCheck, At, OpInv
    <2>2. CASE row.state = "running"
      <3>1. /\ Live' = Live /\ meta' = meta
            /\ pc' = [pc EXCEPT ![t] = IF t \in Jobs THEN "idle" ELSE "clear"]
        BY <1>1, <2>2 DEF Live, StartCheck, StartReturn, Goto
      <3>2. row'.named /\ (t \in Jobs => row'.state = "running" /\ row'.pid = 0)
        <4>1. StartReturn(t, TRUE) /\ row \in RowT
          BY <1>1, <2>0, <2>2 DEF StartCheck, Types
        <4> QED
          BY <2>0, <4>1 DEF StartReturn, RowT
      <3>3. Recorded' /\ (t \in Jobs => Good')
        BY <2>1, <3>1, <3>2 DEF Recorded, Good
      <3> QED
        BY <2>0, <3>1, <3>3, StartLeaves
    <2>3. CASE row.state # "running"
      <3>1. Live = {} /\ Live' = Live /\ row' = row /\ pc' = [pc EXCEPT ![t] = "fork"]
        BY <1>1, <2>0, <2>1, <2>3 DEF Live, StartCheck, Good, Goto
      <3>2. OpInv(t)'
        BY <2>0, <3>1 DEF OpInv, Types, Workers
      <3> QED
        BY <2>0, <3>1, <3>2, OpLeaves DEF OpSteps
    <2> QED
      BY <2>2, <2>3
  <1>2. CASE ForkFails(t)
    <2> SUFFICES ASSUME excuse = {}, excuse' = {} PROVE TruthInv'
      BY <1>2 DEF ForkFails, TruthInv
    <2>0. /\ Types /\ OpInv(t) /\ row.named
          /\ \A u \in Threads \ {t} : pc[u] \in {"idle", "pull", "add"}
      BY <1>2, OpAlone DEF ForkFails, At, InOp, OpSteps, BaseInv
    <2>1. /\ Live = {} /\ Live' = Live /\ row' = row
          /\ pc' = [pc EXCEPT ![t] = IF t \in Jobs THEN "idle" ELSE "clear"]
      BY <1>2, <2>0 DEF Live, ForkFails, At, OpInv, StartReturn, Goto
    <2>2. Recorded' /\ Good'
      BY <2>0, <2>1 DEF Recorded, Good
    <2> QED
      BY <2>0, <2>1, <2>2, StartLeaves
  <1>3. CASE Fork(t)
    BY <1>3, JobsAssumption, PidsTyped
    DEF Fork,
        At, Goto, counters, TruthInv, SoloInv, Solo, OneCopy, Unmoved, InOp, InRefresh, Idle, NoRefresh,
        Good, Recorded, Live, OpInv, Stale, Current, RefreshInv, Unrecorded,
        BaseInv, Types, ServingInv, NamedInv, Threads, Workers, Refreshers, Steps, RefreshSteps, OpSteps
  <1>4. CASE Settle(t)
    <2> SUFFICES ASSUME excuse = {}, excuse' = {} PROVE TruthInv'
      BY <1>4 DEF Settle, TruthInv
    <2>0. /\ Types /\ OpInv(t) /\ row.named
          /\ \A u \in Threads \ {t} : pc[u] \in {"idle", "pull", "add"}
      BY <1>4, OpAlone DEF Settle, At, InOp, OpSteps, BaseInv
    <2>1. /\ Live \subseteq {loc[t].pid} /\ Recorded /\ Live' = Live /\ meta' = meta
          /\ pc' = [pc EXCEPT ![t] = IF t \in Jobs THEN "idle" ELSE "clear"]
      BY <1>4, <2>0 DEF Live, Settle, At, OpInv, Recorded, StartReturn, Goto
    <2>2. ASSUME t \in Jobs PROVE Good'
      <3>1. CASE loc[t].pid \in alive
        <4>1. row'.named /\ row'.state = "running" /\ row'.pid = 0
          BY <1>4, <2>0, <2>2, <3>1 DEF Settle, StartReturn, Types, RowT
        <4> QED
          BY <4>1 DEF Good
      <3>2. CASE loc[t].pid \notin alive
        <4>1. row' = row /\ Live = {}
          BY <1>4, <2>1, <2>2, <3>2 DEF Live, Settle, StartReturn
        <4> QED
          BY <2>0, <2>1, <4>1 DEF Good
      <3> QED
        BY <3>1, <3>2
    <2> QED
      BY <2>0, <2>1, <2>2, StartLeaves DEF Recorded
  <1>5. CASE KillCheck(t)
    <2> SUFFICES ASSUME excuse = {}, excuse' = {} PROVE TruthInv'
      BY <1>5 DEF KillCheck, TruthInv
    <2>0. /\ Types /\ OpInv(t) /\ row.named
          /\ \A u \in Threads \ {t} : pc[u] \in {"idle", "pull", "add"}
      BY <1>5, OpAlone DEF KillCheck, At, InOp, OpSteps, BaseInv
    <2>1. Good /\ Recorded
      BY <1>5, <2>0 DEF KillCheck, At, OpInv
    <2>2. CASE row.state = "running" /\ row.pid > 0
      <3>1. row' = row /\ Live' = Live /\ meta' = meta /\ pc' = [pc EXCEPT ![t] = "send"]
        BY <1>5, <2>2 DEF Live, KillCheck, Goto
      <3>2. OpInv(t)'
        BY <2>0, <2>1, <2>2, <3>1 DEF OpInv, Good, Recorded, Types, Workers
      <3> QED
        BY <2>0, <3>1, <3>2, OpLeaves DEF OpSteps
    <2>3. CASE ~(row.state = "running" /\ row.pid > 0)
      <3>1. KillReturn(t) /\ (t \in Jobs => Live = {}) /\ Live' = Live /\ meta' = meta
        BY <1>5, <2>3 DEF Live, KillCheck
      <3> QED
        BY <2>0, <2>1, <3>1, KillLeaves DEF Recorded
    <2> QED
      BY <2>2, <2>3
  <1>6. CASE KillSend(t)
    <2> SUFFICES ASSUME excuse = {}, excuse' = {} PROVE TruthInv'
      BY <1>6 DEF KillSend, TruthInv
    <2>0. /\ Types /\ OpInv(t) /\ row.named
          /\ \A u \in Threads \ {t} : pc[u] \in {"idle", "pull", "add"}
      BY <1>6, OpAlone DEF KillSend, At, InOp, OpSteps, BaseInv
    <2>1. Live \subseteq {row.pid}
      BY <1>6, <2>0 DEF KillSend, At, OpInv
    <2>2. CASE row.pid \in alive
      <3>1. /\ Live' = {} /\ row' = row /\ pc' = [pc EXCEPT ![t] = "metaRead"]
            /\ loc' = [loc EXCEPT ![t].pid = 0, ![t].key = "pid"]
        BY <1>6, <2>1, <2>2 DEF Live, KillSend, Goto
      <3>2. loc'[t].key = "pid"
        BY <2>0, <3>1 DEF Types, LocT, Workers
      <3>3. OpInv(t)'
        BY <2>0, <3>1, <3>2 DEF OpInv, Types, Workers
      <3> QED
        BY <2>0, <3>1, <3>3, OpLeaves DEF OpSteps
    <2>3. CASE row.pid \notin alive
      <3>1. KillReturn(t) /\ Live' = {} /\ Live = {}
        BY <1>6, <2>1, <2>3 DEF Live, KillSend
      <3> QED
        BY <2>0, <3>1, KillLeaves DEF Recorded
    <2> QED
      BY <2>2, <2>3
  <1>7. CASE KillOwnGroup(t)
    BY <1>7, JobsAssumption, PidsTyped
    DEF KillOwnGroup, Stop,
        At, Goto, counters, TruthInv, SoloInv, Solo, OneCopy, Unmoved, InOp, InRefresh, Idle, NoRefresh,
        Good, Recorded, Live, OpInv, Stale, Current, RefreshInv, Unrecorded,
        BaseInv, Types, ServingInv, NamedInv, Threads, Workers, Refreshers, Steps, RefreshSteps, OpSteps
  <1>8. CASE MetaRead(t)
    BY <1>8, JobsAssumption, PidsTyped
    DEF MetaRead, Written, KillReturn,
        At, Goto, counters, TruthInv, SoloInv, Solo, OneCopy, Unmoved, InOp, InRefresh, Idle, NoRefresh,
        Good, Recorded, Live, OpInv, Stale, Current, RefreshInv, Unrecorded,
        BaseInv, Types, ServingInv, NamedInv, Threads, Workers, Refreshers, Steps, RefreshSteps, OpSteps
  <1>9. CASE MetaWrite(t)
    BY <1>9, TruthInvRename DEF MetaWrite, TruthInv
  <1>10. CASE MetaFails(t)
    <2> SUFFICES ASSUME excuse = {}, excuse' = {} PROVE TruthInv'
      BY <1>10 DEF MetaFails, TruthInv
    <2>0. /\ Types /\ OpInv(t) /\ row.named
          /\ \A u \in Threads \ {t} : pc[u] \in {"idle", "pull", "add"}
      BY <1>10, OpAlone DEF MetaFails, At, InOp, OpSteps, BaseInv
    <2>1. CASE loc[t].key = "ip"
      <3>1. /\ row' = row /\ Live' = Live /\ pc' = [pc EXCEPT ![t] = "start"]
            /\ meta'.pid = meta.pid
        BY <1>10, <2>0, <2>1 DEF Live, MetaFails, At, Written, Goto, InOp, OpSteps, Types, Meta
      <3>2. Good /\ Recorded
        BY <1>10, <2>0, <2>1 DEF MetaFails, At, OpInv
      <3>3. OpInv(t)'
        BY <2>0, <3>1, <3>2 DEF OpInv, Good, Recorded, Types, Workers
      <3> QED
        BY <2>0, <3>1, <3>3, OpLeaves DEF OpSteps
    <2>2. CASE loc[t].key # "ip" /\ loc[t].pid # 0
      BY <1>10, <2>0, <2>2 DEF MetaFails, At, Unrecorded, Types, LocT, Workers
    <2>3. CASE loc[t].key # "ip" /\ loc[t].pid = 0
      <3>1. KillReturn(t) /\ Live' = Live /\ Live = {}
        BY <1>10, <2>0, <2>3 DEF Live, MetaFails, At, Written, OpInv, Types
      <3> QED
        BY <2>0, <3>1, KillLeaves DEF Recorded
    <2> QED
      BY <2>1, <2>2, <2>3
  <1>11. CASE MetaTruncated(t)
    BY <1>11, TruthInvRename DEF MetaTruncated, TruthInv
  <1> QED
    BY <1>1, <1>2, <1>3, <1>4, <1>5, <1>6, <1>7, <1>8, <1>9, <1>10, <1>11 DEF Op

LEMMA TruthInvCommand ==
  ASSUME BaseInv, SoloInv, TruthInv, MainRefresh \/ CmdUnknown \/ CmdKill \/ CmdRefresh \/ \E ip \in BOOLEAN : CmdStart(ip)
  PROVE  TruthInv'
  <1> USE JobsAssumption, PidsTyped
      DEF At, Goto, counters, TruthInv, SoloInv, Solo, OneCopy, Unmoved, InOp, InRefresh, Idle,
         NoRefresh,
          Good, Recorded, Live, OpInv, Stale, Current, RefreshInv, Unrecorded,
          BaseInv, Types, ServingInv, NamedInv, Threads, Workers, Refreshers, Steps, RefreshSteps, OpSteps
  <1>1. CASE MainRefresh
    BY <1>1 DEF MainRefresh, NoteRefresh
  <1>2. CASE CmdUnknown
    BY <1>2 DEF CmdUnknown, Command
  <1>3. CASE CmdKill
    BY <1>3 DEF CmdKill, Command, NoteOp
  <1>4. CASE CmdRefresh
    BY <1>4 DEF CmdRefresh, Command, NoteRefresh
  <1>5. CASE \E ip \in BOOLEAN : CmdStart(ip)
    <2> SUFFICES ASSUME excuse = {}, excuse' = {} PROVE TruthInv'
      BY <1>5 DEF CmdStart, NoteOp
    <2>1. \A u \in Threads \ {"mqtt"} : pc[u] \in {"idle", "pull", "add"}
      BY <1>5 DEF CmdStart, NoteOp
    <2>2. Good /\ Recorded
      BY <1>5, <2>1 DEF CmdStart, Command
    <2> HIDE DEF TruthInv, BaseInv, Solo, SoloInv
    <2>3. PICK l \in {"start", "metaRead"} :
             /\ pc' = [pc EXCEPT !["mqtt"] = l]
             /\ l = "metaRead" => loc'["mqtt"].key = "ip"
      BY <1>5 DEF CmdStart, LocT, BaseInv
    <2>4. OpInv("mqtt")'
      BY <1>5, <2>2, <2>3 DEF CmdStart, BaseInv
    <2> HIDE DEF OpInv, Good, Recorded, Threads
    <2> QED
      BY <2>1, <2>3, <2>4, OpLeaves DEF Threads
  <1> QED
    BY <1>1, <1>2, <1>3, <1>4, <1>5

LEMMA TruthInvJob ==
  ASSUME BaseInv, SoloInv, TruthInv, NEW j \in Jobs, JobStep(j)
  PROVE  TruthInv'
  <1> USE JobsAssumption, PidsTyped
      DEF At, Goto, counters, TruthInv, SoloInv, Solo, OneCopy, Unmoved, InOp, InRefresh, Idle,
         NoRefresh,
          Good, Recorded, Live, OpInv, Stale, Current, RefreshInv, Unrecorded,
          BaseInv, Types, ServingInv, NamedInv, Threads, Workers, Refreshers, Steps, RefreshSteps, OpSteps
  <1>1. CASE CmdJob(j)
    BY <1>1 DEF CmdJob, Command
  <1>2. CASE JobPullFails(j)
    BY <1>2 DEF JobPullFails
  <1>3. CASE JobKill(j)
    BY <1>3 DEF JobKill, NoteOp
  <1>4. CASE JobLeave(j)
    BY <1>4 DEF JobLeave
  <1>5. CASE JobRestart(j)
    BY <1>5 DEF JobRestart, NoteOp
  <1>6. CASE CmdAddFile(j)
    BY <1>6 DEF CmdAddFile, Command
  <1>7. CASE AddFileEnds(j)
    BY <1>7 DEF AddFileEnds
  <1> QED
    BY <1>1, <1>2, <1>3, <1>4, <1>5, <1>6, <1>7 DEF JobStep

LEMMA TruthInvWorld ==
  ASSUME BaseInv, SoloInv, TruthInv, (\E p \in Live : QvmExit(p)) \/ (\E p \in doomed : QvmDies(p)) \/ Crash \/ Restart \/ UNCHANGED vars
  PROVE  TruthInv'
  <1> USE JobsAssumption, PidsTyped
      DEF At, Goto, counters, TruthInv, SoloInv, Solo, OneCopy, Unmoved, InOp, InRefresh, Idle,
         NoRefresh,
          Good, Recorded, Live, OpInv, Stale, Current, RefreshInv, Unrecorded,
          BaseInv, Types, ServingInv, NamedInv, Threads, Workers, Refreshers, Steps, RefreshSteps, OpSteps
  <1>1. CASE \E p \in Live : QvmExit(p)
    BY <1>1 DEF QvmExit, Live
  <1>0. CASE \E p \in doomed : QvmDies(p)
    BY <1>0 DEF QvmDies, Live
  <1>2. CASE Crash
    <2> SUFFICES ASSUME excuse = {}, excuse' = {} PROVE TruthInv'
      BY <1>2 DEF Crash
    <2>1. Recorded
      BY <1>2, AllRecorded DEF Crash
    <2> QED
      BY <1>2, <2>1 DEF Crash, Stop
  <1>3. CASE Restart
    BY <1>3 DEF Restart
  <1>4. CASE UNCHANGED vars
    BY <1>4 DEF vars
  <1> QED
    BY <1>0, <1>1, <1>2, <1>3, <1>4

-----------------------------------------------------------------------------
LEMMA GuestInductive == Spec => []GuestInv
  <1>1. Init => GuestInv
    <2> SUFFICES ASSUME Init PROVE GuestInv
      OBVIOUS
    <2>1. row \in RowT /\ meta \in Meta /\ loc \in [Threads -> LocT]
      BY LocTyped, PidsTyped DEF Init, Cleared, RowT, Meta
    <2>2. BaseInv
      BY <2>1, PidsTyped, JobsAssumption
      DEF Init, BaseInv, Types, ServingInv, NamedInv, Workers, Threads, Steps, RefreshSteps
    <2>3. SoloInv
      BY DEF Init, SoloInv, Solo, OneCopy, Unmoved, OwnGroupByOverlap, InOp, OpSteps, Workers,
         Threads
    <2>4. TruthInv
      BY DEF Init, TruthInv, Recorded, Live, NoRefresh, InRefresh, RefreshSteps, Refreshers,
         OpInv,
             RefreshInv, Stale, Workers, Threads
    <2> QED
      BY <2>2, <2>3, <2>4 DEF GuestInv
  <1>2. GuestInv /\ [Next]_vars => GuestInv'
    <2> SUFFICES ASSUME GuestInv, [Next]_vars PROVE GuestInv'
      OBVIOUS
    <2> USE DEF GuestInv
    <2>1. CASE MainRefresh \/ CmdUnknown \/ CmdKill \/ CmdRefresh \/ \E ip \in BOOLEAN : CmdStart(ip)
      BY <2>1, BaseInvCommand, SoloInvCommand, TruthInvCommand
    <2>2. CASE \E t \in {"main", "mqtt"} : Refresh(t)
      BY <2>2, BaseInvRefresh, SoloInvRefresh, TruthInvRefresh DEF Refreshers
    <2>3. CASE \E t \in Threads \ {"main"} : Op(t)
      BY <2>3, BaseInvOp, SoloInvOp, TruthInvOp DEF Workers
    <2>4. CASE \E j \in Jobs : JobStep(j)
      BY <2>4, BaseInvJob, SoloInvJob, TruthInvJob
    <2>5. CASE (\E p \in Live : QvmExit(p)) \/ (\E p \in doomed : QvmDies(p)) \/ Crash \/ Restart \/ UNCHANGED vars
      BY <2>5, BaseInvWorld, SoloInvWorld, TruthInvWorld
    <2> QED
      BY <2>1, <2>2, <2>3, <2>4, <2>5 DEF Next, JobStep
  <1> QED
    BY <1>1, <1>2, PTL DEF Spec
-----------------------------------------------------------------------------
(* Every qvm that has not been sent SIGKILL can be found through           *)
(* .hms_metadata, or its number is about to be stored (guest_start,        *)
(* guest_kill, ota_apply_thread), unless operations overlap, a job killed  *)
(* blindly or a number was never written.                                  *)
THEOREM NoStrayQvmCorrect == Spec => []NoStrayQvm
  <1>1. GuestInv => NoStrayQvm
    <2> SUFFICES ASSUME GuestInv, excuse = {}, NEW p \in Live
                 PROVE  \/ p = meta.pid
                        \/ \E t \in Threads : Unrecorded(t) /\ p = loc[t].pid
      BY DEF NoStrayQvm
    <2>1. CASE \A t \in Threads : ~Unrecorded(t)
      BY <2>1, AllRecorded DEF GuestInv, Recorded
    <2>2. ASSUME NEW t \in Threads, Unrecorded(t) PROVE p = loc[t].pid
      <3>1. t \in Workers
        BY <2>2 DEF Unrecorded, GuestInv, BaseInv, Types, RefreshSteps, Workers
      <3>2. Live \subseteq {loc[t].pid}
        BY <2>2, <3>1 DEF Unrecorded, GuestInv, TruthInv, OpInv
      <3> QED
        BY <3>2
    <2> QED
      BY <2>1, <2>2
  <1> QED
    BY <1>1, GuestInductive, PTL

(* When a job replaces the files of a guest (ota_apply_thread), every qvm  *)
(* of it that still exists has been sent SIGKILL (guest_kill).             *)
THEOREM FilesOfKilledGuestCorrect == Spec => []FilesOfKilledGuest
  <1>1. GuestInv => FilesOfKilledGuest
    BY DEF GuestInv, TruthInv, FilesOfKilledGuest
  <1> QED
    BY <1>1, GuestInductive, PTL

(* guest_kill sends SIGKILL to its own process group only after an overlap.*)
THEOREM OwnGroupCorrect == Spec => []OwnGroupByOverlap
  <1>1. GuestInv => OwnGroupByOverlap
    BY DEF GuestInv, SoloInv
  <1> QED
    BY <1>1, GuestInductive, PTL
=============================================================================
