--------------------------- MODULE GuestLifecycle ---------------------------
(***************************************************************************)
(* How the Hypervisor Management System keeps track of one guest, starts   *)
(* it, kills it and updates it.  Three kinds of threads share the guest's  *)
(* row of the table and its .hms_metadata file without any lock: main      *)
(* rebuilds the table every 2 s, the mosquitto thread executes commands,   *)
(* and every OTA job kills the guest, replaces files and starts it again,  *)
(* or adds a file to its directory while it runs.                          *)
(*                                                                         *)
(* The row is the one record all of them use through a pointer, and a      *)
(* rebuild clears it before it fills it.  A guest runs as a qvm process,   *)
(* a number; numbers are not reused.  SIGKILL is only posted: the process  *)
(* goes some time later, and nobody waits for that.  The names, paths and  *)
(* credentials of the row are one flag, named: they are cleared and set    *)
(* together.                                                               *)
(***************************************************************************)
EXTENDS Naturals, FiniteSets

CONSTANTS
  Jobs,        \* threads for OTA jobs
  MaxQvm,      \* bound: qvm processes forked
  MaxCmds,     \* bound: commands received
  MaxFaults    \* bound: ends of a qvm by itself, crashes of HMS, failures of
               \* fork and of the metadata file, all together

ASSUME JobsAssumption == IsFiniteSet(Jobs) /\ Jobs \cap {"main", "mqtt"} = {}
ASSUME BoundsAssumption == {MaxQvm, MaxCmds, MaxFaults} \subseteq Nat

Pids == 0 .. MaxQvm        \* 0 is no process
Threads == {"main", "mqtt"} \cup Jobs
Meta == [pid : Pids, ip : BOOLEAN]

RefreshSteps == {"clear", "fill", "reset", "verify"}
OpSteps == {"start", "fork", "metaRead", "metaWrite", "settle", "kill", "send"}
Steps == {"idle", "pull", "copy", "add"} \cup RefreshSteps \cup OpSteps
Reasons == {"overlap", "blind", "unwritten"}

VARIABLES
  up,       \* the HMS process runs
  serving,  \* the mosquitto thread runs: main is past its first refresh
  row,      \* guests[i]: named, state and pid
  meta,     \* .hms_metadata: pid= and whether the ip= of the commands is in it
  alive,    \* qvm processes that exist
  doomed,   \* those of them that have been sent SIGKILL
  forked,   \* number of the last one
  pc,       \* control state of each thread
  loc,      \* locals of each thread: pid, and key and snapshot of meta_set
  cmds, faults,  \* counters for the bounds
  ownGroup, \* HMS has sent SIGKILL to its own process group
  excuse    \* history: what the code does not guard against has happened

counters == <<cmds, faults>>
vars == <<up, serving, row, meta, alive, doomed, forked, pc, loc, counters,
          ownGroup, excuse>>

NoLoc == [pid |-> 0, key |-> "pid", snap |-> [pid |-> 0, ip |-> FALSE]]
Cleared == [named |-> FALSE, state |-> "running", pid |-> 0]

Init ==
  /\ up = TRUE /\ serving = FALSE
  /\ row = Cleared /\ meta = [pid |-> 0, ip |-> FALSE]
  /\ alive = {} /\ doomed = {} /\ forked = 0
  /\ pc = [t \in Threads |-> IF t = "main" THEN "clear" ELSE "idle"]
  /\ loc = [t \in Threads |-> NoLoc]
  /\ cmds = 0 /\ faults = 0
  /\ ownGroup = FALSE /\ excuse = {}

At(t, s) == up /\ pc[t] = s
Goto(t, s) == pc' = [pc EXCEPT ![t] = s]

Live == alive \ doomed     \* the qvm processes that go on running

InOp(t) == pc[t] \in OpSteps
InRefresh(t) == pc[t] \in RefreshSteps

(* t has forked a qvm whose number is not in the file yet. *)
Unrecorded(t) == /\ pc[t] \in {"metaRead", "metaWrite"}
                 /\ loc[t].key = "pid" /\ loc[t].pid # 0

(* A start or kill that begins while another thread is inside a start, a   *)
(* kill or a rebuild of the row, or while a job replaces files.            *)
NoteOp(t) ==
  excuse' = IF \E u \in Threads \ {t} : InOp(u) \/ InRefresh(u) \/ pc[u] = "copy"
            THEN excuse \cup {"overlap"} ELSE excuse

(* A rebuild that begins while another thread is inside a start or a kill. *)
NoteRefresh(t) ==
  excuse' = IF \E u \in Threads \ {t} : InOp(u)
            THEN excuse \cup {"overlap"} ELSE excuse

-----------------------------------------------------------------------------
(* refresh: discover_one clears the row and fills it, refresh_guest_state  *)
(* resets it again, reads the pid from the file and looks the process up.  *)
(* memset leaves 0 in state, which is GUEST_RUNNING.                       *)

Clear(t) ==
  /\ At(t, "clear")
  /\ row' = Cleared
  /\ Goto(t, "fill")
  /\ UNCHANGED <<up, serving, meta, alive, doomed, forked, loc, counters,
                 ownGroup, excuse>>

Fill(t) ==
  /\ At(t, "fill")
  /\ row' = [named |-> TRUE, state |-> "stopped", pid |-> meta.pid]
  /\ Goto(t, "reset")
  /\ UNCHANGED <<up, serving, meta, alive, doomed, forked, loc, counters,
                 ownGroup, excuse>>

Reset(t) ==
  /\ At(t, "reset")
  /\ row' = [row EXCEPT !.state = "stopped", !.pid = 0]
  /\ loc' = [loc EXCEPT ![t].pid = IF row.named THEN meta.pid ELSE 0]
  /\ Goto(t, "verify")
  /\ UNCHANGED <<up, serving, meta, alive, doomed, forked, counters, ownGroup,
                 excuse>>

(* Deviation: the pid of the file is believed without a look at /proc. *)
VerifyUnchecked(t) ==
  /\ At(t, "verify")
  /\ row' = IF loc[t].pid > 0
            THEN [row EXCEPT !.state = "running", !.pid = loc[t].pid] ELSE row
  /\ Goto(t, "idle")
  /\ serving' = (serving \/ t = "main")
  /\ loc' = [loc EXCEPT ![t] = NoLoc]
  /\ UNCHANGED <<up, meta, alive, doomed, forked, counters, ownGroup, excuse>>

Verify(t) ==
  /\ At(t, "verify")
  /\ row' = IF loc[t].pid \in alive
            THEN [row EXCEPT !.state = "running", !.pid = loc[t].pid] ELSE row
  /\ Goto(t, "idle")
  /\ serving' = (serving \/ t = "main")
  /\ loc' = [loc EXCEPT ![t] = NoLoc]
  /\ UNCHANGED <<up, meta, alive, doomed, forked, counters, ownGroup, excuse>>

MainRefresh ==
  /\ At("main", "idle")
  /\ Goto("main", "clear")
  /\ NoteRefresh("main")
  /\ UNCHANGED <<up, serving, row, meta, alive, doomed, forked, loc, counters,
                 ownGroup>>

-----------------------------------------------------------------------------
(* Where a thread goes after guest_start and guest_kill: a command ends    *)
(* with a refresh, the callbacks of a job correct the row themselves.      *)

(* Deviation: ota_start_cb leaves the row to the next refresh. *)
StartReturnUnmarked(t, ok) ==
  UNCHANGED row /\ Goto(t, IF t \in Jobs THEN "idle" ELSE "clear")

StartReturn(t, ok) ==
  IF t \in Jobs
  THEN /\ row' = IF ok THEN [row EXCEPT !.state = "running", !.pid = 0] ELSE row
       /\ Goto(t, "idle")
  ELSE UNCHANGED row /\ Goto(t, "clear")

KillReturn(t) ==
  IF t \in Jobs
  THEN /\ row' = [row EXCEPT !.state = "stopped", !.pid = 0]
       /\ Goto(t, "copy")
  ELSE UNCHANGED row /\ Goto(t, "clear")

-----------------------------------------------------------------------------
(* guest_start *)

StartCheck(t) ==
  /\ At(t, "start")
  /\ \/ row.state = "running" /\ StartReturn(t, TRUE)
     \/ row.state # "running" /\ ~row.named /\ StartReturn(t, FALSE)
     \/ row.state # "running" /\ row.named /\ UNCHANGED row /\ Goto(t, "fork")
  /\ UNCHANGED <<up, serving, meta, alive, doomed, forked, loc, counters,
                 ownGroup, excuse>>

ForkFails(t) ==
  /\ At(t, "fork") /\ faults < MaxFaults
  /\ faults' = faults + 1
  /\ StartReturn(t, FALSE)
  /\ UNCHANGED <<up, serving, meta, alive, doomed, forked, loc, cmds,
                 ownGroup, excuse>>

(* The child runs qvm with the name and configuration in its copy of the   *)
(* row; without them it exits.                                             *)
Fork(t) ==
  /\ At(t, "fork") /\ forked < MaxQvm
  /\ forked' = forked + 1
  /\ alive' = IF row.named THEN alive \cup {forked + 1} ELSE alive
  /\ loc' = [loc EXCEPT ![t].pid = forked + 1, ![t].key = "pid"]
  /\ Goto(t, "metaRead")
  /\ UNCHANGED <<up, serving, row, meta, doomed, counters, ownGroup, excuse>>

Settle(t) ==
  /\ At(t, "settle")
  /\ StartReturn(t, loc[t].pid \in alive)
  /\ loc' = [loc EXCEPT ![t] = NoLoc]
  /\ UNCHANGED <<up, serving, meta, alive, doomed, forked, counters, ownGroup,
                 excuse>>

-----------------------------------------------------------------------------
(* guest_kill.  The pid is read from the row again for kill(2), and        *)
(* kill(0, SIGKILL) ends every process of the caller's group.  It returns  *)
(* after a pause, whether the process is gone or not.                      *)

(* Deviation: only the state is checked. *)
KillCheckStateOnly(t) ==
  /\ At(t, "kill")
  /\ IF row.state = "running"
     THEN UNCHANGED <<row, excuse>> /\ Goto(t, "send")
     ELSE KillReturn(t) /\ UNCHANGED excuse
  /\ UNCHANGED <<up, serving, meta, alive, doomed, forked, loc, counters,
                 ownGroup>>

KillCheck(t) ==
  /\ At(t, "kill")
  /\ IF row.state = "running" /\ row.pid > 0
     THEN UNCHANGED <<row, excuse>> /\ Goto(t, "send")
     ELSE /\ KillReturn(t)
          /\ excuse' = IF t \in Jobs /\ Live # {}
                       THEN excuse \cup {"blind"} ELSE excuse
  /\ UNCHANGED <<up, serving, meta, alive, doomed, forked, loc, counters,
                 ownGroup>>

KillSend(t) ==
  /\ At(t, "send")
  /\ row.pid > 0
  /\ IF row.pid \in alive
     THEN /\ doomed' = doomed \cup {row.pid}
          /\ loc' = [loc EXCEPT ![t].pid = 0, ![t].key = "pid"]
          /\ UNCHANGED row /\ Goto(t, "metaRead")
     ELSE KillReturn(t) /\ UNCHANGED <<doomed, loc>>
  /\ UNCHANGED <<up, serving, meta, alive, forked, counters, ownGroup, excuse>>

Stop == /\ up' = FALSE /\ serving' = FALSE
        /\ pc' = [t \in Threads |-> "idle"]
        /\ loc' = [t \in Threads |-> NoLoc]
        /\ row' = Cleared

KillOwnGroup(t) ==
  /\ At(t, "send")
  /\ row.pid = 0
  /\ ownGroup' = TRUE
  /\ Stop
  /\ excuse' = IF \E u \in Threads : Unrecorded(u)
               THEN excuse \cup {"unwritten"} ELSE excuse
  /\ UNCHANGED <<meta, alive, doomed, forked, counters>>

-----------------------------------------------------------------------------
(* meta_set: the file is read, then a copy with the one key changed        *)
(* replaces it.  Its path is built from the row's name.                    *)

Edited(t) == IF loc[t].key = "ip" THEN [loc[t].snap EXCEPT !.ip = TRUE]
             ELSE [loc[t].snap EXCEPT !.pid = loc[t].pid]

Written(t) ==
  IF loc[t].key = "ip"    THEN UNCHANGED row /\ Goto(t, "start")
  ELSE IF loc[t].pid # 0  THEN UNCHANGED row /\ Goto(t, "settle")
  ELSE KillReturn(t)

MetaRead(t) ==
  /\ At(t, "metaRead")
  /\ loc' = [loc EXCEPT ![t].snap = meta]
  /\ IF row.named THEN UNCHANGED row /\ Goto(t, "metaWrite") ELSE Written(t)
  /\ UNCHANGED <<up, serving, meta, alive, doomed, forked, counters, ownGroup,
                 excuse>>

MetaWrite(t) ==
  /\ At(t, "metaWrite")
  /\ meta' = Edited(t)
  /\ Written(t)
  /\ loc' = [loc EXCEPT ![t].snap = NoLoc.snap]
  /\ UNCHANGED <<up, serving, alive, doomed, forked, counters, ownGroup,
                 excuse>>

(* The copy cannot be opened or renamed: the caller goes on regardless.    *)
MetaFails(t) ==
  /\ At(t, "metaWrite") /\ faults < MaxFaults
  /\ faults' = faults + 1
  /\ excuse' = IF Unrecorded(t) THEN excuse \cup {"unwritten"} ELSE excuse
  /\ Written(t)
  /\ loc' = [loc EXCEPT ![t].snap = NoLoc.snap]
  /\ UNCHANGED <<up, serving, meta, alive, doomed, forked, cmds, ownGroup>>

(* The disk is full: what fits of the copy replaces the file all the same. *)
(* The lines come in either order, and a number cut short is a smaller one.*)
MetaTruncated(t) ==
  /\ At(t, "metaWrite") /\ faults < MaxFaults
  /\ faults' = faults + 1
  /\ meta' \in {m \in Meta : /\ m # Edited(t) /\ m.pid <= Edited(t).pid
                            /\ m.ip => Edited(t).ip}
  /\ excuse' = IF meta'.pid # Edited(t).pid
               THEN excuse \cup {"unwritten"} ELSE excuse
  /\ Written(t)
  /\ loc' = [loc EXCEPT ![t].snap = NoLoc.snap]
  /\ UNCHANGED <<up, serving, alive, doomed, forked, cmds, ownGroup>>

-----------------------------------------------------------------------------
(* Commands, in the mosquitto thread.  An unknown guest is reported.       *)

Command ==
  /\ At("mqtt", "idle") /\ serving
  /\ cmds < MaxCmds
  /\ cmds' = cmds + 1

CmdUnknown ==
  /\ Command
  /\ ~row.named
  /\ UNCHANGED <<up, serving, row, meta, alive, doomed, forked, pc, loc,
                 faults, ownGroup, excuse>>

CmdStart(ip) ==
  /\ Command
  /\ row.named
  /\ NoteOp("mqtt")
  /\ IF ip /\ ~meta.ip
     THEN /\ loc' = [loc EXCEPT !["mqtt"].key = "ip"]
          /\ Goto("mqtt", "metaRead")
     ELSE UNCHANGED loc /\ Goto("mqtt", "start")
  /\ UNCHANGED <<up, serving, row, meta, alive, doomed, forked, faults,
                 ownGroup>>

CmdKill ==
  /\ Command
  /\ row.named
  /\ NoteOp("mqtt")
  /\ Goto("mqtt", "kill")
  /\ UNCHANGED <<up, serving, row, meta, alive, doomed, forked, loc, faults,
                 ownGroup>>

(* list, info and files *)
CmdRefresh ==
  /\ Command
  /\ NoteRefresh("mqtt")
  /\ Goto("mqtt", "clear")
  /\ UNCHANGED <<up, serving, row, meta, alive, doomed, forked, loc, faults,
                 ownGroup>>

(* ota and apply *)
CmdJob(j) ==
  /\ Command
  /\ row.named /\ pc[j] = "idle"
  /\ Goto(j, "pull")
  /\ UNCHANGED <<up, serving, row, meta, alive, doomed, forked, loc, faults,
                 ownGroup, excuse>>

CmdAddFile(j) ==
  /\ Command
  /\ row.named /\ pc[j] = "idle"
  /\ Goto(j, "add")
  /\ UNCHANGED <<up, serving, row, meta, alive, doomed, forked, loc, faults,
                 ownGroup, excuse>>

-----------------------------------------------------------------------------
(* A job: get the package or find the staged files, kill the guest if the  *)
(* row says it runs, replace its files, start it.                          *)

JobPullFails(j) ==
  /\ At(j, "pull")
  /\ Goto(j, "idle")
  /\ UNCHANGED <<up, serving, row, meta, alive, doomed, forked, loc, counters,
                 ownGroup, excuse>>

(* Deviation: the files are replaced first, the guest is not killed. *)
JobKillLater(j) ==
  /\ At(j, "pull")
  /\ NoteOp(j)
  /\ Goto(j, "copy")
  /\ UNCHANGED <<up, serving, row, meta, alive, doomed, forked, loc, counters,
                 ownGroup>>

JobKill(j) ==
  /\ At(j, "pull")
  /\ NoteOp(j)
  /\ Goto(j, IF row.named /\ row.state = "running" THEN "kill" ELSE "copy")
  /\ UNCHANGED <<up, serving, row, meta, alive, doomed, forked, loc, counters,
                 ownGroup>>

(* The copy failed, or --no-restart was given and no image was replaced:   *)
(* the guest is left as it is, stopped.                                    *)
JobLeave(j) ==
  /\ At(j, "copy")
  /\ Goto(j, "idle")
  /\ UNCHANGED <<up, serving, row, meta, alive, doomed, forked, loc, counters,
                 ownGroup, excuse>>

JobRestart(j) ==
  /\ At(j, "copy")
  /\ NoteOp(j)
  /\ Goto(j, IF row.named THEN "start" ELSE "idle")
  /\ UNCHANGED <<up, serving, row, meta, alive, doomed, forked, loc, counters,
                 ownGroup>>

(* addfile_thread has refused a control file, failed, or put one file into *)
(* the directory of the guest, which may run.                              *)
AddFileEnds(j) ==
  /\ At(j, "add")
  /\ Goto(j, "idle")
  /\ UNCHANGED <<up, serving, row, meta, alive, doomed, forked, loc, counters,
                 ownGroup, excuse>>

-----------------------------------------------------------------------------
(* The environment: a qvm ends, HMS crashes, HMS is started again.         *)

(* SIGKILL takes effect. *)
QvmDies(p) ==
  /\ p \in doomed
  /\ alive' = alive \ {p}
  /\ doomed' = doomed \ {p}
  /\ UNCHANGED <<up, serving, row, meta, forked, pc, loc, counters, ownGroup,
                 excuse>>

QvmExit(p) ==
  /\ p \in Live /\ faults < MaxFaults
  /\ faults' = faults + 1
  /\ alive' = alive \ {p}
  /\ UNCHANGED <<up, serving, row, meta, doomed, forked, pc, loc, cmds,
                 ownGroup, excuse>>

Crash ==
  /\ up /\ faults < MaxFaults
  /\ faults' = faults + 1
  /\ Stop
  /\ excuse' = IF \E t \in Threads : Unrecorded(t)
               THEN excuse \cup {"unwritten"} ELSE excuse
  /\ UNCHANGED <<meta, alive, doomed, forked, cmds, ownGroup>>

Restart ==
  /\ ~up
  /\ up' = TRUE
  /\ pc' = [pc EXCEPT !["main"] = "clear"]
  /\ UNCHANGED <<serving, row, meta, alive, doomed, forked, loc, counters,
                 ownGroup, excuse>>

-----------------------------------------------------------------------------
Refresh(t) == Clear(t) \/ Fill(t) \/ Reset(t) \/ Verify(t)
Op(t) == \/ StartCheck(t) \/ ForkFails(t) \/ Fork(t) \/ Settle(t)
         \/ KillCheck(t) \/ KillSend(t) \/ KillOwnGroup(t)
         \/ MetaRead(t) \/ MetaWrite(t) \/ MetaFails(t) \/ MetaTruncated(t)

Next ==
  \/ MainRefresh
  \/ \E t \in {"main", "mqtt"} : Refresh(t)
  \/ \E t \in Threads \ {"main"} : Op(t)
  \/ CmdUnknown \/ CmdKill \/ CmdRefresh
  \/ \E ip \in BOOLEAN : CmdStart(ip)
  \/ \E j \in Jobs : \/ CmdJob(j) \/ JobPullFails(j) \/ JobKill(j)
                     \/ JobLeave(j) \/ JobRestart(j) \/ CmdAddFile(j) \/ AddFileEnds(j)
  \/ \E p \in Live : QvmExit(p)
  \/ \E p \in doomed : QvmDies(p)
  \/ Crash \/ Restart

(* The threads run whenever they can; transfers and copies end, by the     *)
(* timeouts given to scp.  Nothing makes the environment act.              *)
Fairness ==
  /\ WF_vars(MainRefresh \/ Refresh("main"))
  /\ WF_vars(Refresh("mqtt") \/ Op("mqtt"))
  /\ \A j \in Jobs : WF_vars(Op(j) \/ JobKill(j) \/ JobLeave(j) \/ JobRestart(j)
                             \/ JobPullFails(j) \/ AddFileEnds(j))

Spec == Init /\ [][Next]_vars /\ Fairness

-----------------------------------------------------------------------------
(* Every qvm that has not been sent SIGKILL is the one .hms_metadata names,*)
(* or one whose number guest_start is about to store: HMS can find and     *)
(* kill it, also after a crash, and starts no second one beside it.  The   *)
(* exceptions are operations that overlap, an update right after an update *)
(* (blind), and a number that never reached the file.                      *)
NoStrayQvm ==
  excuse = {} => Live \subseteq {meta.pid}
                   \cup {loc[t].pid : t \in {u \in Threads : Unrecorded(u)}}

(* When ota_apply_thread replaces the files of a guest, guest_kill has sent*)
(* SIGKILL to every qvm of it that still exists.  (The last one may still  *)
(* be ending: nothing waits for that.  addfile does not kill at all.)      *)
FilesOfKilledGuest ==
  excuse = {} => \A j \in Jobs : pc[j] = "copy" => Live = {}

(* The same without the exception for an update right after an update: the *)
(* comment "Kill the guest before touching its files" of ota_apply_thread, *)
(* for jobs that nothing overlaps.                                         *)
KilledBeforeFiles ==
  "overlap" \notin excuse /\ "unwritten" \notin excuse =>
    \A j \in Jobs : pc[j] = "copy" => Live = {}

(* guest_kill signals its own process group only when another thread       *)
(* cleared the row between its check of the pid and its use of it.         *)
OwnGroupByOverlap == ownGroup => "overlap" \in excuse

(* The table comes back to the truth again and again: between two rebuilds *)
(* the row says that the guest runs, with its pid, exactly when the        *)
(* process named in the file runs.                                         *)
RowAgrees == /\ row.named
             /\ row.state = IF meta.pid \in alive THEN "running" ELSE "stopped"
             /\ row.pid = IF meta.pid \in alive THEN meta.pid ELSE 0
TableConverges == []<>(up => pc["main"] = "idle" /\ RowAgrees)
=============================================================================
