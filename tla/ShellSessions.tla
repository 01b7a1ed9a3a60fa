--------------------------- MODULE ShellSessions ---------------------------
(***************************************************************************)
(* The interactive shells of the Hypervisor Management System (shell.c):   *)
(* a fixed table of sessions, each an ssh child with a pipe pair and a     *)
(* detached reader thread.  The MQTT thread opens, writes and closes; the  *)
(* idle monitor closes; the reader of a slot ends the session and frees    *)
(* the slot when the child's output ends.  s_lock guards the table; a      *)
(* critical section is one step here unless it can block, which only the   *)
(* write to the child's stdin does.                                        *)
(*                                                                         *)
(* A session is numbered when its child is forked; the number stands for   *)
(* its pid and for the parent's ends of its two pipes.                     *)
(***************************************************************************)
EXTENDS Naturals, FiniteSets

CONSTANTS Guests,
          None,         \* the empty guest_id
          NSlots,       \* SHELL_MAX_SESSIONS (4 in the code)
          MaxOpens,     \* bound: children forked in a behaviour
          MaxWrites,    \* bound: shell_write calls that find a session
          MaxHangs,     \* bound: children that stop reading their stdin
          MaxFailures   \* bound: fork and pthread_create calls that fail

ASSUME SlotAssumption  == NSlots \in Nat \ {0} /\ None \notin Guests
ASSUME ShellBoundAssumption ==
  {MaxOpens, MaxWrites, MaxHangs, MaxFailures} \subseteq Nat

Slots    == 1 .. NSlots
Sessions == 1 .. MaxOpens
Closers  == {"mqtt", "monitor"}   \* the threads that call shell_close

VARIABLES
  guest, alive, pid, inFd, outFd,  \* the table; 0 is "no pid", "no fd"
  rpc,        \* reader thread of each slot
  rsess,      \* session a reader was started for
  lock,       \* s_lock is held by a blocked writer
  tpc,        \* control state of the MQTT thread and of the monitor
  tsess,      \* pid held in a local variable by these threads
  target,     \* guest that shell_open is working on
  todo,       \* ids the monitor collected and has still to close
  child,      \* state of each ssh child
  idle,       \* slots without traffic for SHELL_IDLE_TIMEOUT
  closes,     \* how often each parent pipe end was closed
  up,         \* the process exists
  opens, writes, hangs, failures

table   == <<guest, alive, pid, inFd, outFd>>
readers == <<rpc, rsess>>
threads == <<tpc, tsess, target, todo>>
counts  == <<opens, writes, hangs, failures>>
vars    == <<table, readers, lock, threads, child, idle, closes, up, counts>>

Init == /\ guest = [k \in Slots |-> None] /\ alive = [k \in Slots |-> FALSE]
        /\ pid = [k \in Slots |-> 0]
        /\ inFd = [k \in Slots |-> 0] /\ outFd = [k \in Slots |-> 0]
        /\ rpc = [k \in Slots |-> "none"] /\ rsess = [k \in Slots |-> 0]
        /\ lock = FALSE
        /\ tpc = [t \in Closers |-> IF t = "mqtt" THEN "idle" ELSE "off"]
        /\ tsess = [t \in Closers |-> 0]
        /\ target = None /\ todo = {}
        /\ child = [s \in Sessions |-> "none"] /\ idle = {}
        /\ closes = [s \in Sessions |-> [in |-> 0, out |-> 0]]
        /\ up = TRUE
        /\ opens = 0 /\ writes = 0 /\ hangs = 0 /\ failures = 0

-----------------------------------------------------------------------------
Open(g) == {k \in Slots : alive[k] /\ guest[k] = g}

FreeIgnoringReader == {k \in Slots : ~alive[k]}
Free == {k \in Slots : ~alive[k] /\ guest[k] = None}

Kill(s) == child' = [child EXCEPT ![s] = "exited"]

Goto(t, label) == tpc' = [tpc EXCEPT ![t] = label]

(***************************************************************************)
(* shell_open, by the MQTT thread.                                         *)
(***************************************************************************)
OpenUnchecked(g) ==
  /\ up /\ ~lock /\ tpc["mqtt"] = "idle" /\ opens < MaxOpens
  /\ Goto("mqtt", "fork")
  /\ target' = g
  /\ UNCHANGED <<table, readers, lock, tsess, todo, child, idle, closes, up, counts>>

OpenCheck(g) == /\ up /\ ~lock /\ tpc["mqtt"] = "idle" /\ opens < MaxOpens
                /\ Open(g) = {}
                /\ Goto("mqtt", "fork")
                /\ target' = g
                /\ UNCHANGED <<table, readers, lock, tsess, todo, child, idle,
                               closes, up, counts>>

OpenFork == /\ up /\ tpc["mqtt"] = "fork"
            /\ Goto("mqtt", "slot")
            /\ opens' = opens + 1
            /\ tsess' = [tsess EXCEPT !["mqtt"] = opens']
            /\ child' = [child EXCEPT ![opens'] = "run"]
            /\ UNCHANGED <<table, readers, lock, target, todo, idle, closes,
                           up, writes, hangs, failures>>

OpenForkFails == /\ up /\ tpc["mqtt"] = "fork" /\ failures < MaxFailures
                 /\ failures' = failures + 1
                 /\ Goto("mqtt", "idle")
                 /\ UNCHANGED <<table, readers, lock, tsess, target, todo, child,
                                idle, closes, up, opens, writes, hangs>>

AbandonAlive(s) == /\ UNCHANGED child
                   /\ closes' = [closes EXCEPT ![s] = [in |-> @.in + 1, out |-> @.out + 1]]
                   /\ Goto("mqtt", "idle")
                   /\ tsess' = [tsess EXCEPT !["mqtt"] = 0]

(* The child is killed and both pipe ends closed: no slot, or no thread.   *)
Abandon(s) == /\ Kill(s)
              /\ closes' = [closes EXCEPT ![s] = [in |-> @.in + 1, out |-> @.out + 1]]
              /\ Goto("mqtt", "idle")
              /\ tsess' = [tsess EXCEPT !["mqtt"] = 0]

OpenNoSlot == /\ up /\ ~lock /\ tpc["mqtt"] = "slot" /\ Free = {}
              /\ Abandon(tsess["mqtt"])
              /\ UNCHANGED <<table, readers, lock, target, todo, idle, up, counts>>

FillSlot(k, s) == /\ pid' = [pid EXCEPT ![k] = s]
                  /\ inFd' = [inFd EXCEPT ![k] = s]
                  /\ outFd' = [outFd EXCEPT ![k] = s]
                  /\ idle' = idle \ {k}

FirstFree(k) == k \in Free /\ \A j \in Free : k <= j

OpenSlot == /\ up /\ ~lock /\ tpc["mqtt"] = "slot"
            /\ \E k \in Slots :
                 /\ FirstFree(k)
                 /\ FillSlot(k, tsess["mqtt"])
                 /\ alive' = [alive EXCEPT ![k] = TRUE]
                 /\ guest' = [guest EXCEPT ![k] = target]
                 /\ rpc' = [rpc EXCEPT ![k] = "read"]
                 /\ rsess' = [rsess EXCEPT ![k] = tsess["mqtt"]]
            /\ Goto("mqtt", "opened")
            /\ tsess' = [tsess EXCEPT !["mqtt"] = 0]
            /\ UNCHANGED <<lock, target, todo, child, closes, up, counts>>

(* pthread_create fails: the slot is given back with its old contents.     *)
OpenNoReader == /\ up /\ ~lock /\ tpc["mqtt"] = "slot"
                /\ failures < MaxFailures /\ failures' = failures + 1
                /\ \E k \in Slots : FirstFree(k) /\ FillSlot(k, tsess["mqtt"])
                /\ Abandon(tsess["mqtt"])
                /\ UNCHANGED <<guest, alive, readers, lock, target, todo, up, opens, writes, hangs>>

(* After the lock is released shell_opened is published and, once per      *)
(* process, the monitor is started.                                        *)
OpenMonitor ==
  /\ up /\ tpc["mqtt"] = "opened"
  /\ \/ tpc' = [tpc EXCEPT !["mqtt"] = "idle",
                           !["monitor"] = IF @ = "off" THEN "sleep" ELSE @]
        /\ UNCHANGED failures
     \/ /\ tpc["monitor"] = "off" /\ failures < MaxFailures
        /\ failures' = failures + 1 /\ Goto("mqtt", "idle")
  /\ UNCHANGED <<table, readers, lock, tsess, target, todo, child, idle,
                 closes, up, opens, writes, hangs>>

(***************************************************************************)
(* shell_write: the write to the pipe happens under the lock.              *)
(***************************************************************************)
WriteStart(g) == /\ up /\ ~lock /\ tpc["mqtt"] = "idle" /\ writes < MaxWrites
                 /\ \E k \in Open(g) :
                      /\ \A j \in Open(g) : k <= j
                      /\ tsess' = [tsess EXCEPT !["mqtt"] = inFd[k]]
                 /\ lock' = TRUE /\ writes' = writes + 1
                 /\ Goto("mqtt", "write")
                 /\ UNCHANGED <<table, readers, target, todo, child, idle, closes,
                                up, opens, hangs, failures>>

WriteDone == /\ up /\ tpc["mqtt"] = "write" /\ child[tsess["mqtt"]] = "run"
             /\ lock' = FALSE /\ Goto("mqtt", "idle")
             /\ idle' = idle \ {k \in Slots : inFd[k] = tsess["mqtt"]}
             /\ tsess' = [tsess EXCEPT !["mqtt"] = 0]
             /\ UNCHANGED <<table, readers, target, todo, child, closes, up, counts>>

(* Nobody reads the pipe any more and SIGPIPE has its default action.      *)
WriteSigpipe == /\ up /\ tpc["mqtt"] = "write" /\ child[tsess["mqtt"]] = "exited"
                /\ up' = FALSE
                /\ UNCHANGED <<table, readers, lock, threads, child, idle, closes,
                               counts>>

(***************************************************************************)
(* shell_close, by the MQTT thread or by the monitor.                      *)
(***************************************************************************)
TakeSession(t, g) ==
  \E k \in Open(g) :
    /\ \A j \in Open(g) : k <= j
    /\ alive' = [alive EXCEPT ![k] = FALSE]
    /\ tsess' = [tsess EXCEPT ![t] = pid[k]]
    /\ pid' = [pid EXCEPT ![k] = 0]
    /\ inFd' = [inFd EXCEPT ![k] = 0]
    /\ UNCHANGED <<guest, outFd>>

CloseMqtt(g) == /\ up /\ ~lock /\ tpc["mqtt"] = "idle"
                /\ TakeSession("mqtt", g) /\ Goto("mqtt", "term")
                /\ UNCHANGED <<readers, lock, target, todo, child, idle, closes,
                               up, counts>>

CloseTermLeaky(t) == /\ up /\ tpc[t] = "term"
                     /\ Goto(t, "kill")
                     /\ UNCHANGED <<table, readers, lock, tsess, target, todo, child,
                                    idle, closes, up, counts>>

(* close(in_fd) and SIGTERM: the child may exit from here on ...           *)
CloseTerm(t) == /\ up /\ tpc[t] = "term"
                /\ closes' = [closes EXCEPT ![tsess[t]].in = @ + 1]
                /\ Goto(t, "kill")
                /\ UNCHANGED <<table, readers, lock, tsess, target, todo, child,
                               idle, up, counts>>

CloseWaits(t) == /\ up /\ tpc[t] = "kill" /\ child[tsess[t]] = "exited"
                 /\ Goto(t, IF t = "mqtt" THEN "idle" ELSE "close")
                 /\ tsess' = [tsess EXCEPT ![t] = 0]
                 /\ UNCHANGED <<table, readers, lock, target, todo, child, idle,
                                closes, up, counts>>

(* ... and is killed after at most 50 polls, whether or not it did.        *)
CloseKill(t) == /\ up /\ tpc[t] = "kill" /\ Kill(tsess[t])
                /\ Goto(t, IF t = "mqtt" THEN "idle" ELSE "close")
                /\ tsess' = [tsess EXCEPT ![t] = 0]
                /\ UNCHANGED <<table, readers, lock, target, todo, idle, closes,
                               up, counts>>

(***************************************************************************)
(* The idle monitor: collect the ids under the lock, close them after it.  *)
(***************************************************************************)
MonitorScanNothing == /\ up /\ ~lock /\ tpc["monitor"] = "sleep"
                      /\ todo' = {}
                      /\ Goto("monitor", "close")
                      /\ UNCHANGED <<table, readers, lock, tsess, target, child, idle,
                                     closes, up, counts>>

MonitorScan == /\ up /\ ~lock /\ tpc["monitor"] = "sleep"
               /\ todo' = {guest[k] : k \in {j \in Slots : alive[j] /\ j \in idle}}
               /\ Goto("monitor", "close")
               /\ UNCHANGED <<table, readers, lock, tsess, target, child, idle,
                              closes, up, counts>>

MonitorClose(g) == /\ up /\ ~lock /\ tpc["monitor"] = "close" /\ g \in todo
                   /\ todo' = todo \ {g}
                   /\ IF Open(g) = {}
                      THEN UNCHANGED <<table, tpc, tsess>>
                      ELSE TakeSession("monitor", g) /\ Goto("monitor", "term")
                   /\ UNCHANGED <<readers, lock, target, child, idle, closes, up,
                                  counts>>

MonitorSleep == /\ up /\ tpc["monitor"] = "close" /\ todo = {}
                /\ Goto("monitor", "sleep")
                /\ UNCHANGED <<table, readers, lock, tsess, target, todo, child,
                               idle, closes, up, counts>>

(***************************************************************************)
(* shell_reader.                                                           *)
(***************************************************************************)
(* Output of the child: activity, and the next look at s->alive.           *)
ReaderData(k) == /\ up /\ rpc[k] = "read" /\ child[outFd[k]] # "exited"
                 /\ idle' = idle \ {k}
                 /\ rpc' = [rpc EXCEPT ![k] = IF alive[k] THEN "read" ELSE "end"]
                 /\ UNCHANGED <<table, rsess, lock, threads, child, closes, up, counts>>

ReaderEof(k) == /\ up /\ rpc[k] = "read" /\ child[outFd[k]] = "exited"
                /\ rpc' = [rpc EXCEPT ![k] = "end"]
                /\ UNCHANGED <<table, rsess, lock, threads, child, idle, closes,
                               up, counts>>

(* The loop is left: close what is still open, kill what is still there.   *)
ReaderEnd(k) ==
  /\ up /\ ~lock /\ rpc[k] = "end"
  /\ alive' = [alive EXCEPT ![k] = FALSE]
  /\ outFd' = [outFd EXCEPT ![k] = 0] /\ inFd' = [inFd EXCEPT ![k] = 0]
  /\ closes' = [s \in Sessions |->
                  [in  |-> closes[s].in + (IF s = inFd[k] THEN 1 ELSE 0),
                   out |-> closes[s].out + (IF s = outFd[k] THEN 1 ELSE 0)]]
  /\ IF pid[k] # 0 THEN Kill(pid[k]) ELSE UNCHANGED child
  /\ pid' = [pid EXCEPT ![k] = 0]
  /\ rpc' = [rpc EXCEPT ![k] = "free"]
  /\ UNCHANGED <<guest, rsess, lock, threads, idle, up, counts>>

ReaderKeeps(k) == /\ up /\ ~lock /\ rpc[k] = "free"
                  /\ rpc' = [rpc EXCEPT ![k] = "none"]
                  /\ rsess' = [rsess EXCEPT ![k] = 0]
                  /\ UNCHANGED <<table, lock, threads, child, idle, closes, up, counts>>

(* shell_closed is published from the slot, and then the slot given back.  *)
ReaderFree(k) == /\ up /\ ~lock /\ rpc[k] = "free"
                 /\ guest' = [guest EXCEPT ![k] = None]
                 /\ rpc' = [rpc EXCEPT ![k] = "none"]
                 /\ rsess' = [rsess EXCEPT ![k] = 0]
                 /\ UNCHANGED <<alive, pid, inFd, outFd, lock, threads, child, idle,
                                closes, up, counts>>

(***************************************************************************)
(* The ssh children and time.                                              *)
(***************************************************************************)
ChildExit(s) == /\ child[s] \in {"run", "hung"} /\ Kill(s)
                /\ UNCHANGED <<table, readers, lock, threads, idle, closes, up, counts>>

ChildHang(s) == /\ child[s] = "run" /\ hangs < MaxHangs
                /\ hangs' = hangs + 1
                /\ child' = [child EXCEPT ![s] = "hung"]
                /\ UNCHANGED <<table, readers, lock, threads, idle, closes, up, opens, writes, failures>>

BecomeIdle(k) == /\ up /\ alive[k] /\ k \notin idle
                 /\ idle' = idle \cup {k}
                 /\ UNCHANGED <<table, readers, lock, threads, child, closes, up, counts>>

-----------------------------------------------------------------------------
MqttStep == \/ OpenFork \/ OpenNoSlot \/ OpenSlot \/ OpenMonitor
            \/ WriteDone \/ WriteSigpipe \/ CloseTerm("mqtt") \/ CloseKill("mqtt")
MonitorStep == \/ MonitorScan \/ (\E g \in Guests : MonitorClose(g)) \/ MonitorSleep
               \/ CloseTerm("monitor") \/ CloseKill("monitor")
ReaderStep(k) == ReaderEof(k) \/ ReaderEnd(k) \/ ReaderFree(k)
Failure == OpenForkFails \/ OpenNoReader

Next == \/ MqttStep \/ MonitorStep \/ Failure
        \/ \E g \in Guests : OpenCheck(g) \/ WriteStart(g) \/ CloseMqtt(g)
        \/ \E k \in Slots : ReaderStep(k) \/ ReaderData(k) \/ BecomeIdle(k)
        \/ \E s \in Sessions : ChildExit(s) \/ ChildHang(s)

Spec == Init /\ [][Next]_vars

(* Every thread that is not waiting keeps running.  Nothing is assumed of  *)
(* the guests' operators, of the children or of ssh output.                *)
FairSpec == /\ Spec /\ WF_vars(MqttStep) /\ WF_vars(MonitorStep)
            /\ \A k \in Slots : WF_vars(ReaderStep(k))

-----------------------------------------------------------------------------
(* Every variable keeps its type.                                          *)
TypeOK ==
  /\ guest \in [Slots -> Guests \cup {None}] /\ alive \in [Slots -> BOOLEAN]
  /\ pid \in [Slots -> 0 .. MaxOpens]
  /\ inFd \in [Slots -> 0 .. MaxOpens] /\ outFd \in [Slots -> 0 .. MaxOpens]
  /\ rpc \in [Slots -> {"none", "read", "end", "free"}]
  /\ rsess \in [Slots -> 0 .. MaxOpens] /\ lock \in BOOLEAN
  /\ tpc \in [Closers -> {"off", "sleep", "close", "idle", "fork", "slot",
                          "opened", "write", "term", "kill"}]
  /\ tsess \in [Closers -> 0 .. MaxOpens]
  /\ target \in Guests \cup {None} /\ todo \in SUBSET Guests
  /\ child \in [Sessions -> {"none", "run", "hung", "exited"}]
  /\ idle \in SUBSET Slots
  /\ closes \in [Sessions -> [in : 0 .. 1, out : 0 .. 1]]
  /\ up \in BOOLEAN
  /\ opens \in 0 .. MaxOpens /\ writes \in 0 .. MaxWrites
  /\ hangs \in 0 .. MaxHangs /\ failures \in 0 .. MaxFailures

(* A guest has at most one live session, although shell_open releases the  *)
(* lock between looking for one and taking a slot.                         *)
OnePerGuest == \A j, k \in Slots : alive[j] /\ alive[k] /\ guest[j] = guest[k] => j = k

(* A slot is not handed out again while the reader of its last session is  *)
(* still working on it: what the reader reads, closes and kills through    *)
(* the slot is what it was started for.                                    *)
ReaderOwnsSlot ==
  \A k \in Slots : rpc[k] # "none" =>
    /\ guest[k] # None
    /\ {pid[k], inFd[k], outFd[k]} \subseteq {0, rsess[k]}
    /\ rpc[k] = "read" => outFd[k] = rsess[k]

Held(s) == \/ \E k \in Slots : guest[k] # None /\ pid[k] = s
           \/ \E t \in Closers : tsess[t] = s

(* An ssh child that still runs is within reach of a slot or of a thread   *)
(* about to end it: no failure path and no race loses one.                 *)
NoOrphan == \A s \in Sessions : child[s] \in {"run", "hung"} => Held(s)

Settled(s) == /\ child[s] = "exited" /\ \A t \in Closers : tsess[t] # s
              /\ \A k \in Slots : rpc[k] \in {"read", "end"} => rsess[k] # s

(* The parent's ends of both pipes are closed exactly once, whoever ends   *)
(* the session: neither leaked, nor closed a second time when the number   *)
(* may already belong to another file.                                     *)
PipesClosedOnce ==
  \A s \in Sessions : /\ closes[s].in <= 1 /\ closes[s].out <= 1
                      /\ Settled(s) => closes[s] = [in |-> 1, out |-> 1]

(* shell_write waits for a child that does not drain its stdin, with the   *)
(* table locked; or SIGPIPE has ended the service.                         *)
WriteBlocked == tpc["mqtt"] = "write" /\ child[tsess["mqtt"]] = "hung"
Stuck == ~up \/ WriteBlocked

(* A session that was closed gives its slot back, unless a write blocks    *)
(* the table.                                                              *)
SlotFreed ==
  \A k \in Slots : guest[k] # None /\ ~alive[k] ~> guest[k] = None \/ Stuck

(* Once the monitor runs, a session nobody uses is closed, unless a write  *)
(* blocks the table.                                                       *)
IdleReclaimed ==
  \A k \in Slots : alive[k] /\ k \in idle /\ tpc["monitor"] # "off"
                     ~> ~(alive[k] /\ k \in idle) \/ Stuck

(* Every command the MQTT thread started returns while the process lives,  *)
(* except a write to a child that does not drain its stdin: that is the    *)
(* one way to block the loop.                                              *)
CommandLoopRuns ==
  tpc["mqtt"] # "idle" ~> tpc["mqtt"] = "idle" \/ Stuck

(* The same without the exception, as the head of shell.c has it: the MQTT *)
(* command loop is never blocked.                                          *)
NeverBlocked ==
  tpc["mqtt"] # "idle" ~> tpc["mqtt"] = "idle" \/ ~up
=============================================================================
