------------------------ MODULE ShellSessionsProofs ------------------------
(***************************************************************************)
(* Proofs about the interactive shells, for any number of slots, guests,   *)
(* children, writes, hanging children and failing calls.                   *)
(***************************************************************************)
EXTENDS ShellSessions, TLAPS

MqttSteps    == {"idle", "fork", "slot", "opened", "write", "term", "kill"}
MonitorSteps == {"off", "sleep", "close", "term", "kill"}
Holding      == {"slot", "write", "term", "kill"}

Types ==
  /\ guest \in [Slots -> Guests \cup {None}] /\ alive \in [Slots -> BOOLEAN]
  /\ pid \in [Slots -> 0 .. MaxOpens]
  /\ inFd \in [Slots -> 0 .. MaxOpens] /\ outFd \in [Slots -> 0 .. MaxOpens]
  /\ rpc \in [Slots -> {"none", "read", "end", "free"}]
  /\ rsess \in [Slots -> 0 .. opens] /\ lock \in BOOLEAN
  /\ tpc \in [Closers -> MqttSteps \cup MonitorSteps]
  /\ tpc["mqtt"] \in MqttSteps /\ tpc["monitor"] \in MonitorSteps
  /\ tsess \in [Closers -> 0 .. opens]
  /\ target \in Guests \cup {None}
  /\ child \in [Sessions -> {"none", "run", "hung", "exited"}]
  /\ opens \in 0 .. MaxOpens

(* A thread has a session exactly where it works on one. *)
ThreadInv == /\ \A t \in Closers : tsess[t] # 0 <=> tpc[t] \in Holding
             /\ lock <=> tpc["mqtt"] = "write"
             /\ tpc["mqtt"] = "fork" => opens < MaxOpens
             /\ tpc["mqtt"] \in {"fork", "slot"} => target \in Guests

(* A slot belongs to the session of its reader until the reader is gone.   *)
SlotInv(k) ==
  /\ (guest[k] = None) <=> (rpc[k] = "none")
  /\ (rsess[k] = 0) <=> (rpc[k] = "none")
  /\ alive[k] => rpc[k] \in {"read", "end"}
  /\ rpc[k] \in {"read", "end"} => /\ outFd[k] = rsess[k]
                                   /\ pid[k] = IF alive[k] THEN rsess[k] ELSE 0
                                   /\ inFd[k] = IF alive[k] THEN rsess[k] ELSE 0
  /\ rpc[k] = "free" => pid[k] = 0 /\ inFd[k] = 0 /\ outFd[k] = 0

(* No two slots and no two threads have the same session; a thread and a   *)
(* slot share one only while the thread writes to it or closes it.         *)
UniqueInv ==
  /\ \A j, k \in Slots : rsess[j] = rsess[k] /\ rsess[j] # 0 => j = k
  /\ \A t, u \in Closers : tsess[t] = tsess[u] /\ tsess[t] # 0 => t = u
  /\ \A t \in Closers, k \in Slots : tsess[t] # 0 /\ rsess[k] = tsess[t] =>
       tpc[t] # "slot" /\ (tpc[t] = "write" <=> alive[k])
  /\ tpc["mqtt"] = "write" => \E k \in Slots : rsess[k] = tsess["mqtt"]

(* The variables these parts are about. *)
ownVars == <<table, readers, lock, tpc, tsess, target, child, opens>>

OwnInv == Types /\ ThreadInv /\ (\A k \in Slots : SlotInv(k)) /\ UniqueInv

(* The guest shell_open is working on has no session. *)
TargetInv == /\ tpc["mqtt"] \in {"fork", "slot"} => \A k \in Slots : alive[k] => guest[k] # target
             /\ OnePerGuest

(* Who is to close the parent's ends of the pipes of s. *)
InOpen(s)  == \/ \E k \in Slots : alive[k] /\ rsess[k] = s
              \/ \E t \in Closers : tpc[t] \in {"slot", "term"} /\ tsess[t] = s
OutOpen(s) == \/ \E k \in Slots : rpc[k] \in {"read", "end"} /\ rsess[k] = s
              \/ tpc["mqtt"] = "slot" /\ tsess["mqtt"] = s

Ends == [in : Nat, out : Nat]

PipeInv ==
  /\ closes \in [Sessions -> Ends]
  /\ \A s \in Sessions : /\ closes[s].in = IF s <= opens /\ ~InOpen(s) THEN 1 ELSE 0
                         /\ closes[s].out = IF s <= opens /\ ~OutOpen(s) THEN 1 ELSE 0

(* Who is to end the child of s. *)
Owned(s) == \/ \E k \in Slots : alive[k] /\ rsess[k] = s
            \/ \E t \in Closers : tsess[t] = s

ChildInv == \A s \in Sessions : /\ s > opens => child[s] = "none"
                                /\ child[s] \in {"run", "hung"} => Owned(s)
-----------------------------------------------------------------------------
USE DEF Closers, Holding, MqttSteps, MonitorSteps

(* The constants: slots and sessions are numbered from 1.                  *)
LEMMA OwnFacts == /\ MaxOpens \in Nat /\ NSlots \in Nat /\ None \notin Guests
                  /\ Slots \subseteq Nat /\ 0 \notin Slots
                  /\ Sessions \subseteq Nat /\ 0 \notin Sessions
                  /\ \A s : s \in Sessions <=> s \in Nat /\ s # 0 /\ s <= MaxOpens
  BY SlotAssumption, ShellBoundAssumption DEF Slots, Sessions

LEMMA InitOwn == Init => OwnInv
  <1> SUFFICES ASSUME Init PROVE OwnInv
    OBVIOUS
  <1> USE OwnFacts DEF Init
  <1>1. Types
    <2>1. tpc \in [Closers -> MqttSteps \cup MonitorSteps]
      OBVIOUS
    <2>2. tpc["mqtt"] \in MqttSteps /\ tpc["monitor"] \in MonitorSteps
      OBVIOUS
    <2>3. lock \in BOOLEAN /\ alive \in [Slots -> BOOLEAN]
      OBVIOUS
    <2>4. rpc \in [Slots -> {"none", "read", "end", "free"}] /\ rsess \in [Slots -> 0 .. opens]
      OBVIOUS
    <2> HIDE DEF MqttSteps, MonitorSteps
    <2> QED
      BY <2>1, <2>2, <2>3, <2>4 DEF Types
  <1>2. ThreadInv
    BY DEF ThreadInv
  <1>3. \A k \in Slots : SlotInv(k)
    BY DEF SlotInv
  <1>4. UniqueInv
    BY DEF UniqueInv
  <1> QED
    BY <1>1, <1>2, <1>3, <1>4 DEF OwnInv

(* OwnInv is a predicate of ownVars alone.  Below, each action preserves it. *)
LEMMA UnchangedOwn == ASSUME OwnInv, UNCHANGED ownVars PROVE OwnInv'
  <1> USE OwnFacts DEF ownVars, table, readers, threads, counts, OwnInv, Types, ThreadInv
  <1>1. Types'
    OBVIOUS
  <1>2. ThreadInv'
    OBVIOUS
  <1>3. \A k \in Slots : SlotInv(k)'
    BY DEF SlotInv
  <1>4. UniqueInv'
    BY DEF SlotInv, UniqueInv
  <1> QED
    BY <1>1, <1>2, <1>3, <1>4 DEF OwnInv

LEMMA OpenCheckOwn == ASSUME OwnInv, NEW g \in Guests, OpenCheck(g) PROVE OwnInv'
  <1> USE OwnFacts DEF OpenCheck, Open, Goto, table, readers, threads, counts, OwnInv, Types,
          ThreadInv
  <1>1. Types'
    OBVIOUS
  <1>2. ThreadInv'
    OBVIOUS
  <1>3. \A k \in Slots : SlotInv(k)'
    BY DEF SlotInv
  <1>4. UniqueInv'
    BY DEF SlotInv, UniqueInv
  <1> QED
    BY <1>1, <1>2, <1>3, <1>4 DEF OwnInv

LEMMA OpenForkOwn == ASSUME OwnInv, OpenFork PROVE OwnInv'
  <1> USE OwnFacts DEF OpenFork, Goto, table, readers, threads, counts, OwnInv, Types, ThreadInv
  <1>1. Types'
    OBVIOUS
  <1>2. ThreadInv'
    OBVIOUS
  <1>3. \A k \in Slots : SlotInv(k)'
    BY DEF SlotInv
  <1>4. UniqueInv'
    BY DEF SlotInv, UniqueInv
  <1> QED
    BY <1>1, <1>2, <1>3, <1>4 DEF OwnInv

LEMMA OpenForkFailsOwn == ASSUME OwnInv, OpenForkFails PROVE OwnInv'
  <1> USE OwnFacts DEF OpenForkFails, Goto, table, readers, threads, counts, OwnInv, Types,
          ThreadInv
  <1>1. Types'
    OBVIOUS
  <1>2. ThreadInv'
    OBVIOUS
  <1>3. \A k \in Slots : SlotInv(k)'
    BY DEF SlotInv
  <1>4. UniqueInv'
    BY DEF SlotInv, UniqueInv
  <1> QED
    BY <1>1, <1>2, <1>3, <1>4 DEF OwnInv

LEMMA OpenNoSlotOwn == ASSUME OwnInv, OpenNoSlot PROVE OwnInv'
  <1> USE OwnFacts DEF OpenNoSlot, Abandon, Kill, Goto, table, readers, threads, counts, OwnInv,
          Types, ThreadInv
  <1>1. Types'
    OBVIOUS
  <1>2. ThreadInv'
    OBVIOUS
  <1>3. \A k \in Slots : SlotInv(k)'
    BY DEF SlotInv
  <1>4. UniqueInv'
    BY DEF SlotInv, UniqueInv
  <1> QED
    BY <1>1, <1>2, <1>3, <1>4 DEF OwnInv

LEMMA OpenSlotOwn == ASSUME OwnInv, OpenSlot PROVE OwnInv'
  <1> USE OwnFacts DEF OpenSlot, Goto, OwnInv, Types, ThreadInv
  <1>0. PICK k \in Slots : /\ FirstFree(k) /\ FillSlot(k, tsess["mqtt"])
                           /\ alive' = [alive EXCEPT ![k] = TRUE]
                           /\ guest' = [guest EXCEPT ![k] = target]
                           /\ rpc' = [rpc EXCEPT ![k] = "read"]
                           /\ rsess' = [rsess EXCEPT ![k] = tsess["mqtt"]]
    OBVIOUS
  <1> USE <1>0 DEF FirstFree, Free, FillSlot
  <1>1. Types'
    BY DEF counts
  <1>2. ThreadInv'
    BY DEF counts
  <1>3. ASSUME NEW j \in Slots PROVE SlotInv(j)'
    <2>1. CASE j = k
      BY <2>1 DEF SlotInv
    <2>2. CASE j # k
      BY <2>2 DEF SlotInv
    <2> QED
      BY <2>1, <2>2
  <1>4. UniqueInv'
    BY DEF SlotInv, UniqueInv
  <1> QED
    BY <1>1, <1>2, <1>3, <1>4 DEF OwnInv

LEMMA OpenNoReaderOwn == ASSUME OwnInv, OpenNoReader PROVE OwnInv'
  <1> USE OwnFacts DEF OpenNoReader, Abandon, Kill, Goto, readers, OwnInv, Types, ThreadInv
  <1>0. PICK k \in Slots : FirstFree(k) /\ FillSlot(k, tsess["mqtt"])
    OBVIOUS
  <1> USE <1>0 DEF FirstFree, Free, FillSlot
  <1>1. Types'
    OBVIOUS
  <1>2. ThreadInv'
    OBVIOUS
  <1>3. ASSUME NEW j \in Slots PROVE SlotInv(j)'
    <2>1. CASE j = k
      BY <2>1 DEF SlotInv
    <2>2. CASE j # k
      BY <2>2 DEF SlotInv
    <2> QED
      BY <2>1, <2>2
  <1>4. UniqueInv'
    BY DEF SlotInv, UniqueInv
  <1> QED
    BY <1>1, <1>2, <1>3, <1>4 DEF OwnInv

LEMMA OpenMonitorOwn == ASSUME OwnInv, OpenMonitor PROVE OwnInv'
  <1> USE OwnFacts DEF OpenMonitor, Goto, table, readers, threads, counts, OwnInv, Types,
          ThreadInv
  <1>1. Types'
    OBVIOUS
  <1>2. ThreadInv'
    OBVIOUS
  <1>3. \A k \in Slots : SlotInv(k)'
    BY DEF SlotInv
  <1>4. UniqueInv'
    BY DEF SlotInv, UniqueInv
  <1> QED
    BY <1>1, <1>2, <1>3, <1>4 DEF OwnInv

LEMMA WriteStartOwn == ASSUME OwnInv, NEW g \in Guests, WriteStart(g) PROVE OwnInv'
  <1> USE OwnFacts DEF WriteStart, Goto, table, readers, OwnInv, Types, ThreadInv
  <1>0. PICK k \in Slots : /\ alive[k] /\ guest[k] = g
                           /\ tsess' = [tsess EXCEPT !["mqtt"] = inFd[k]]
    BY DEF Open
  <1>1. inFd[k] = rsess[k] /\ rsess[k] # 0 /\ rsess[k] \in 0 .. opens
    BY <1>0 DEF SlotInv
  <1>2. Types'
    BY <1>0, <1>1
  <1>3. ThreadInv'
    BY <1>0, <1>1
  <1>4. \A j \in Slots : SlotInv(j)'
    BY DEF SlotInv
  <1>5. UniqueInv'
    BY <1>0, <1>1 DEF SlotInv, UniqueInv
  <1> QED
    BY <1>2, <1>3, <1>4, <1>5 DEF OwnInv

LEMMA WriteDoneOwn == ASSUME OwnInv, WriteDone PROVE OwnInv'
  <1> USE OwnFacts DEF WriteDone, Goto, table, readers, threads, counts, OwnInv, Types, ThreadInv
  <1>1. Types'
    <2>1. tsess' \in [Closers -> 0 .. opens] /\ tpc' \in [Closers -> MqttSteps \cup MonitorSteps]
      OBVIOUS
    <2>2. tpc'["mqtt"] \in MqttSteps /\ tpc'["monitor"] \in MonitorSteps
      OBVIOUS
    <2>3. lock' \in BOOLEAN
      OBVIOUS
    <2> HIDE DEF ThreadInv, MqttSteps, MonitorSteps
    <2> QED
      BY <2>1, <2>2, <2>3
  <1>2. ThreadInv'
    OBVIOUS
  <1>3. \A k \in Slots : SlotInv(k)'
    BY DEF SlotInv
  <1>4. UniqueInv'
    BY DEF SlotInv, UniqueInv
  <1> QED
    BY <1>1, <1>2, <1>3, <1>4 DEF OwnInv

LEMMA WriteSigpipeOwn == ASSUME OwnInv, WriteSigpipe PROVE OwnInv'
  <1> USE OwnFacts DEF WriteSigpipe, table, readers, threads, counts, OwnInv, Types, ThreadInv
  <1>1. Types'
    OBVIOUS
  <1>2. ThreadInv'
    OBVIOUS
  <1>3. \A k \in Slots : SlotInv(k)'
    BY DEF SlotInv
  <1>4. UniqueInv'
    BY DEF SlotInv, UniqueInv
  <1> QED
    BY <1>1, <1>2, <1>3, <1>4 DEF OwnInv

(* What shell_close takes out of the table, for either of its threads.     *)
LEMMA TakeOwn ==
  ASSUME OwnInv, NEW t \in Closers, NEW g \in Guests, TakeSession(t, g), Goto(t, "term"),
         t = "mqtt" => tpc["mqtt"] = "idle", t = "monitor" => tpc["monitor"] = "close",
         ~lock, UNCHANGED <<readers, lock, target, child, opens>>
  PROVE  OwnInv'
  <1> USE OwnFacts DEF Goto, readers, OwnInv, Types, ThreadInv
  <1>0. PICK k \in Slots : /\ alive[k] /\ guest[k] = g
                           /\ alive' = [alive EXCEPT ![k] = FALSE]
                           /\ tsess' = [tsess EXCEPT ![t] = pid[k]]
                           /\ pid' = [pid EXCEPT ![k] = 0]
                           /\ inFd' = [inFd EXCEPT ![k] = 0]
                           /\ UNCHANGED <<guest, outFd>>
    BY DEF Open, TakeSession
  <1>1. pid[k] = rsess[k] /\ rsess[k] # 0 /\ rsess[k] \in 0 .. opens
    BY <1>0 DEF SlotInv
  <1>2. Types'
    BY <1>0, <1>1
  <1>3. ThreadInv'
    BY <1>0, <1>1
  <1>4. ASSUME NEW j \in Slots PROVE SlotInv(j)'
    BY <1>0 DEF SlotInv
  <1>5. UniqueInv'
    BY <1>0, <1>1 DEF SlotInv, UniqueInv
  <1> QED
    BY <1>2, <1>3, <1>4, <1>5 DEF OwnInv

LEMMA CloseMqttOwn == ASSUME OwnInv, NEW g \in Guests, CloseMqtt(g) PROVE OwnInv'
  BY TakeOwn DEF CloseMqtt, counts, Closers

LEMMA CloseTermOwn == ASSUME OwnInv, NEW t \in Closers, CloseTerm(t) PROVE OwnInv'
  <1> USE OwnFacts DEF CloseTerm, Goto, table, readers, threads, counts, OwnInv, Types, ThreadInv
  <1>1. Types'
    OBVIOUS
  <1>2. ThreadInv'
    OBVIOUS
  <1>3. \A k \in Slots : SlotInv(k)'
    BY DEF SlotInv
  <1>4. UniqueInv'
    BY DEF SlotInv, UniqueInv
  <1> QED
    BY <1>1, <1>2, <1>3, <1>4 DEF OwnInv

LEMMA CloseKillOwn == ASSUME OwnInv, NEW t \in Closers, CloseKill(t) PROVE OwnInv'
  <1> USE OwnFacts DEF CloseKill, Kill, Goto, table, readers, threads, counts, OwnInv, Types,
          ThreadInv
  <1>1. Types'
    OBVIOUS
  <1>2. ThreadInv'
    OBVIOUS
  <1>3. \A k \in Slots : SlotInv(k)'
    BY DEF SlotInv
  <1>4. UniqueInv'
    BY DEF SlotInv, UniqueInv
  <1> QED
    BY <1>1, <1>2, <1>3, <1>4 DEF OwnInv

LEMMA MonitorScanOwn == ASSUME OwnInv, MonitorScan PROVE OwnInv'
  <1> USE OwnFacts DEF MonitorScan, Goto, table, readers, threads, counts, OwnInv, Types,
          ThreadInv
  <1>1. Types'
    OBVIOUS
  <1>2. ThreadInv'
    OBVIOUS
  <1>3. \A k \in Slots : SlotInv(k)'
    BY DEF SlotInv
  <1>4. UniqueInv'
    BY DEF SlotInv, UniqueInv
  <1> QED
    BY <1>1, <1>2, <1>3, <1>4 DEF OwnInv

LEMMA MonitorCloseOwn == ASSUME OwnInv, NEW g \in Guests, MonitorClose(g) PROVE OwnInv'
  <1>1. CASE Open(g) = {}
    BY <1>1, UnchangedOwn DEF MonitorClose, ownVars, table, counts
  <1>2. CASE Open(g) # {}
    BY <1>2, TakeOwn DEF MonitorClose, counts
  <1> QED
    BY <1>1, <1>2

LEMMA MonitorSleepOwn == ASSUME OwnInv, MonitorSleep PROVE OwnInv'
  <1> USE OwnFacts DEF MonitorSleep, Goto, table, readers, threads, counts, OwnInv, Types,
          ThreadInv
  <1>1. Types'
    OBVIOUS
  <1>2. ThreadInv'
    OBVIOUS
  <1>3. \A k \in Slots : SlotInv(k)'
    BY DEF SlotInv
  <1>4. UniqueInv'
    BY DEF SlotInv, UniqueInv
  <1> QED
    BY <1>1, <1>2, <1>3, <1>4 DEF OwnInv

LEMMA ReaderDataOwn == ASSUME OwnInv, NEW k \in Slots, ReaderData(k) PROVE OwnInv'
  <1> USE OwnFacts DEF ReaderData, table, readers, threads, counts, OwnInv, Types, ThreadInv
  <1>1. Types'
    OBVIOUS
  <1>2. ThreadInv'
    OBVIOUS
  <1>3. \A j \in Slots : SlotInv(j)'
    BY DEF SlotInv
  <1>4. UniqueInv'
    BY DEF SlotInv, UniqueInv
  <1> QED
    BY <1>1, <1>2, <1>3, <1>4 DEF OwnInv

LEMMA ReaderEofOwn == ASSUME OwnInv, NEW k \in Slots, ReaderEof(k) PROVE OwnInv'
  <1> USE OwnFacts DEF ReaderEof, table, readers, threads, counts, OwnInv, Types, ThreadInv
  <1>1. Types'
    OBVIOUS
  <1>2. ThreadInv'
    OBVIOUS
  <1>3. \A j \in Slots : SlotInv(j)'
    BY DEF SlotInv
  <1>4. UniqueInv'
    BY DEF SlotInv, UniqueInv
  <1> QED
    BY <1>1, <1>2, <1>3, <1>4 DEF OwnInv

LEMMA ReaderEndOwn == ASSUME OwnInv, NEW k \in Slots, ReaderEnd(k) PROVE OwnInv'
  <1> USE OwnFacts DEF ReaderEnd, Kill, table, readers, threads, counts, OwnInv, Types, ThreadInv
  <1>1. Types'
    OBVIOUS
  <1>2. ThreadInv'
    OBVIOUS
  <1>3. \A j \in Slots : SlotInv(j)'
    BY DEF SlotInv
  <1>4. UniqueInv'
    BY DEF SlotInv, UniqueInv
  <1> QED
    BY <1>1, <1>2, <1>3, <1>4 DEF OwnInv

LEMMA ReaderFreeOwn == ASSUME OwnInv, NEW k \in Slots, ReaderFree(k) PROVE OwnInv'
  <1> USE OwnFacts DEF ReaderFree, table, readers, threads, counts, OwnInv, Types, ThreadInv
  <1>1. Types'
    OBVIOUS
  <1>2. ThreadInv'
    OBVIOUS
  <1>3. \A j \in Slots : SlotInv(j)'
    BY DEF SlotInv
  <1>4. UniqueInv'
    BY DEF SlotInv, UniqueInv
  <1> QED
    BY <1>1, <1>2, <1>3, <1>4 DEF OwnInv

LEMMA ChildExitOwn == ASSUME OwnInv, NEW s \in Sessions, ChildExit(s) PROVE OwnInv'
  <1> USE OwnFacts DEF ChildExit, Kill, table, readers, threads, counts, OwnInv, Types, ThreadInv
  <1>1. Types'
    OBVIOUS
  <1>2. ThreadInv'
    OBVIOUS
  <1>3. \A k \in Slots : SlotInv(k)'
    BY DEF SlotInv
  <1>4. UniqueInv'
    BY DEF SlotInv, UniqueInv
  <1> QED
    BY <1>1, <1>2, <1>3, <1>4 DEF OwnInv

LEMMA ChildHangOwn == ASSUME OwnInv, NEW s \in Sessions, ChildHang(s) PROVE OwnInv'
  <1> USE OwnFacts DEF ChildHang, table, readers, threads, counts, OwnInv, Types, ThreadInv
  <1>1. Types'
    OBVIOUS
  <1>2. ThreadInv'
    OBVIOUS
  <1>3. \A k \in Slots : SlotInv(k)'
    BY DEF SlotInv
  <1>4. UniqueInv'
    BY DEF SlotInv, UniqueInv
  <1> QED
    BY <1>1, <1>2, <1>3, <1>4 DEF OwnInv

LEMMA BecomeIdleOwn == ASSUME OwnInv, NEW k \in Slots, BecomeIdle(k) PROVE OwnInv'
  <1> USE OwnFacts DEF BecomeIdle, table, readers, threads, counts, OwnInv, Types, ThreadInv
  <1>1. Types'
    OBVIOUS
  <1>2. ThreadInv'
    OBVIOUS
  <1>3. \A n \in Slots : SlotInv(n)'
    BY DEF SlotInv
  <1>4. UniqueInv'
    BY DEF SlotInv, UniqueInv
  <1> QED
    BY <1>1, <1>2, <1>3, <1>4 DEF OwnInv

LEMMA NextOwn == ASSUME OwnInv, [Next]_vars PROVE OwnInv'
  <1>1. CASE MqttStep \/ MonitorStep \/ Failure
    BY <1>1, OpenForkOwn, OpenForkFailsOwn, OpenNoSlotOwn, OpenSlotOwn, OpenNoReaderOwn,
       OpenMonitorOwn, WriteDoneOwn, WriteSigpipeOwn, CloseTermOwn, CloseKillOwn,
       MonitorScanOwn, MonitorCloseOwn, MonitorSleepOwn DEF MqttStep, MonitorStep, Failure
  <1>2. CASE \E g \in Guests : OpenCheck(g) \/ WriteStart(g) \/ CloseMqtt(g)
    BY <1>2, OpenCheckOwn, WriteStartOwn, CloseMqttOwn
  <1>3. CASE \E k \in Slots : ReaderStep(k) \/ ReaderData(k) \/ BecomeIdle(k)
    BY <1>3, BecomeIdleOwn, ReaderDataOwn, ReaderEofOwn, ReaderEndOwn, ReaderFreeOwn
    DEF ReaderStep
  <1>4. CASE \E s \in Sessions : ChildExit(s) \/ ChildHang(s)
    BY <1>4, ChildExitOwn, ChildHangOwn
  <1>5. CASE UNCHANGED vars
    BY <1>5, UnchangedOwn DEF vars, ownVars, threads, counts
  <1> QED
    BY <1>1, <1>2, <1>3, <1>4, <1>5 DEF Next

LEMMA OwnInductive == Spec => []OwnInv
  BY InitOwn, NextOwn, PTL DEF Spec

(* Only the MQTT thread gives a slot to a guest, so the search of shell_open *)
(* still holds when it takes the slot.                                     *)
LEMMA NextTarget == ASSUME OwnInv, TargetInv, [Next]_vars PROVE TargetInv'
  <1> USE OwnFacts DEF Goto, table, readers, threads, counts, OwnInv, Types, ThreadInv,
          TargetInv, OnePerGuest
  <1>1. CASE OpenFork
    BY <1>1 DEF OpenFork
  <1>2. CASE OpenForkFails
    BY <1>2 DEF OpenForkFails
  <1>3. CASE OpenNoSlot
    BY <1>3 DEF OpenNoSlot, Abandon, Kill
  <1>4. CASE OpenSlot
    BY <1>4 DEF OpenSlot, FirstFree, Free, FillSlot
  <1>5. CASE OpenNoReader
    BY <1>5 DEF OpenNoReader, Abandon, Kill, FirstFree, Free, FillSlot
  <1>6. CASE OpenMonitor
    BY <1>6 DEF OpenMonitor
  <1>7. CASE WriteDone
    BY <1>7 DEF WriteDone
  <1>8. CASE WriteSigpipe
    BY <1>8 DEF WriteSigpipe
  <1>9. CASE MonitorScan
    BY <1>9 DEF MonitorScan
  <1>10. CASE MonitorSleep
    BY <1>10 DEF MonitorSleep
  <1>11. ASSUME NEW g \in Guests, OpenCheck(g) PROVE TargetInv'
    BY <1>11 DEF OpenCheck, Open
  <1>12. ASSUME NEW g \in Guests, WriteStart(g) PROVE TargetInv'
    BY <1>12 DEF WriteStart, Open
  <1>13. ASSUME NEW g \in Guests, CloseMqtt(g) PROVE TargetInv'
    BY <1>13 DEF CloseMqtt, TakeSession, Open
  <1>14. ASSUME NEW g \in Guests, MonitorClose(g) PROVE TargetInv'
    BY <1>14 DEF MonitorClose, TakeSession, Open
  <1>15. ASSUME NEW t \in Closers, CloseTerm(t) PROVE TargetInv'
    BY <1>15 DEF CloseTerm
  <1>16. ASSUME NEW t \in Closers, CloseKill(t) PROVE TargetInv'
    BY <1>16 DEF CloseKill, Kill
  <1>17. ASSUME NEW k \in Slots, ReaderData(k) PROVE TargetInv'
    BY <1>17 DEF ReaderData
  <1>18. ASSUME NEW k \in Slots, ReaderEof(k) PROVE TargetInv'
    BY <1>18 DEF ReaderEof
  <1>19. ASSUME NEW k \in Slots, ReaderEnd(k) PROVE TargetInv'
    BY <1>19 DEF ReaderEnd, Kill
  <1>20. ASSUME NEW k \in Slots, ReaderFree(k) PROVE TargetInv'
    BY <1>20 DEF ReaderFree, SlotInv
  <1>21. ASSUME NEW s \in Sessions, ChildExit(s) PROVE TargetInv'
    BY <1>21 DEF ChildExit, Kill
  <1>22. ASSUME NEW s \in Sessions, ChildHang(s) PROVE TargetInv'
    BY <1>22 DEF ChildHang
  <1>23. ASSUME NEW k \in Slots, BecomeIdle(k) PROVE TargetInv'
    BY <1>23 DEF BecomeIdle
  <1>24. CASE UNCHANGED vars
    BY <1>24 DEF vars
  <1> HIDE DEF TargetInv, OwnInv
  <1> QED
    BY <1>1, <1>2, <1>3, <1>4, <1>5, <1>6, <1>7, <1>8, <1>9, <1>10, <1>11, <1>12, <1>13, <1>14,
       <1>15, <1>16, <1>17, <1>18, <1>19, <1>20, <1>21, <1>22, <1>23, <1>24
    DEF Next, MqttStep, MonitorStep, Failure, ReaderStep

(* Every step that drops a session ends its child or hands it to another   *)
(* thread that will.                                                       *)
LEMMA NextChild == ASSUME OwnInv, ChildInv, [Next]_vars PROVE ChildInv'
  <1> USE OwnFacts DEF Goto, table, readers, threads, counts, OwnInv, Types, ThreadInv, SlotInv,
          UniqueInv, ChildInv, Owned
  <1>1. CASE OpenFork
    BY <1>1 DEF OpenFork
  <1>2. CASE OpenForkFails
    BY <1>2 DEF OpenForkFails
  <1>3. CASE OpenNoSlot
    BY <1>3 DEF OpenNoSlot, Abandon, Kill
  <1>4. CASE OpenSlot
    BY <1>4 DEF OpenSlot, FirstFree, Free, FillSlot
  <1>5. CASE OpenNoReader
    BY <1>5 DEF OpenNoReader, Abandon, Kill, FirstFree, Free, FillSlot
  <1>6. CASE OpenMonitor
    BY <1>6 DEF OpenMonitor
  <1>7. CASE WriteDone
    BY <1>7 DEF WriteDone
  <1>8. CASE WriteSigpipe
    BY <1>8 DEF WriteSigpipe
  <1>9. CASE MonitorScan
    BY <1>9 DEF MonitorScan
  <1>10. CASE MonitorSleep
    BY <1>10 DEF MonitorSleep
  <1>11. ASSUME NEW g \in Guests, OpenCheck(g) PROVE ChildInv'
    BY <1>11 DEF OpenCheck, Open
  <1>12. ASSUME NEW g \in Guests, WriteStart(g) PROVE ChildInv'
    BY <1>12 DEF WriteStart, Open
  <1>13. ASSUME NEW g \in Guests, CloseMqtt(g) PROVE ChildInv'
    BY <1>13 DEF CloseMqtt, TakeSession, Open
  <1>14. ASSUME NEW g \in Guests, MonitorClose(g) PROVE ChildInv'
    BY <1>14 DEF MonitorClose, TakeSession, Open
  <1>15. ASSUME NEW t \in Closers, CloseTerm(t) PROVE ChildInv'
    BY <1>15 DEF CloseTerm
  <1>16. ASSUME NEW t \in Closers, CloseKill(t) PROVE ChildInv'
    BY <1>16 DEF CloseKill, Kill
  <1>17. ASSUME NEW k \in Slots, ReaderData(k) PROVE ChildInv'
    BY <1>17 DEF ReaderData
  <1>18. ASSUME NEW k \in Slots, ReaderEof(k) PROVE ChildInv'
    BY <1>18 DEF ReaderEof
  <1>19. ASSUME NEW k \in Slots, ReaderEnd(k) PROVE ChildInv'
    BY <1>19 DEF ReaderEnd, Kill
  <1>20. ASSUME NEW k \in Slots, ReaderFree(k) PROVE ChildInv'
    BY <1>20 DEF ReaderFree
  <1>21. ASSUME NEW s \in Sessions, ChildExit(s) PROVE ChildInv'
    BY <1>21 DEF ChildExit, Kill
  <1>22. ASSUME NEW s \in Sessions, ChildHang(s) PROVE ChildInv'
    BY <1>22 DEF ChildHang
  <1>23. ASSUME NEW k \in Slots, BecomeIdle(k) PROVE ChildInv'
    BY <1>23 DEF BecomeIdle
  <1>24. CASE UNCHANGED vars
    BY <1>24 DEF vars
  <1> HIDE DEF ChildInv, OwnInv
  <1> QED
    BY <1>1, <1>2, <1>3, <1>4, <1>5, <1>6, <1>7, <1>8, <1>9, <1>10, <1>11, <1>12, <1>13, <1>14,
       <1>15, <1>16, <1>17, <1>18, <1>19, <1>20, <1>21, <1>22, <1>23, <1>24
    DEF Next, MqttStep, MonitorStep, Failure, ReaderStep

(* Steps after which the same pipe ends are to be closed, and none was. *)
SameEnds == /\ UNCHANGED <<closes, opens>>
            /\ \A s \in Sessions : (InOpen(s)' <=> InOpen(s)) /\ (OutOpen(s)' <=> OutOpen(s))

(* Such a step leaves the count of closed ends right.                      *)
LEMMA SameEndsPipe == ASSUME PipeInv, SameEnds PROVE PipeInv'
  BY DEF PipeInv, SameEnds

QuietStep ==
  \/ OpenForkFails \/ OpenSlot \/ OpenMonitor \/ WriteDone \/ WriteSigpipe
  \/ MonitorScan \/ MonitorSleep
  \/ \E g \in Guests : OpenCheck(g) \/ WriteStart(g) \/ CloseMqtt(g) \/ MonitorClose(g)
  \/ \E t \in Closers : CloseKill(t)
  \/ \E k \in Slots : ReaderData(k) \/ ReaderEof(k) \/ ReaderFree(k) \/ BecomeIdle(k)
  \/ \E s \in Sessions : ChildExit(s) \/ ChildHang(s)
  \/ UNCHANGED vars

LEMMA QuietSteps == ASSUME OwnInv, QuietStep PROVE SameEnds
  <1> USE OwnFacts DEF Goto, table, readers, threads, counts, OwnInv, Types, ThreadInv, SlotInv,
          UniqueInv,
          SameEnds, InOpen, OutOpen
  <1>1. CASE OpenForkFails
    BY <1>1 DEF OpenForkFails
  <1>2. CASE OpenSlot
    BY <1>2 DEF OpenSlot, FirstFree, Free, FillSlot
  <1>3. CASE OpenMonitor
    BY <1>3 DEF OpenMonitor
  <1>4. CASE WriteDone
    BY <1>4 DEF WriteDone
  <1>5. CASE WriteSigpipe
    BY <1>5 DEF WriteSigpipe
  <1>6. CASE MonitorScan
    BY <1>6 DEF MonitorScan
  <1>7. CASE MonitorSleep
    BY <1>7 DEF MonitorSleep
  <1>8. ASSUME NEW g \in Guests, OpenCheck(g) PROVE SameEnds
    BY <1>8 DEF OpenCheck, Open
  <1>9. ASSUME NEW g \in Guests, WriteStart(g) PROVE SameEnds
    BY <1>9 DEF WriteStart, Open
  <1>10. ASSUME NEW g \in Guests, CloseMqtt(g) PROVE SameEnds
    BY <1>10 DEF CloseMqtt, TakeSession, Open
  <1>11. ASSUME NEW g \in Guests, MonitorClose(g) PROVE SameEnds
    BY <1>11 DEF MonitorClose, TakeSession, Open
  <1>12. ASSUME NEW t \in Closers, CloseKill(t) PROVE SameEnds
    BY <1>12 DEF CloseKill, Kill
  <1>13. ASSUME NEW k \in Slots, ReaderData(k) PROVE SameEnds
    BY <1>13 DEF ReaderData
  <1>14. ASSUME NEW k \in Slots, ReaderEof(k) PROVE SameEnds
    BY <1>14 DEF ReaderEof
  <1>15. ASSUME NEW k \in Slots, ReaderFree(k) PROVE SameEnds
    BY <1>15 DEF ReaderFree
  <1>16. ASSUME NEW s \in Sessions, ChildExit(s) PROVE SameEnds
    BY <1>16 DEF ChildExit, Kill
  <1>17. ASSUME NEW s \in Sessions, ChildHang(s) PROVE SameEnds
    BY <1>17 DEF ChildHang
  <1>18. ASSUME NEW k \in Slots, BecomeIdle(k) PROVE SameEnds
    BY <1>18 DEF BecomeIdle
  <1>19. CASE UNCHANGED vars
    BY <1>19 DEF vars
  <1> HIDE DEF SameEnds, OwnInv
  <1> QED
    BY <1>1, <1>2, <1>3, <1>4, <1>5, <1>6, <1>7, <1>8, <1>9, <1>10, <1>11, <1>12, <1>13, <1>14,
       <1>15, <1>16, <1>17, <1>18, <1>19
    DEF QuietStep

(* The pipe ends a step closes were open and are its only change.          *)
LEMMA ClosePipe ==
  ASSUME PipeInv, NEW I, NEW O, UNCHANGED opens, closes' \in [Sessions -> Ends],
         \A s \in Sessions : /\ closes'[s].in = closes[s].in + IF s \in I THEN 1 ELSE 0
                             /\ closes'[s].out = closes[s].out + IF s \in O THEN 1 ELSE 0,
         \A s \in Sessions : /\ s \in I => s <= opens /\ InOpen(s)
                             /\ InOpen(s)' <=> InOpen(s) /\ s \notin I,
         \A s \in Sessions : /\ s \in O => s <= opens /\ OutOpen(s)
                             /\ OutOpen(s)' <=> OutOpen(s) /\ s \notin O
  PROVE  PipeInv'
  <1>1. ASSUME NEW s \in Sessions PROVE closes'[s].in = IF s <= opens' /\ ~InOpen(s)' THEN 1 ELSE 0
    BY DEF PipeInv
  <1>2. ASSUME NEW s \in Sessions PROVE closes'[s].out = IF s <= opens' /\ ~OutOpen(s)' THEN 1 ELSE 0
    BY DEF PipeInv
  <1> QED
    BY <1>1, <1>2 DEF PipeInv

(* The new session's pipe ends are both open.                              *)
LEMMA OpenForkPipe == ASSUME OwnInv, PipeInv, OpenFork PROVE PipeInv'
  <1> USE OwnFacts DEF OpenFork, OwnInv, Types, ThreadInv
  <1>1. opens' \in Sessions /\ opens' = opens + 1
    OBVIOUS
  <1>2. ASSUME NEW s \in Sessions
        PROVE  /\ InOpen(s)' <=> InOpen(s) \/ s = opens'
               /\ OutOpen(s)' <=> OutOpen(s) \/ s = opens'
    BY <1>1 DEF Goto, table, readers, InOpen, OutOpen
  <1>3. ASSUME NEW s \in Sessions PROVE s <= opens' <=> s <= opens \/ s = opens'
    BY <1>1
  <1>4. UNCHANGED closes
    OBVIOUS
  <1>5. ~(opens' <= opens)
    BY <1>1
  <1> HIDE DEF OpenFork, OwnInv
  <1>6. ASSUME NEW s \in Sessions PROVE closes'[s].in = IF s <= opens' /\ ~InOpen(s)' THEN 1 ELSE 0
    BY <1>2, <1>3, <1>4, <1>5 DEF PipeInv
  <1>7. ASSUME NEW s \in Sessions PROVE closes'[s].out = IF s <= opens' /\ ~OutOpen(s)' THEN 1 ELSE 0
    BY <1>2, <1>3, <1>4, <1>5 DEF PipeInv
  <1> QED
    BY <1>4, <1>6, <1>7 DEF PipeInv

(* The failure paths of shell_open close both ends.                        *)
LEMMA AbandonPipe ==
  ASSUME OwnInv, PipeInv, tpc["mqtt"] = "slot", Abandon(tsess["mqtt"]),
         UNCHANGED <<alive, readers, opens>>
  PROVE  PipeInv'
  <1> USE OwnFacts DEF Abandon, OwnInv, Types, ThreadInv
  <1> DEFINE x == tsess["mqtt"]
  <1>1. x \in Sessions /\ x <= opens
    OBVIOUS
  <1>2. closes' \in [Sessions -> Ends]
    BY <1>1 DEF PipeInv, Ends
  <1>3. \A s \in Sessions : /\ closes'[s].in = closes[s].in + IF s \in {x} THEN 1 ELSE 0
                            /\ closes'[s].out = closes[s].out + IF s \in {x} THEN 1 ELSE 0
    BY <1>1 DEF PipeInv, Ends
  <1>4. \A s \in Sessions : /\ s \in {x} => InOpen(s)
                            /\ InOpen(s)' <=> InOpen(s) /\ s \notin {x}
    BY <1>1 DEF InOpen, UniqueInv, SlotInv, readers, Goto
  <1>5. \A s \in Sessions : /\ s \in {x} => OutOpen(s)
                            /\ OutOpen(s)' <=> OutOpen(s) /\ s \notin {x}
    BY <1>1 DEF OutOpen, UniqueInv, SlotInv, readers, Goto
  <1> HIDE DEF Abandon, OwnInv, x
  <1> QED
    BY <1>1, <1>2, <1>3, <1>4, <1>5, ClosePipe

(* shell_close closes the write end, the reader the other.                 *)
LEMMA CloseTermPipe == ASSUME OwnInv, PipeInv, NEW t \in Closers, CloseTerm(t) PROVE PipeInv'
  <1> USE OwnFacts DEF CloseTerm, OwnInv, Types, ThreadInv
  <1> DEFINE x == tsess[t]
             O == {}
  <1>1. x \in Sessions /\ x <= opens
    BY DEF counts
  <1>2. closes' \in [Sessions -> Ends]
    BY <1>1 DEF PipeInv, Ends
  <1>3. \A s \in Sessions : /\ closes'[s].in = closes[s].in + IF s \in {x} THEN 1 ELSE 0
                            /\ closes'[s].out = closes[s].out + IF s \in O THEN 1 ELSE 0
    BY <1>1 DEF PipeInv, Ends
  <1>4. \A s \in Sessions : /\ s \in {x} => InOpen(s)
                            /\ InOpen(s)' <=> InOpen(s) /\ s \notin {x}
    BY <1>1 DEF InOpen, UniqueInv, SlotInv, table, readers, Goto
  <1>5. \A s \in Sessions : /\ s \in O => s <= opens /\ OutOpen(s)
                            /\ OutOpen(s)' <=> OutOpen(s) /\ s \notin O
    BY DEF OutOpen, table, readers, Goto
  <1>6. UNCHANGED opens
    BY DEF counts
  <1> HIDE DEF CloseTerm, OwnInv, x, O
  <1> QED
    BY <1>1, <1>2, <1>3, <1>4, <1>5, <1>6, ClosePipe

LEMMA ReaderEndPipe == ASSUME OwnInv, PipeInv, NEW k \in Slots, ReaderEnd(k) PROVE PipeInv'
  <1> USE OwnFacts DEF ReaderEnd, OwnInv, Types, ThreadInv
  <1>1. rsess[k] \in Sessions /\ rsess[k] <= opens /\ outFd[k] = rsess[k]
        /\ inFd[k] = IF alive[k] THEN rsess[k] ELSE 0
    BY DEF SlotInv
  <1>2. closes' \in [Sessions -> Ends]
    BY <1>1 DEF PipeInv, Ends
  <1>3. \A s \in Sessions : /\ closes'[s].in = closes[s].in + IF s \in {inFd[k]} THEN 1 ELSE 0
                            /\ closes'[s].out = closes[s].out + IF s \in {outFd[k]} THEN 1 ELSE 0
    BY <1>1 DEF PipeInv, Ends
  <1>4. \A s \in Sessions : /\ s \in {inFd[k]} => InOpen(s)
                            /\ InOpen(s)' <=> InOpen(s) /\ s \notin {inFd[k]}
    BY <1>1 DEF InOpen, UniqueInv, SlotInv, threads
  <1>5. \A s \in Sessions : /\ s \in {outFd[k]} => OutOpen(s)
                            /\ OutOpen(s)' <=> OutOpen(s) /\ s \notin {outFd[k]}
    BY <1>1 DEF OutOpen, UniqueInv, SlotInv, threads
  <1>6. UNCHANGED opens /\ \A s \in Sessions : s \in {inFd[k]} \/ s \in {outFd[k]} => s <= opens
    BY <1>1 DEF counts
  <1> HIDE DEF ReaderEnd, OwnInv
  <1> QED
    BY <1>2, <1>3, <1>4, <1>5, <1>6, ClosePipe

LEMMA NextPipe == ASSUME OwnInv, PipeInv, [Next]_vars PROVE PipeInv'
  <1>1. CASE QuietStep
    BY <1>1, QuietSteps, SameEndsPipe
  <1>2. CASE OpenFork
    BY <1>2, OpenForkPipe
  <1>3. CASE OpenNoSlot
    BY <1>3, AbandonPipe DEF OpenNoSlot, table, counts
  <1>4. CASE OpenNoReader
    BY <1>4, AbandonPipe DEF OpenNoReader
  <1>5. CASE \E t \in Closers : CloseTerm(t)
    BY <1>5, CloseTermPipe
  <1>6. CASE \E k \in Slots : ReaderEnd(k)
    BY <1>6, ReaderEndPipe
  <1> QED
    BY <1>1, <1>2, <1>3, <1>4, <1>5, <1>6
    DEF QuietStep, Next, MqttStep, MonitorStep, Failure, ReaderStep
-----------------------------------------------------------------------------
(* A guest has at most one live session (shell_open, shell.c), although    *)
(* the table is unlocked between the search for one and the taking of a    *)
(* slot: only the MQTT thread opens.                                       *)
THEOREM OnePerGuestCorrect == Spec => []OnePerGuest
  <1>1. Init => TargetInv
    BY DEF Init, TargetInv, OnePerGuest
  <1>2. TargetInv => OnePerGuest
    BY DEF TargetInv
  <1> QED
    BY OwnInductive, <1>1, <1>2, NextTarget, PTL DEF Spec

(* A slot stays with the reader of its session until the reader gives it   *)
(* back: what shell_reader reads, closes and kills is what it was started  *)
(* for, however the session is closed and opened again meanwhile.          *)
THEOREM ReaderOwnsSlotCorrect == Spec => []ReaderOwnsSlot
  <1>1. OwnInv => ReaderOwnsSlot
    BY DEF OwnInv, Types, SlotInv, ReaderOwnsSlot
  <1> QED
    BY OwnInductive, <1>1, PTL

(* No failure path of shell_open and no race of shell_close with the       *)
(* reader loses a running ssh child.                                       *)
THEOREM NoOrphanCorrect == Spec => []NoOrphan
  <1>1. Init => ChildInv
    BY OwnFacts DEF Init, ChildInv
  <1>2. ASSUME OwnInv, ChildInv PROVE NoOrphan
    BY <1>2, OwnFacts DEF OwnInv, Types, SlotInv, ChildInv, Owned, NoOrphan, Held
  <1> QED
    BY OwnInductive, <1>1, <1>2, NextChild, PTL DEF Spec

(* Whoever ends a session, each of the parent's two pipe ends is closed    *)
(* once and no more.                                                       *)
THEOREM PipesClosedOnceCorrect == Spec => []PipesClosedOnce
  <1>1. Init => PipeInv
    BY OwnFacts DEF Init, PipeInv, Ends
  <1>2. ASSUME OwnInv, ChildInv, PipeInv PROVE PipesClosedOnce
    <2>1. ASSUME NEW s \in Sessions PROVE closes[s].in <= 1 /\ closes[s].out <= 1
      BY <1>2, <2>1 DEF PipeInv
    <2>2. ASSUME NEW s \in Sessions, Settled(s) PROVE closes[s] = [in |-> 1, out |-> 1]
      <3>1. s <= opens
        BY <1>2, <2>2, OwnFacts DEF Settled, ChildInv, OwnInv, Types
      <3>2. ~InOpen(s) /\ ~OutOpen(s)
        BY <1>2, <2>2 DEF Settled, InOpen, OutOpen, OwnInv, SlotInv
      <3>3. closes[s].in = 1 /\ closes[s].out = 1 /\ closes[s] \in [in : Nat, out : Nat]
        BY <1>2, <3>1, <3>2 DEF PipeInv, Ends
      <3> QED
        BY <3>3
    <2> QED
      BY <2>1, <2>2 DEF PipesClosedOnce
  <1>3. Init => ChildInv
    BY OwnFacts DEF Init, ChildInv
  <1> QED
    BY OwnInductive, <1>1, <1>2, <1>3, NextChild, NextPipe, PTL DEF Spec
=============================================================================
