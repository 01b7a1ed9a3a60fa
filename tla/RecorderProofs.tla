--------------------------- MODULE RecorderProofs ---------------------------
(***************************************************************************)
(* Proofs about the control of the motor recorder, for any number of       *)
(* recordings: what holds as long as the two control threads are never in  *)
(* start or stop together and every thread could be created.               *)
(***************************************************************************)
EXTENDS Recorder, TLAPS

StopSteps == {"test", "clear", "joinReader", "joinWriter", "cleanup", "free", "publish"}
MainSteps == {"idle", "off"} \cup StopSteps
MqttSteps == {"idle", "upload", "connect", "spawn", "arm", "failed"} \cup StopSteps

Types == /\ recs \in 0 .. MaxRecs /\ glob \in 0 .. recs
         /\ handle \in [Kinds -> 0 .. MaxRecs]
         /\ object \in [Recs -> {"none", "held", "freed"}]
         /\ worker \in [Recs -> [Kinds -> {"none", "run", "ended", "joined"}]]
         /\ pc \in [Threads -> MainSteps \cup MqttSteps]
         /\ pc["main"] \in MainSteps /\ pc["mqtt"] \in MqttSteps
         /\ seen \in [Threads -> 0 .. MaxRecs]
         /\ status \in {"idle", "recording", "stopped"}

(* Nothing has gone wrong, and the process is still there. *)
Unfaulted == "overlap" \notin faults /\ "thread" \notin faults
Sane == ~ub /\ pc["main"] # "off" /\ Unfaulted

Quiet == ~Busy("main") /\ ~Busy("mqtt")

(* The globals name one recording, and its threads are in these states.    *)
Holds(rd, wr) == /\ glob # None
                 /\ \A k \in Kinds : handle[k] = glob
                 /\ worker[glob]["reader"] \in rd /\ worker[glob]["writer"] \in wr
Live   == {"run", "ended"}
Joined == {"joined"}

(* Nothing but the current recording has an object or threads.             *)
OneInv == /\ \A i \in Recs : i > recs => object[i] = "none" /\ \A k \in Kinds : worker[i][k] = "none"
          /\ \A i \in Recs : i # glob => /\ object[i] # "held"
                                         /\ \A k \in Kinds : worker[i][k] \in {"none", "joined"}
          /\ glob # None => object[glob] = "held"

QuietInv == Quiet => IF recording THEN Holds(Live, Live) ELSE glob = None

StartInv == /\ pc["mqtt"] \in {"connect", "spawn"} =>
                 /\ recording <=> pc["mqtt"] = "spawn"
                 /\ glob # None /\ \A k \in Kinds : worker[glob][k] = "none"
            /\ pc["mqtt"] = "arm" => recording /\ Holds(Live, Live)
            /\ pc["mqtt"] = "failed" => ~recording /\ glob = None

StopInv(t) == /\ pc[t] \in {"test", "clear"} => recording /\ Holds(Live, Live)
              /\ pc[t] \in StopSteps \ {"test", "clear"} => ~recording
              /\ pc[t] = "joinReader" => Holds(Live, Live)
              /\ pc[t] = "joinWriter" => Holds(Joined, Live)
              /\ pc[t] \in {"cleanup", "free"} => Holds(Joined, Joined)
              /\ pc[t] = "free" => seen[t] = glob
              /\ pc[t] = "publish" => glob = None

(* One control thread at a time, and how far it has come.                  *)
PhaseInv == Sane => /\ ~(Busy("main") /\ Busy("mqtt"))
                    /\ OneInv /\ QuietInv /\ StartInv
                    /\ StopInv("main") /\ StopInv("mqtt")

RecInv == Types /\ PhaseInv /\ (ub => ~Unfaulted)

(* The timer belongs to the recording that runs.                           *)
TimerInv == /\ pc["main"] \in {"idle", "test"} => ~exiting
            /\ Sane /\ "timer" \notin faults /\ ~exiting =>
                 /\ armed => recording /\ armedFor = glob
                 /\ pc["main"] = "test" => armed

(* m->state follows a start and a stop.                                    *)
StatusInv == Sane /\ "upload" \notin faults /\ ~exiting =>
  /\ Quiet => (status = "recording" <=> recording)
  /\ pc["mqtt"] \in {"connect", "spawn", "failed"} => status # "recording"
  /\ pc["mqtt"] \in {"arm", "test", "clear"} \/ pc["main"] \in {"test", "clear"} =>
       status = "recording"
-----------------------------------------------------------------------------
USE DEF None, Kinds, Threads

(* A recorder that has not started holds nothing.                          *)
LEMMA InitRec == Init => RecInv
  BY RecsAssumption
  DEF Init, RecInv, Types, PhaseInv, Sane, OneInv, QuietInv, StartInv, StopInv, Holds, Busy,
      Quiet, Unfaulted, Recs, StopSteps, MainSteps, MqttSteps

LEMMA StartRec == ASSUME RecInv, Start PROVE RecInv'
  <1> USE RecsAssumption
      DEF At, Goto, Enter, Fault, flagVars, objectVars, cmdVars, RecInv, Types, PhaseInv, Sane,
          OneInv, QuietInv, StartInv, StopInv, Holds, Busy, Quiet, Unfaulted, Recs, StopSteps,
          MainSteps, MqttSteps, Live, Joined
  <1>1. CASE StartOpen
    BY <1>1 DEF StartOpen
  <1>2. CASE StartOpenFails
    BY <1>2 DEF StartOpenFails
  <1>3. CASE StartConnectFails
    BY <1>3 DEF StartConnectFails
  <1>4. CASE StartFlag
    BY <1>4 DEF StartFlag
  <1>5. CASE StartSpawn
    BY <1>5 DEF StartSpawn, Spawn
  <1>6. CASE StartSpawnFails
    BY <1>6 DEF StartSpawnFails, Spawn
  <1>7. CASE StartNull
    BY <1>7 DEF StartNull, Undefined
  <1>8. CASE StartArm
    BY <1>8 DEF StartArm
  <1> QED
    BY <1>1, <1>2, <1>3, <1>4, <1>5, <1>6, <1>7, <1>8 DEF Start

LEMMA EnterStopRec ==
  ASSUME RecInv, MainDue \/ StopCommand \/ Shutdown PROVE RecInv'
  <1> USE RecsAssumption
      DEF At, Goto, Enter, Fault, flagVars, objectVars, cmdVars, RecInv, Types, PhaseInv, Sane,
          OneInv, QuietInv, StartInv, StopInv, Holds, Busy, Quiet, Unfaulted, Recs, StopSteps,
          MainSteps, MqttSteps, Live, Joined
  <1>1. CASE MainDue
    BY <1>1 DEF MainDue
  <1>2. CASE StopCommand
    BY <1>2 DEF StopCommand
  <1>3. CASE Shutdown
    BY <1>3 DEF Shutdown
  <1> QED
    BY <1>1, <1>2, <1>3

LEMMA StopRec == ASSUME RecInv, NEW t \in Threads, Stop(t) PROVE RecInv'
  <1> USE RecsAssumption
      DEF At, Goto, flagVars, objectVars, cmdVars, RecInv, Types, PhaseInv, Sane,
          OneInv, QuietInv, StartInv, StopInv, Holds, Busy, Quiet, Unfaulted, Recs, StopSteps,
          MainSteps, MqttSteps, Live, Joined
  <1>1. CASE StopTest(t)
    BY <1>1 DEF StopTest
  <1>2. CASE StopClear(t)
    BY <1>2 DEF StopClear
  <1>3. CASE JoinReader(t)
    BY <1>3 DEF JoinReader, Join
  <1>4. CASE JoinWriter(t)
    BY <1>4 DEF JoinWriter, Join
  <1>5. CASE JoinUndefined(t)
    BY <1>5 DEF JoinUndefined, Undefined
  <1>6. CASE CleanupTest(t)
    BY <1>6 DEF CleanupTest
  <1>7. CASE CleanupFree(t)
    BY <1>7 DEF CleanupFree
  <1>8. CASE CleanupTwice(t)
    BY <1>8 DEF CleanupTwice, Undefined
  <1>9. CASE StopPublish(t)
    BY <1>9 DEF StopPublish
  <1> QED
    BY <1>1, <1>2, <1>3, <1>4, <1>5, <1>6, <1>7, <1>8, <1>9 DEF Stop

LEMMA OtherRec ==
  ASSUME RecInv, Upload \/ UploadEnds \/ TimePasses \/ Signal \/ UNCHANGED vars PROVE RecInv'
  <1> USE RecsAssumption
      DEF At, Goto, Fault, flagVars, objectVars, cmdVars, RecInv, Types, PhaseInv, Sane,
          OneInv, QuietInv, StartInv, StopInv, Holds, Busy, Quiet, Unfaulted, Recs, StopSteps,
          MainSteps, MqttSteps, Live, Joined
  <1>1. CASE Upload
    BY <1>1 DEF Upload
  <1>2. CASE UploadEnds
    BY <1>2 DEF UploadEnds
  <1>3. CASE TimePasses
    BY <1>3 DEF TimePasses
  <1>4. CASE Signal
    BY <1>4 DEF Signal
  <1>5. CASE UNCHANGED vars
    BY <1>5 DEF vars
  <1> QED
    BY <1>1, <1>2, <1>3, <1>4, <1>5

LEMMA WorkerRec ==
  ASSUME RecInv, NEW i \in Recs, NEW k \in Kinds, Worker(i, k) PROVE RecInv'
  <1> USE RecsAssumption
      DEF At, Goto, flagVars, objectVars, cmdVars, RecInv, Types, PhaseInv, Sane,
          OneInv, QuietInv, StartInv, StopInv, Holds, Busy, Quiet, Unfaulted, Recs, StopSteps,
          MainSteps, MqttSteps, Live, Joined
  <1>1. CASE WorkerEnds(i, k)
    BY <1>1 DEF WorkerEnds
  <1>2. CASE WorkerUsesFreed(i, k)
    BY <1>2 DEF WorkerUsesFreed, Undefined
  <1> QED
    BY <1>1, <1>2 DEF Worker

LEMMA RecInductive == Spec => []RecInv
  <1>1. RecInv /\ [Next]_vars => RecInv'
    BY StartRec, EnterStopRec, StopRec, OtherRec, WorkerRec DEF Next
  <1> QED
    BY InitRec, <1>1, PTL DEF Spec
-----------------------------------------------------------------------------
(* The timer: MainDue is the only step that relies on it.                  *)
LEMMA TimerStep == ASSUME RecInv, TimerInv, [Next]_vars PROVE TimerInv'
  <1> USE DEF At, Goto, Enter, Fault, Undefined, flagVars, objectVars, cmdVars, RecInv, Types,
          PhaseInv, Sane, QuietInv, StartInv, StopInv, Holds, Busy, Quiet, Unfaulted, StopSteps,
          MainSteps, MqttSteps, TimerInv
  <1>1. CASE StartOpen
    BY <1>1 DEF StartOpen
  <1>2. CASE StartOpenFails
    BY <1>2 DEF StartOpenFails
  <1>3. CASE StartConnectFails
    BY <1>3 DEF StartConnectFails
  <1>4. CASE StartFlag
    BY <1>4 DEF StartFlag
  <1>5. CASE StartSpawn
    BY <1>5 DEF StartSpawn, Spawn
  <1>6. CASE StartSpawnFails
    BY <1>6 DEF StartSpawnFails, Spawn
  <1>7. CASE StartNull
    BY <1>7 DEF StartNull
  <1>8. CASE StartArm
    BY <1>8 DEF StartArm
  <1>9. CASE MainDue
    BY <1>9 DEF MainDue
  <1>10. CASE StopCommand
    BY <1>10 DEF StopCommand
  <1>11. CASE Shutdown
    BY <1>11 DEF Shutdown
  <1>12. CASE Upload
    BY <1>12 DEF Upload
  <1>13. CASE UploadEnds
    BY <1>13 DEF UploadEnds
  <1>14. CASE TimePasses
    BY <1>14 DEF TimePasses
  <1>15. CASE Signal
    BY <1>15 DEF Signal
  <1>16. ASSUME NEW t \in Threads, Stop(t) PROVE TimerInv'
    <2>1. CASE StopTest(t)
      BY <2>1 DEF StopTest
    <2>2. CASE StopClear(t)
      BY <2>2 DEF StopClear
    <2>3. CASE JoinReader(t)
      BY <2>3 DEF JoinReader, Join
    <2>4. CASE JoinWriter(t)
      BY <2>4 DEF JoinWriter, Join
    <2>5. CASE JoinUndefined(t)
      BY <2>5 DEF JoinUndefined
    <2>6. CASE CleanupTest(t)
      BY <2>6 DEF CleanupTest
    <2>7. CASE CleanupFree(t)
      BY <2>7 DEF CleanupFree
    <2>8. CASE CleanupTwice(t)
      BY <2>8 DEF CleanupTwice
    <2>9. CASE StopPublish(t)
      BY <2>9 DEF StopPublish
    <2> QED
      BY <1>16, <2>1, <2>2, <2>3, <2>4, <2>5, <2>6, <2>7, <2>8, <2>9 DEF Stop
  <1>17. ASSUME NEW i \in Recs, NEW k \in Kinds, Worker(i, k) PROVE TimerInv'
    BY <1>17 DEF Worker, WorkerEnds, WorkerUsesFreed
  <1>18. CASE UNCHANGED vars
    BY <1>18 DEF vars
  <1> QED
    BY <1>1, <1>2, <1>3, <1>4, <1>5, <1>6, <1>7, <1>8, <1>9, <1>10, <1>11,
       <1>12, <1>13, <1>14, <1>15, <1>16, <1>17, <1>18 DEF Next, Start

(* The announced state. *)
LEMMA StatusStep == ASSUME RecInv, StatusInv, [Next]_vars PROVE StatusInv'
  <1> USE DEF At, Goto, Enter, Fault, Undefined, flagVars, objectVars, cmdVars, RecInv, Types,
          PhaseInv, Sane, QuietInv, StartInv, StopInv, Holds, Busy, Quiet, Unfaulted, StopSteps,
          MainSteps, MqttSteps, StatusInv
  <1>1. CASE StartOpen
    BY <1>1 DEF StartOpen
  <1>2. CASE StartOpenFails
    BY <1>2 DEF StartOpenFails
  <1>3. CASE StartConnectFails
    BY <1>3 DEF StartConnectFails
  <1>4. CASE StartFlag
    BY <1>4 DEF StartFlag
  <1>5. CASE StartSpawn
    BY <1>5 DEF StartSpawn, Spawn
  <1>6. CASE StartSpawnFails
    BY <1>6 DEF StartSpawnFails, Spawn
  <1>7. CASE StartNull
    BY <1>7 DEF StartNull
  <1>8. CASE StartArm
    BY <1>8 DEF StartArm
  <1>9. CASE MainDue
    BY <1>9 DEF MainDue
  <1>10. CASE StopCommand
    BY <1>10 DEF StopCommand
  <1>11. CASE Shutdown
    BY <1>11 DEF Shutdown
  <1>12. CASE Upload
    BY <1>12 DEF Upload
  <1>13. CASE UploadEnds
    BY <1>13 DEF UploadEnds
  <1>14. CASE TimePasses
    BY <1>14 DEF TimePasses
  <1>15. CASE Signal
    BY <1>15 DEF Signal
  <1>16. ASSUME NEW t \in Threads, Stop(t) PROVE StatusInv'
    <2>1. CASE StopTest(t)
      BY <2>1 DEF StopTest
    <2>2. CASE StopClear(t)
      BY <2>2 DEF StopClear
    <2>3. CASE JoinReader(t)
      BY <2>3 DEF JoinReader, Join
    <2>4. CASE JoinWriter(t)
      BY <2>4 DEF JoinWriter, Join
    <2>5. CASE JoinUndefined(t)
      BY <2>5 DEF JoinUndefined
    <2>6. CASE CleanupTest(t)
      BY <2>6 DEF CleanupTest
    <2>7. CASE CleanupFree(t)
      BY <2>7 DEF CleanupFree
    <2>8. CASE CleanupTwice(t)
      BY <2>8 DEF CleanupTwice
    <2>9. CASE StopPublish(t)
      BY <2>9 DEF StopPublish
    <2> QED
      BY <1>16, <2>1, <2>2, <2>3, <2>4, <2>5, <2>6, <2>7, <2>8, <2>9 DEF Stop
  <1>17. ASSUME NEW i \in Recs, NEW k \in Kinds, Worker(i, k) PROVE StatusInv'
    BY <1>17 DEF Worker, WorkerEnds, WorkerUsesFreed
  <1>18. CASE UNCHANGED vars
    BY <1>18 DEF vars
  <1> QED
    BY <1>1, <1>2, <1>3, <1>4, <1>5, <1>6, <1>7, <1>8, <1>9, <1>10, <1>11,
       <1>12, <1>13, <1>14, <1>15, <1>16, <1>17, <1>18 DEF Next, Start

LEMMA HistoryInductive == Spec => [](TimerInv /\ StatusInv)
  <1>1. Init => TimerInv /\ StatusInv
    BY DEF Init, TimerInv, StatusInv, Busy, Quiet
  <1> QED
    BY <1>1, RecInductive, TimerStep, StatusStep, PTL DEF Spec

LEMMA CleanMeans ==
  ASSUME NEW fs PROVE Clean(fs) => \A f \in fs : f \notin faults
  BY DEF Clean
-----------------------------------------------------------------------------
(* start and stop of recorder.c never use a freed object, join a thread    *)
(* twice or dereference a null global, unless the two control threads      *)
(* overlap or a pthread_create has failed.                                 *)
THEOREM DefinedCorrect == Spec => []DefinedUnlessOverlap
  <1>1. RecInv => DefinedUnlessOverlap
    BY CleanMeans DEF RecInv, Unfaulted, DefinedUnlessOverlap
  <1> QED
    BY <1>1, RecInductive, PTL

(* With the same exceptions, g_recording between two commands says whether *)
(* there is a recording, and no file, queue, mapping or thread of an       *)
(* earlier one is left (start_recording_internal, stop_recording).         *)
THEOREM NothingLeaksCorrect == Spec => []NothingLeaks
  <1>1. RecInv => NothingLeaks
    BY CleanMeans
    DEF RecInv, PhaseInv, Sane, Unfaulted, OneInv, QuietInv, Quiet, Busy, Holds, NothingLeaks
  <1> QED
    BY <1>1, RecInductive, PTL

(* The main loop stops on time only the recording the timer was set for.   *)
THEOREM TimerCorrect == Spec => []TimerOfThisRecording
  <1>1. RecInv /\ TimerInv => TimerOfThisRecording
    BY CleanMeans DEF TimerInv, Sane, Unfaulted, At, TimerOfThisRecording
  <1> QED
    BY <1>1, RecInductive, HistoryInductive, PTL

(* m->state says "recording" between two commands exactly when g_recording *)
(* is set, unless an upload ended during a recording.                      *)
THEOREM StatusCorrect == Spec => []StatusAgrees
  <1>1. StatusInv => StatusAgrees
    BY CleanMeans DEF StatusInv, Sane, Unfaulted, Quiet, Busy, StatusAgrees
  <1> QED
    BY <1>1, HistoryInductive, PTL
=============================================================================
