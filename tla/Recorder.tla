------------------------------ MODULE Recorder ------------------------------
(***************************************************************************)
(* The control of the motor recorder (recorder.c).  Two threads run it:    *)
(* the mosquitto thread executes the commands one after another, and main  *)
(* stops a timed recording when its time is over and the last one at       *)
(* shutdown.  Both work on the same globals (flags, thread handles, the    *)
(* file, queue and reader/writer objects) without a lock.                  *)
(*                                                                         *)
(* A recording is a number; its file, queue, mapping and thread arguments  *)
(* are one object, held by the globals and then freed.  Use of a freed     *)
(* object, joining a thread that is joined or was never created, and use   *)
(* of a null global are undefined behaviour, after which nothing is said:  *)
(* ub stops the model.  What flows from the reader to the writer is in     *)
(* RowQueue.                                                               *)
(***************************************************************************)
EXTENDS Naturals

CONSTANT MaxRecs   \* bound: start commands in a behaviour

ASSUME RecsAssumption == MaxRecs \in Nat \ {0}

Recs == 1 .. MaxRecs
None == 0
Threads == {"main", "mqtt"}
Kinds == {"reader", "writer"}
Faults == {"overlap", "thread", "timer", "upload"}

VARIABLES
  running,    \* g_running
  recording,  \* g_recording
  armed,      \* g_auto_stop_active
  due,        \* g_auto_stop_time has passed
  glob,       \* recording whose object the globals hold
  handle,     \* recordings whose threads g_rd_thr and g_wr_thr name
  object,     \* the object of each recording: "none", "held", "freed"
  worker,     \* its reader and writer: "none", "run", "ended", "joined"
  pc,         \* control state of the two control threads
  seen,       \* global read by recorder_cleanup in each of them
  duration,   \* the start command in progress has a duration
  status,     \* m->state, what on_connect announces
  exiting,    \* main is past its loop
  recs,       \* start commands so far
  armedFor,   \* history: recording for which the timer was set
  faults,     \* history: what went wrong so far
  ub          \* undefined behaviour has happened

flagVars   == <<running, recording, armed, due>>
objectVars == <<glob, handle, object, worker>>
cmdVars    == <<duration, status, exiting, recs, armedFor>>
vars == <<flagVars, objectVars, pc, seen, cmdVars, faults, ub>>

Init == /\ running = TRUE /\ recording = FALSE /\ armed = FALSE /\ due = TRUE
        /\ glob = None /\ handle = [k \in Kinds |-> None]
        /\ object = [i \in Recs |-> "none"]
        /\ worker = [i \in Recs |-> [k \in Kinds |-> "none"]]
        /\ pc = [t \in Threads |-> "idle"]
        /\ seen = [t \in Threads |-> None]
        /\ duration = FALSE /\ status = "idle" /\ exiting = FALSE /\ recs = 0
        /\ armedFor = None /\ faults = {} /\ ub = FALSE

At(t, label) == ~ub /\ pc["main"] # "off" /\ pc[t] = label
Goto(t, label) == pc' = [pc EXCEPT ![t] = label]
Fault(f) == faults' = faults \cup {f}

(* One control thread enters start or stop while the other is inside one.  *)
Busy(t) == pc[t] \notin {"idle", "upload"}
Enter(t) == IF \E o \in Threads \ {t} : Busy(o) THEN Fault("overlap") ELSE UNCHANGED faults

Undefined == /\ ub' = TRUE
             /\ UNCHANGED <<flagVars, objectVars, pc, seen, cmdVars, faults>>

-----------------------------------------------------------------------------
(***************************************************************************)
(* start: "connect" while shm_connect waits for the region (up to 15 s),   *)
(* "spawn" with g_recording set and the threads not yet created, "arm"     *)
(* before the timer is set.                                                *)
(***************************************************************************)
StartOpen == /\ At("mqtt", "idle") /\ ~recording /\ recs < MaxRecs
             /\ recs' = recs + 1
             /\ glob' = recs + 1
             /\ object' = [object EXCEPT ![recs + 1] = "held"]
             /\ duration' \in BOOLEAN
             /\ Enter("mqtt") /\ Goto("mqtt", "connect")
             /\ UNCHANGED <<flagVars, handle, worker, seen, status, exiting, armedFor, ub>>

(* The file or the queue could not be had: the globals are null again.     *)
StartOpenFails == /\ At("mqtt", "idle") /\ ~recording /\ recs < MaxRecs
                  /\ recs' = recs + 1
                  /\ glob' = None
                  /\ duration' \in BOOLEAN
                  /\ Enter("mqtt") /\ Goto("mqtt", "failed")
                  /\ UNCHANGED <<flagVars, handle, object, worker, seen, status, exiting, armedFor, ub>>

StartConnectFailsLeaky == /\ At("mqtt", "connect") /\ glob # None
                          /\ glob' = None
                          /\ Goto("mqtt", "failed")
                          /\ UNCHANGED <<flagVars, handle, object, worker, seen, cmdVars, faults, ub>>

(* No region, or no memory for the thread arguments. *)
StartConnectFails == /\ At("mqtt", "connect") /\ glob # None
                     /\ object' = [object EXCEPT ![glob] = "freed"]
                     /\ glob' = None
                     /\ Goto("mqtt", "failed")
                     /\ UNCHANGED <<flagVars, handle, worker, seen, cmdVars, faults, ub>>

StartFlag == /\ At("mqtt", "connect") /\ glob # None
             /\ recording' = TRUE
             /\ Goto("mqtt", "spawn")
             /\ UNCHANGED <<running, armed, due, objectVars, seen, cmdVars, faults, ub>>

Spawn(ks) == /\ At("mqtt", "spawn") /\ glob # None
             /\ worker' = [worker EXCEPT ![glob] = [k \in Kinds |-> IF k \in ks THEN "run" ELSE "none"]]
             /\ handle' = [k \in Kinds |-> IF k \in ks THEN glob ELSE handle[k]]
             /\ status' = "recording"
             /\ Goto("mqtt", "arm")
             /\ UNCHANGED <<flagVars, glob, object, seen, duration, exiting, recs, armedFor, ub>>

StartSpawn == Spawn(Kinds) /\ UNCHANGED faults

(* pthread_create fails; nobody looks at its result, and the handle keeps  *)
(* the value it had.                                                       *)
StartSpawnFails == \E ks \in SUBSET Kinds \ {Kinds} : Spawn(ks) /\ Fault("thread")

(* The other control thread has cleared the globals meanwhile. *)
StartNull == /\ At("mqtt", "connect") \/ At("mqtt", "spawn")
             /\ glob = None
             /\ Undefined

StartArmInactive == /\ At("mqtt", "arm") \/ At("mqtt", "failed")
                    /\ due' = (due /\ ~duration)
                    /\ armedFor' = IF duration /\ pc["mqtt"] = "arm" THEN glob ELSE None
                    /\ Goto("mqtt", "idle")
                    /\ UNCHANGED <<running, recording, armed, objectVars, seen, duration, status, exiting, recs, faults, ub>>

(* The timer is set whether or not the recording has started. *)
StartArm == /\ At("mqtt", "arm") \/ At("mqtt", "failed")
            /\ IF duration
               THEN /\ armed' = TRUE /\ due' = FALSE
                    /\ armedFor' = IF pc["mqtt"] = "arm" THEN glob ELSE None
                    /\ IF pc["mqtt"] = "failed" THEN Fault("timer") ELSE UNCHANGED faults
               ELSE UNCHANGED <<armed, due, armedFor, faults>>
            /\ Goto("mqtt", "idle")
            /\ UNCHANGED <<running, recording, objectVars, seen, duration, status, exiting, recs, ub>>

-----------------------------------------------------------------------------
(***************************************************************************)
(* stop_recording, by the stop command or by main.                         *)
(***************************************************************************)
MainDue == /\ At("main", "idle") /\ ~exiting /\ running
           /\ armed /\ recording /\ due
           /\ Enter("main") /\ Goto("main", "test")
           /\ UNCHANGED <<flagVars, objectVars, seen, cmdVars, ub>>

StopCommand == /\ At("mqtt", "idle") /\ recording
               /\ Enter("mqtt") /\ Goto("mqtt", "test")
               /\ UNCHANGED <<flagVars, objectVars, seen, cmdVars, ub>>

StopTest(t) == /\ At(t, "test")
               /\ Goto(t, IF recording THEN "clear" ELSE "idle")
               /\ UNCHANGED <<flagVars, objectVars, seen, cmdVars, faults, ub>>

StopClearArmed(t) == /\ At(t, "clear")
                     /\ recording' = FALSE
                     /\ Goto(t, "joinReader")
                     /\ UNCHANGED <<running, armed, due, objectVars, seen, cmdVars, faults, ub>>

(* At shutdown main clears only g_recording. *)
StopClear(t) == /\ At(t, "clear")
                /\ recording' = FALSE
                /\ armed' = (armed /\ t = "main" /\ exiting)
                /\ Goto(t, "joinReader")
                /\ UNCHANGED <<running, due, objectVars, seen, cmdVars, faults, ub>>

Join(t, k, label, next) ==
  /\ At(t, label)
  /\ handle[k] # None /\ worker[handle[k]][k] = "ended"
  /\ worker' = [worker EXCEPT ![handle[k]][k] = "joined"]
  /\ Goto(t, next)
  /\ UNCHANGED <<flagVars, glob, handle, object, seen, cmdVars, faults, ub>>

JoinReader(t) == Join(t, "reader", "joinReader", "joinWriter")

JoinNoWriter(t) == /\ At(t, "joinWriter")
                   /\ Goto(t, "cleanup")
                   /\ UNCHANGED <<flagVars, objectVars, seen, cmdVars, faults, ub>>

JoinWriter(t) == Join(t, "writer", "joinWriter", "cleanup")

JoinUndefined(t) ==
  /\ \E l \in {<<"joinReader", "reader">>, <<"joinWriter", "writer">>} :
       /\ At(t, l[1])
       /\ handle[l[2]] \notin {i \in Recs : worker[i][l[2]] \in {"run", "ended"}}
  /\ Undefined

(* recorder_cleanup tests each global, frees it and sets it to null. *)
CleanupTest(t) == /\ At(t, "cleanup")
                  /\ seen' = [seen EXCEPT ![t] = glob]
                  /\ Goto(t, "free")
                  /\ UNCHANGED <<flagVars, objectVars, cmdVars, faults, ub>>

CleanupFree(t) == /\ At(t, "free")
                  /\ seen[t] # None => object[seen[t]] = "held"
                  /\ object' = [i \in Recs |-> IF i = seen[t] THEN "freed" ELSE object[i]]
                  /\ glob' = None
                  /\ seen' = [seen EXCEPT ![t] = None]
                  /\ Goto(t, "publish")
                  /\ UNCHANGED <<flagVars, handle, worker, cmdVars, faults, ub>>

CleanupTwice(t) == /\ At(t, "free") /\ seen[t] # None /\ object[seen[t]] = "freed"
                   /\ Undefined

StopSilent(t) == /\ At(t, "publish")
                 /\ Goto(t, IF t = "main" /\ exiting THEN "off" ELSE "idle")
                 /\ UNCHANGED <<flagVars, objectVars, seen, cmdVars, faults, ub>>

(* The stop metadata, which shutdown does not publish. *)
StopPublish(t) == /\ At(t, "publish")
                  /\ status' = IF t = "main" /\ exiting THEN status ELSE "stopped"
                  /\ Goto(t, IF t = "main" /\ exiting THEN "off" ELSE "idle")
                  /\ UNCHANGED <<flagVars, objectVars, seen, duration, exiting, recs, armedFor, faults, ub>>

-----------------------------------------------------------------------------
(***************************************************************************)
(* upload runs in the command thread for as long as scp does, at most      *)
(* three minutes.  When it takes longer its status is never set, and the   *)
(* outcome is either; success publishes the stop metadata again.           *)
(***************************************************************************)
Upload == /\ At("mqtt", "idle")
          /\ Goto("mqtt", "upload")
          /\ UNCHANGED <<flagVars, objectVars, seen, cmdVars, faults, ub>>

UploadEnds == /\ At("mqtt", "upload")
              /\ \/ UNCHANGED <<status, faults>>
                 \/ /\ status' = "stopped"
                    /\ IF recording THEN Fault("upload") ELSE UNCHANGED faults
              /\ Goto("mqtt", "idle")
              /\ UNCHANGED <<flagVars, objectVars, seen, duration, exiting, recs, armedFor, ub>>

-----------------------------------------------------------------------------
(* The reader and the writer of a recording go on while both flags are     *)
(* set, using their object, and end when they see one cleared.             *)
WorkerEnds(i, k) == /\ ~ub /\ pc["main"] # "off"
                    /\ worker[i][k] = "run" /\ object[i] = "held"
                    /\ ~(running /\ recording)
                    /\ worker' = [worker EXCEPT ![i][k] = "ended"]
                    /\ UNCHANGED <<flagVars, glob, handle, object, pc, seen, cmdVars, faults, ub>>

WorkerUsesFreed(i, k) == /\ ~ub /\ pc["main"] # "off"
                         /\ worker[i][k] = "run" /\ object[i] = "freed"
                         /\ Undefined

TimePasses == /\ armed /\ ~due
              /\ due' = TRUE
              /\ UNCHANGED <<running, recording, armed, objectVars, pc, seen, cmdVars, faults, ub>>

(* SIGINT or SIGTERM *)
Signal == /\ running
          /\ running' = FALSE
          /\ UNCHANGED <<recording, armed, due, objectVars, pc, seen, cmdVars, faults, ub>>

(* main leaves its loop; mosquitto_loop_stop then cancels the other thread *)
(* wherever it is.                                                         *)
Shutdown == /\ At("main", "idle") /\ ~running
            /\ exiting' = TRUE
            /\ IF recording THEN Enter("main") /\ Goto("main", "clear")
                            ELSE UNCHANGED faults /\ Goto("main", "off")
            /\ UNCHANGED <<flagVars, objectVars, seen, duration, status, recs, armedFor, ub>>

-----------------------------------------------------------------------------
Start == \/ StartOpen \/ StartOpenFails \/ StartConnectFails \/ StartFlag
         \/ StartSpawn \/ StartSpawnFails \/ StartNull \/ StartArm
Stop(t) == \/ StopTest(t) \/ StopClear(t) \/ JoinReader(t) \/ JoinWriter(t)
           \/ JoinUndefined(t) \/ CleanupTest(t) \/ CleanupFree(t)
           \/ CleanupTwice(t) \/ StopPublish(t)
Worker(i, k) == WorkerEnds(i, k) \/ WorkerUsesFreed(i, k)

Next == \/ Start \/ MainDue \/ StopCommand \/ Shutdown
        \/ \E t \in Threads : Stop(t)
        \/ Upload \/ UploadEnds
        \/ \E i \in Recs, k \in Kinds : Worker(i, k)
        \/ TimePasses \/ Signal

(* Threads are scheduled and time passes; commands and signals need not    *)
(* come.  An upload ends: scp exits or is given up after three minutes.    *)
Fairness == /\ WF_vars(MainDue \/ Shutdown \/ Stop("main"))
            /\ WF_vars(Stop("mqtt"))
            /\ WF_vars(StartConnectFails \/ StartFlag \/ StartNull)
            /\ WF_vars(StartSpawn \/ StartSpawnFails) /\ WF_vars(StartArm)
            /\ WF_vars(UploadEnds) /\ WF_vars(TimePasses)
            /\ \A i \in Recs, k \in Kinds : WF_vars(Worker(i, k))

Spec == Init /\ [][Next]_vars /\ Fairness

-----------------------------------------------------------------------------
(***************************************************************************)
(* Properties.                                                             *)
(***************************************************************************)
Clean(fs) == faults \cap fs = {}

(* No use after free, double free, double join or null dereference, unless *)
(* the two control threads were in start or stop at the same time or a     *)
(* thread could not be created: threads are joined before their object is  *)
(* freed, and a new recording finds the globals empty.                     *)
DefinedUnlessOverlap == ub => ~Clean({"overlap", "thread"})

(* Between commands, and with the same exceptions, g_recording tells the   *)
(* truth: exactly when it is set one recording has its object and both     *)
(* threads, and nothing of any earlier recording is left behind.           *)
NothingLeaks ==
  ~ub /\ (\A t \in Threads : ~Busy(t)) /\ Clean({"overlap", "thread"}) =>
    /\ recording <=> glob # None
    /\ \A i \in Recs : i # glob => /\ object[i] # "held"
                                   /\ \A k \in Kinds : worker[i][k] \in {"none", "joined"}
    /\ recording => object[glob] = "held" /\ \A k \in Kinds : handle[k] = glob

(* main stops a recording on time only when the timer was set for it, not  *)
(* for one that was stopped before or that failed to start: with a failed  *)
(* timed start the timer stays set (recorder.c:650) and this is lost.      *)
TimerOfThisRecording ==
  At("main", "test") /\ Clean({"overlap", "thread", "timer"}) => armedFor = glob

(* What a reconnecting client is told (m->state) agrees with g_recording   *)
(* between commands, unless an upload has finished during a recording.     *)
StatusAgrees ==
  ~ub /\ ~exiting /\ (\A t \in Threads : ~Busy(t)) /\ Clean({"overlap", "thread", "upload"}) =>
    (status = "recording" <=> recording)

(* A timed recording ends although nobody sends stop, and also while the   *)
(* command thread is busy with an upload.                                  *)
TimedRecordingEnds ==
  \A i \in Recs : (recording /\ armedFor = i /\ glob = i)
                    ~> (~recording \/ ~Clean({"overlap", "thread"}) \/ ub)
=============================================================================
