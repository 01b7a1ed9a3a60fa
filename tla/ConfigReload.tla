---------------------------- MODULE ConfigReload ----------------------------
(***************************************************************************)
(* How the motor controller follows its configuration file: loading it at  *)
(* startup, on SIGHUP and when the watcher (-w) sees it change, and then   *)
(* taking the hardware from the old configuration to the new one: closing  *)
(* the SPI device, rewriting spi.conf, restarting the driver spi-dwc,      *)
(* reopening, and moving the data-ready pin.                               *)
(*                                                                         *)
(* All of it runs in the main loop of motor_controller.c; the file, the    *)
(* signal and the driver act in between.  A configuration is a record of   *)
(* the SPI device (bus and dev), the wire parameters kept in spi.conf, the *)
(* remaining per-open parameter (mode) and the pin.  The STM32 part of a   *)
(* reload and its effect on the command in flight are in CommandLink.      *)
(***************************************************************************)
EXTENDS Naturals

CONSTANTS Configs,     \* the configurations that can be in the file
          Defaults,    \* CONFIG_DEFAULTS
          Devices,     \* the SPI devices they name
          Watch,       \* started with -w
          MaxTries,    \* attempts to reopen the bus (5 in the code)
          MaxWrites,   \* bound: changes of the file in a behaviour
          MaxSignals   \* bound: SIGHUPs in a behaviour

ASSUME ConfigAssumption ==
  /\ Defaults \in Configs /\ Watch \in BOOLEAN
  /\ \A c \in Configs : c.dev \in Devices
ASSUME BoundAssumption == MaxTries \in Nat \ {0} /\ MaxWrites \in Nat /\ MaxSignals \in Nat

VARIABLES
  file,        \* the configuration file: present, ver (its mtime), content, and
               \* ok: config_load_file accepts it
  reload,      \* g_reload
  signals,     \* SIGHUPs so far
  base,        \* the watcher's baseline, 0 if it has none
  first,       \* trigger_on_first
  pc,          \* control state of the main loop
  boot,        \* still in startup
  cfg, next,   \* the configuration in force and the one just loaded
  tries,       \* failed attempts to reopen
  configured,  \* spi.configured
  sdev,        \* spi.bus and spi.dev
  smode,       \* the mode it was configured with
  fd,          \* spi_device_fd of each device: "closed", "open", "stale"
  conf,        \* the wire parameters in spi.conf
  driver,      \* spi-dwc is running
  pin,         \* dr.pin
  armed,       \* pins with an edge subscription
  seenVer,     \* history: version of the file last loaded or rejected
  window,      \* history: the file changed between the last accepted load and
               \* the baseline taken after it
  failed       \* history: steps of a reload that have failed

fileVars  == <<file, reload, signals>>
watchVars == <<base, first>>
spiVars   == <<configured, sdev, smode, fd, conf, driver>>
pinVars   == <<pin, armed>>
loadVars  == <<cfg, next>>
histVars  == <<seenVer, window, failed>>
vars == <<fileVars, watchVars, pc, boot, loadVars, tries, spiVars, pinVars, histVars>>

(* Startup: spi.conf holds whatever an earlier run left there. *)
Init == /\ file \in [present : BOOLEAN, ver : {1}, content : {Defaults}, ok : BOOLEAN]
        /\ file.ok => file.present
        /\ reload = FALSE /\ signals = 0
        /\ base = 0 /\ first = FALSE
        /\ pc = "load" /\ boot = TRUE
        /\ cfg = Defaults /\ next = Defaults /\ tries = 0
        /\ configured = FALSE /\ sdev = Defaults.dev /\ smode = Defaults.mode
        /\ fd = [d \in Devices |-> "closed"]
        /\ conf \in {c.wire : c \in Configs} /\ driver = TRUE
        /\ pin = Defaults.pin /\ armed = {}
        /\ seenVer = 0 /\ window = FALSE /\ failed = {}

-----------------------------------------------------------------------------
(***************************************************************************)
(* The surroundings: somebody rewrites or removes the file (by rename, so  *)
(* that it is never seen half written), sends SIGHUP, and spi-dwc comes up *)
(* some time after it was started.                                         *)
(***************************************************************************)
InWindow == pc \in {"close", "apply", "open", "pin", "adopt", "sync"}

ChangeFile(f) == /\ file.ver <= MaxWrites /\ file' = f
                 /\ window' = (window \/ InWindow)
                 /\ UNCHANGED <<reload, signals, watchVars, pc, boot, loadVars, tries,
                                spiVars, pinVars, seenVer, failed>>

(* Nothing reads the content of a file that is absent or malformed. *)
Unusable(present) == [present |-> present, ver |-> file.ver + 1, content |-> Defaults, ok |-> FALSE]

Rewrite == \/ \E c \in Configs :
                ChangeFile([present |-> TRUE, ver |-> file.ver + 1, content |-> c, ok |-> TRUE])
           \/ ChangeFile(Unusable(TRUE))

Remove == file.present /\ ChangeFile(Unusable(FALSE))

(* config_install_sighup comes early in startup, after the first load. *)
Sighup == /\ signals < MaxSignals /\ ~(boot /\ pc = "load")
          /\ reload' = TRUE /\ signals' = signals + 1
          /\ UNCHANGED <<file, watchVars, pc, boot, loadVars, tries, spiVars, pinVars, histVars>>

DriverUp == /\ ~driver /\ driver' = TRUE
            /\ UNCHANGED <<fileVars, watchVars, pc, boot, loadVars, tries,
                           configured, sdev, smode, fd, conf, pinVars, histVars>>

-----------------------------------------------------------------------------
(***************************************************************************)
(* The top of the loop: the flag is taken down, the watcher looks at the   *)
(* file (once a second, so not in every iteration).                        *)
(***************************************************************************)
Goto(label) == pc' = label

FiresOnChange == file.present /\ base # 0 /\ file.ver # base

Fires == /\ file.present
         /\ IF base = 0 THEN first ELSE file.ver # base

TopTick == /\ pc = "top" /\ Watch
           /\ base' = IF file.present THEN file.ver ELSE base
           /\ first' = (first /\ ~(file.present /\ base = 0))
           /\ reload' = FALSE
           /\ Goto(IF reload \/ Fires THEN "load" ELSE "io")
           /\ UNCHANGED <<file, signals, boot, loadVars, tries, spiVars, pinVars, histVars>>

TopNoTick == /\ pc = "top"
             /\ reload' = FALSE
             /\ Goto(IF reload THEN "load" ELSE "io")
             /\ UNCHANGED <<file, signals, watchVars, boot, loadVars, tries, spiVars, pinVars, histVars>>

(* config_load_file; a file that is rejected changes nothing, except at    *)
(* startup, which goes on with the defaults and lets the watcher load the  *)
(* file when it is first seen.                                             *)
Loadable == file.present /\ file.ok

Load == /\ pc = "load"
        /\ seenVer' = file.ver /\ window' = (window /\ ~Loadable /\ ~boot)
        /\ next' = IF Loadable THEN file.content ELSE IF boot THEN Defaults ELSE next
        /\ first' = IF boot THEN Watch /\ ~Loadable ELSE first
        /\ Goto(IF Loadable \/ boot THEN "close" ELSE "io")
        /\ UNCHANGED <<fileVars, base, boot, cfg, tries, spiVars, pinVars, failed>>

-----------------------------------------------------------------------------
(***************************************************************************)
(* The SPI bus: close_spi, spi_apply_conf, open_spi.                       *)
(***************************************************************************)
SpiChangedButMode == boot \/ next.dev # cfg.dev \/ next.wire # cfg.wire

SpiChanged == boot \/ next.dev # cfg.dev \/ next.wire # cfg.wire \/ next.mode # cfg.mode

CloseNewTarget == /\ pc = "close"
                  /\ IF SpiChanged
                     THEN /\ Goto("apply") /\ configured' = FALSE
                          /\ fd' = IF configured THEN [fd EXCEPT ![next.dev] = "closed"] ELSE fd
                     ELSE Goto("pin") /\ UNCHANGED <<configured, fd>>
                  /\ tries' = 0
                  /\ UNCHANGED <<fileVars, watchVars, boot, loadVars, sdev, smode, conf, driver, pinVars, histVars>>

(* Only a device that open_spi has configured is closed. *)
Close == /\ pc = "close"
         /\ IF SpiChanged
            THEN /\ Goto("apply") /\ configured' = FALSE
                 /\ fd' = IF configured THEN [fd EXCEPT ![sdev] = "closed"] ELSE fd
            ELSE Goto("pin") /\ UNCHANGED <<configured, fd>>
         /\ tries' = 0
         /\ UNCHANGED <<fileVars, watchVars, boot, loadVars, sdev, smode, conf, driver, pinVars, histVars>>

ApplyNothing == /\ pc = "apply" /\ conf = next.wire
                /\ Goto("open")
                /\ UNCHANGED <<fileVars, watchVars, boot, loadVars, tries, spiVars, pinVars, histVars>>

(* A restart of the driver invalidates every open descriptor; the new one  *)
(* may take its time, or never come up when the respawn failed.            *)
ApplyBounce == /\ pc = "apply" /\ conf # next.wire
               /\ conf' = next.wire
               /\ fd' = [d \in Devices |-> IF fd[d] = "open" THEN "stale" ELSE fd[d]]
               /\ driver' \in BOOLEAN
               /\ Goto("open")
               /\ UNCHANGED <<fileVars, watchVars, boot, loadVars, tries, configured, sdev, smode, pinVars, histVars>>

ApplyFails == /\ pc = "apply" /\ conf # next.wire
              /\ failed' = failed \cup {"apply"}
              /\ Goto("open")
              /\ UNCHANGED <<fileVars, watchVars, boot, loadVars, tries, spiVars, pinVars, seenVer, window>>

(* rpi_spi_configure_device opens the device unless it has a descriptor.   *)
CanOpen(d) == fd[d] # "closed" \/ driver
Opened(d)  == IF fd[d] = "closed" THEN [fd EXCEPT ![d] = "open"] ELSE fd

Open == /\ pc = "open" /\ CanOpen(next.dev)
        /\ Opened(next.dev)[next.dev] = "open" /\ driver
        /\ fd' = Opened(next.dev)
        /\ configured' = TRUE /\ sdev' = next.dev /\ smode' = next.mode
        /\ Goto("pin")
        /\ UNCHANGED <<fileVars, watchVars, boot, loadVars, tries, conf, driver, pinVars, histVars>>

(* The open fails, or the driver refuses the parameters.  Startup gives up *)
(* at once, a reload after MaxTries attempts.                              *)
OpenFails == /\ pc = "open"
             /\ fd' \in {fd} \cup (IF CanOpen(next.dev) THEN {Opened(next.dev)} ELSE {})
             /\ configured' = FALSE
             /\ tries' = tries + 1
             /\ failed' = IF tries + 1 = MaxTries THEN failed \cup {"open"} ELSE failed
             /\ Goto(IF boot THEN "off" ELSE IF tries + 1 = MaxTries THEN "pin" ELSE "open")
             /\ UNCHANGED <<fileVars, watchVars, boot, loadVars, sdev, smode, conf, driver, pinVars, seenVer, window>>

-----------------------------------------------------------------------------
(***************************************************************************)
(* The data-ready pin, and the end of the reload.                          *)
(***************************************************************************)
PinKept == /\ pc = "pin" /\ ~boot /\ next.pin = cfg.pin
           /\ Goto("adopt")
           /\ UNCHANGED <<fileVars, watchVars, boot, loadVars, tries, spiVars, pinVars, histVars>>

ArmPin == /\ pc = "pin" /\ (boot \/ next.pin # cfg.pin)
          /\ pin' = next.pin /\ armed' = armed \cup {next.pin}
          /\ Goto("adopt")
          /\ UNCHANGED <<fileVars, watchVars, boot, loadVars, tries, spiVars, histVars>>

(* The pin is recorded before it can fail. *)
ArmPinFails == /\ pc = "pin" /\ (boot \/ next.pin # cfg.pin)
               /\ pin' = next.pin
               /\ failed' = failed \cup {"pin"}
               /\ Goto(IF boot THEN "off" ELSE "adopt")
               /\ UNCHANGED <<fileVars, watchVars, boot, loadVars, tries, spiVars, armed, seenVer, window>>

Adopt == /\ pc = "adopt"
         /\ cfg' = next
         /\ Goto("sync")
         /\ UNCHANGED <<fileVars, watchVars, boot, next, tries, spiVars, pinVars, histVars>>

SyncClears == /\ pc = "sync"
              /\ base' = IF Watch /\ file.present /\ ~(boot /\ first) THEN file.ver ELSE base
              /\ boot' = FALSE /\ reload' = FALSE
              /\ Goto("io")
              /\ UNCHANGED <<file, signals, first, loadVars, tries, spiVars, pinVars, histVars>>

(* cfg_watch_sync takes the file as it is now; a startup on the defaults   *)
(* leaves the watcher without a baseline.                                  *)
Sync == /\ pc = "sync"
        /\ base' = IF Watch /\ file.present /\ ~(boot /\ first) THEN file.ver ELSE base
        /\ boot' = FALSE
        /\ Goto("io")
        /\ UNCHANGED <<fileVars, first, loadVars, tries, spiVars, pinVars, histVars>>

(* The exchange of one frame opens the device itself when it is closed     *)
(* (rpi_spi_write_read_data), without configuring it.                      *)
Exchange == /\ pc = "io"
            /\ fd' \in {fd} \cup (IF CanOpen(cfg.dev) THEN {Opened(cfg.dev)} ELSE {})
            /\ Goto("top")
            /\ UNCHANGED <<fileVars, watchVars, boot, loadVars, tries, configured,
                           sdev, smode, conf, driver, pinVars, histVars>>

(* No data-ready edge within 2 ms: no exchange in this iteration. *)
NoExchange == /\ pc = "io"
              /\ Goto("top")
              /\ UNCHANGED <<fileVars, watchVars, boot, loadVars, tries, spiVars, pinVars, histVars>>

-----------------------------------------------------------------------------
Main == \/ TopTick \/ TopNoTick \/ Load \/ Close \/ ApplyNothing \/ ApplyBounce
        \/ ApplyFails \/ Open \/ OpenFails \/ PinKept \/ ArmPin \/ ArmPinFails
        \/ Adopt \/ Sync \/ Exchange \/ NoExchange

Next == Main \/ Rewrite \/ Remove \/ Sighup \/ DriverUp

(* The loop runs on, and a second passes now and then, so that the watcher *)
(* looks at the file again and again.                                      *)
Spec == Init /\ [][Next]_vars /\ WF_vars(Main) /\ SF_vars(TopTick)

-----------------------------------------------------------------------------
(***************************************************************************)
(* Properties.                                                             *)
(***************************************************************************)
(* Between reloads a link that counts as configured is the device and mode *)
(* of the configuration in force, on a descriptor that no restart of       *)
(* spi-dwc has invalidated; and if no step of any reload has failed, the   *)
(* link is configured, spi.conf and the pin are those of the configuration *)
(* and the pin is armed, after whatever sequence of configurations.        *)
HardwareFollows ==
  pc \in {"io", "top", "load"} /\ ~boot =>
    /\ configured => fd[sdev] = "open" /\ sdev = cfg.dev /\ smode = cfg.mode
    /\ failed = {} => configured /\ conf = cfg.wire /\ pin = cfg.pin /\ pin \in armed

(* A descriptor is left stale only when an attempt to reopen has failed    *)
(* for good before: otherwise it is closed before every restart.           *)
StaleOnlyAfterFailure == (\E d \in Devices : fd[d] = "stale") => "open" \in failed

(* No SIGHUP is lost: the file as it was when the signal came, or a newer  *)
(* one, is loaded (or rejected), also when the signal arrives during a     *)
(* reload.                                                                 *)
SighupHonoured ==
  \A v \in 2 .. MaxWrites + 1 :
    (reload /\ file.ver = v) ~> (seenVer >= v \/ pc = "off")

(* With -w, the last change of the file is noticed without a signal,       *)
(* unless it fell between the load and the baseline of the same reload     *)
(* (which takes a second or more when the bus is bounced).                 *)
ChangeNoticed ==
  Watch => <>[](file.present => seenVer = file.ver \/ window \/ pc = "off")
=============================================================================
