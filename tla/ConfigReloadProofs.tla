------------------------- MODULE ConfigReloadProofs -------------------------
(***************************************************************************)
(* Proofs about the reload of the controller's configuration, for every    *)
(* set of configurations and devices, any number of changes of the file    *)
(* and signals, and every pattern of failing steps.                        *)
(***************************************************************************)
EXTENDS ConfigReload, TLAPS

Types == /\ cfg \in Configs /\ next \in Configs /\ file.content \in Configs
         /\ boot \in BOOLEAN /\ configured \in BOOLEAN
         /\ sdev \in Devices
         /\ fd \in [Devices -> {"closed", "open", "stale"}]

(* The main loop between reloads, with a reload about to start included.   *)
Resting == pc \in {"io", "top", "load", "close"}

(* Startup ends before the first exchange. *)
BootPhase == /\ pc \in {"io", "top"} => ~boot
             /\ boot /\ Resting => ~configured
             /\ pc = "sync" => cfg = next

LinkIs(c) == configured => fd[sdev] = "open" /\ sdev = c.dev /\ smode = c.mode

(* Which configuration a configured link belongs to.  Nothing is           *)
(* configured while spi.conf is rewritten and the device reopened.         *)
LinkInv == /\ Resting => LinkIs(cfg)
           /\ pc \in {"apply", "open"} => ~configured
           /\ pc \in {"pin", "adopt", "sync"} => LinkIs(next)

ClosedBut(D) == \A d \in Devices \ D : fd[d] = "closed"

(* Until an attempt to reopen has failed for good there is one descriptor  *)
(* at most, it is the configured one outside of a reload, and it is closed *)
(* before the driver can be restarted.                                     *)
DescriptorInv ==
  "open" \notin failed =>
    /\ \A d \in Devices : fd[d] # "stale"
    /\ pc = "apply" => ClosedBut({})
    /\ pc = "open" => ClosedBut({next.dev})
    /\ pc \in {"pin", "adopt", "sync"} => configured /\ ClosedBut({sdev})
    /\ Resting => ClosedBut(IF boot THEN {} ELSE {sdev}) /\ (configured \/ boot)

(* While no step has failed, spi.conf and the pin belong to the old or to  *)
(* the new configuration, depending on how far the reload is.              *)
AppliedInv ==
  failed = {} =>
    /\ Resting /\ ~boot => conf = cfg.wire
    /\ pc \in {"open", "pin", "adopt", "sync"} => conf = next.wire
    /\ (Resting \/ pc \in {"apply", "open", "pin"}) /\ ~boot => pin = cfg.pin /\ pin \in armed
    /\ pc \in {"adopt", "sync"} => pin = next.pin /\ pin \in armed

ReloadInv == Types /\ BootPhase /\ LinkInv /\ DescriptorInv /\ AppliedInv
-----------------------------------------------------------------------------
LEMMA InitReload == Init => ReloadInv
  BY ConfigAssumption
  DEF Init, ReloadInv, Types, BootPhase, Resting, LinkIs, LinkInv, ClosedBut,
      DescriptorInv, AppliedInv

(* The file, the signal and the driver leave alone what ReloadInv is about.*)
LEMMA OutsideReload ==
  ASSUME ReloadInv, Rewrite \/ Remove \/ Sighup \/ DriverUp \/ UNCHANGED vars
  PROVE  ReloadInv'
  <1>1. /\ UNCHANGED <<pc, boot, cfg, next, configured, sdev, smode, fd, conf, pin, armed, failed>>
        /\ file'.content \in Configs
    BY ConfigAssumption
    DEF Rewrite, Remove, Unusable, ChangeFile, Sighup, DriverUp, vars, fileVars, watchVars,
        loadVars, spiVars, pinVars, histVars, ReloadInv, Types
  <1> QED
    BY <1>1
    DEF ReloadInv, Types, BootPhase, Resting, LinkIs, LinkInv, ClosedBut, DescriptorInv,
       AppliedInv

(* The steps that touch neither the hardware nor the configuration.        *)
LEMMA LoopReload ==
  ASSUME ReloadInv, TopTick \/ TopNoTick \/ Load \/ Sync \/ NoExchange PROVE ReloadInv'
  <1> USE ConfigAssumption
      DEF ReloadInv, Types, BootPhase, Resting, LinkIs, LinkInv, ClosedBut, DescriptorInv,
          AppliedInv, Goto, fileVars, watchVars, loadVars, spiVars, pinVars, histVars
  <1>1. CASE TopTick
    BY <1>1 DEF TopTick
  <1>2. CASE TopNoTick
    BY <1>2 DEF TopNoTick
  <1>3. CASE Load
    BY <1>3 DEF Load
  <1>4. CASE Sync
    BY <1>4 DEF Sync
  <1>5. CASE NoExchange
    BY <1>5 DEF NoExchange
  <1> QED
    BY <1>1, <1>2, <1>3, <1>4, <1>5

(* The steps of handle_reload that move the SPI link.                      *)
LEMMA BusReload ==
  ASSUME ReloadInv, Close \/ ApplyNothing \/ ApplyBounce \/ ApplyFails PROVE ReloadInv'
  <1> USE ConfigAssumption
      DEF ReloadInv, Types, BootPhase, Resting, LinkIs, LinkInv, ClosedBut, DescriptorInv,
          AppliedInv, Goto, fileVars, watchVars, loadVars, spiVars, pinVars, histVars
  <1>1. CASE Close
    <2>1. CASE ~SpiChanged
      BY <1>1, <2>1 DEF Close, SpiChanged
    <2>2. CASE SpiChanged /\ configured
      <3>1. fd' = [fd EXCEPT ![sdev] = "closed"] /\ pc' = "apply" /\ configured' = FALSE
        BY <1>1, <2>2 DEF Close
      <3>2. "open" \notin failed => \A d \in Devices : fd'[d] = "closed"
        BY <1>1, <2>2, <3>1 DEF Close
      <3> QED
        BY <1>1, <3>1, <3>2 DEF Close
    <2>3. CASE SpiChanged /\ ~configured
      BY <1>1, <2>3 DEF Close
    <2> QED
      BY <2>1, <2>2, <2>3
  <1>2. CASE ApplyNothing
    BY <1>2 DEF ApplyNothing
  <1>3. CASE ApplyBounce
    BY <1>3 DEF ApplyBounce
  <1>4. CASE ApplyFails
    BY <1>4 DEF ApplyFails
  <1> QED
    BY <1>1, <1>2, <1>3, <1>4

(* Opening the new SPI device, and the first exchange after it.            *)
LEMMA OpenReload == ASSUME ReloadInv, Open \/ OpenFails \/ Exchange PROVE ReloadInv'
  <1> USE ConfigAssumption
      DEF ReloadInv, Types, BootPhase, Resting, LinkIs, LinkInv, ClosedBut, DescriptorInv,
          AppliedInv, Goto, Opened, fileVars, watchVars, loadVars, spiVars, pinVars, histVars
  <1>1. CASE Open
    BY <1>1 DEF Open
  <1>2. CASE OpenFails
    BY <1>2 DEF OpenFails
  <1>3. CASE Exchange
    BY <1>3 DEF Exchange
  <1> QED
    BY <1>1, <1>2, <1>3

(* The steps of handle_reload that move the data-ready pin.                *)
LEMMA PinReload ==
  ASSUME ReloadInv, PinKept \/ ArmPin \/ ArmPinFails \/ Adopt PROVE ReloadInv'
  <1> USE ConfigAssumption
      DEF ReloadInv, Types, BootPhase, Resting, LinkIs, LinkInv, ClosedBut, DescriptorInv,
          AppliedInv, Goto, fileVars, watchVars, loadVars, spiVars, pinVars, histVars
  <1>1. CASE PinKept
    BY <1>1 DEF PinKept
  <1>2. CASE ArmPin
    BY <1>2 DEF ArmPin
  <1>3. CASE ArmPinFails
    BY <1>3 DEF ArmPinFails
  <1>4. CASE Adopt
    BY <1>4 DEF Adopt
  <1> QED
    BY <1>1, <1>2, <1>3, <1>4

LEMMA ReloadInductive == Spec => []ReloadInv
  <1>1. ReloadInv /\ [Next]_vars => ReloadInv'
    BY OutsideReload, LoopReload, BusReload, OpenReload, PinReload DEF Next, Main
  <1> QED
    BY InitReload, <1>1, PTL DEF Spec
-----------------------------------------------------------------------------
(* Between reloads the SPI device, its mode, spi.conf and the data-ready   *)
(* pin are those of the configuration in force (handle_reload,             *)
(* motor_controller.c:551-640), or a step of some reload has failed.       *)
THEOREM HardwareFollowsCorrect == Spec => []HardwareFollows
  <1>1. ReloadInv => HardwareFollows
    BY DEF ReloadInv, BootPhase, Resting, LinkInv, LinkIs, DescriptorInv, AppliedInv,
           HardwareFollows
  <1> QED
    BY <1>1, ReloadInductive, PTL

(* A restart of spi-dwc finds every descriptor closed unless a reopening   *)
(* has failed for good (spi_apply_conf, open_spi).                         *)
THEOREM StaleOnlyAfterFailureCorrect == Spec => []StaleOnlyAfterFailure
  <1>1. ReloadInv => StaleOnlyAfterFailure
    BY DEF ReloadInv, DescriptorInv, StaleOnlyAfterFailure
  <1> QED
    BY <1>1, ReloadInductive, PTL
=============================================================================
