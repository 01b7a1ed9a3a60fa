---------------------------- MODULE CommandLink ----------------------------
(***************************************************************************)
(* The link between the QNX controller (motor_controller.c) and the STM32: *)
(* one SPI exchange at a time carries a data frame to the Pi and, in the   *)
(* other direction, the SET_CONFIG command in flight.  The module models   *)
(* the command transmitter g_cmd, the validation and the sequence          *)
(* accounting of the main loop, and handle_reload as far as it touches     *)
(* them.                                                                   *)
(*                                                                         *)
(* The STM32 firmware is not in this repository.  It is modelled from the  *)
(* contract in motor_wire.h: a command is applied at the next block        *)
(* boundary and never mid-transfer; the ACK rides in the frames from then  *)
(* on, with the latched cmd_seq; a command that was already applied is     *)
(* acknowledged again and not applied again; CONFIG_APPLIED marks only the *)
(* first frame that uses a new configuration.                              *)
(***************************************************************************)
EXTENDS Integers

CONSTANTS Configs,      \* STM-tier payloads that pass the Pi's validation
          Rows,         \* block_rows of each payload
          Rejected,     \* payloads the firmware answers with NACK
          None,         \* "no command", "no configuration known"
          Retries,      \* CMD_MAX_RETRIES (32 in the code)
          FrameMod,     \* 2^32 in the code: frame seq is a uint32_t
          MaxReloads,   \* bound: reloads in a behaviour
          MaxResets,    \* bound: resets of the STM32
          MaxRestarts   \* bound: restarts of the controller

ASSUME ConfigAssumption == /\ Rows \in [Configs -> Nat \ {0}]
                           /\ Rejected \subseteq Configs
                           /\ None \notin Configs
                           /\ Configs \ Rejected # {}
ASSUME RetryAssumption  == Retries \in Nat \ {0}
ASSUME FrameAssumption  == FrameMod \in Nat /\ FrameMod > 3 /\ FrameMod % 2 = 0
ASSUME LimitAssumption  == {MaxReloads, MaxResets, MaxRestarts} \subseteq Nat

(* cmd_seq is a uint16_t; the bounds keep the model far below its wrap.    *)
CmdSeqs == 0 .. MaxReloads + 1
Seqs    == 0 .. FrameMod - 1
Half    == FrameMod \div 2

VARIABLES
  state, cmdSeq, retriesLeft, payload,  \* g_cmd
  cfg,        \* cfg.stm: what the configuration file asked for last
  active,     \* active_stm, None while unknown
  outcome,    \* how the last command ended: ACK, NACK, given up, or not yet
  haveLast, lastSeq,                    \* sequence accounting
  counted,    \* the counter that the last step incremented, if any ...
  gap,        \* ... and by how much, for seq_drops
  reloads, restarts,
  stmCfg,     \* configuration the STM32 runs
  stmCmd,     \* command received, to be applied at the next block boundary
  ackSeq, ack,                          \* last processed cmd_seq, and verdict
  out,        \* the frame waiting to be clocked out
  ready,      \* level of the data-ready line
  age,        \* blocks since the frame last accepted by the Pi, up to Half
  resets

cmdVars == <<state, cmdSeq, retriesLeft, payload, cfg, active, outcome>>
seqVars == <<haveLast, lastSeq>>
statVars == <<counted, gap>>
stmVars == <<stmCfg, stmCmd, ackSeq, ack, out, ready, resets>>
vars    == <<cmdVars, seqVars, statVars, reloads, restarts, stmVars, age>>

Commands == [seq : CmdSeqs, cfg : Configs, intact : BOOLEAN]
FrameSet == [seq : Seqs, cfg : Configs, ackSeq : CmdSeqs,
             ack : {"none", "ok", "nack"}, applied : BOOLEAN]

NoCount == counted' = "none" /\ gap' = 0

IncSeq(s) == IF s + 1 = FrameMod THEN 0 ELSE s + 1

(* cmd_init, then the initial cmd_queue_set_config of main.                *)
Init == /\ \E c \in Configs, d \in Configs \ Rejected, s \in Seqs :
             /\ cfg = c /\ payload = c
             /\ stmCfg = d
             /\ out = [seq |-> s, cfg |-> d, ackSeq |-> 0, ack |-> "none",
                       applied |-> FALSE]
        /\ state = "PENDING" /\ cmdSeq = 1 /\ retriesLeft = Retries
        /\ active = None /\ outcome = "none"
        /\ haveLast = FALSE /\ lastSeq = 0 /\ counted = "none" /\ gap = 0
        /\ reloads = 0 /\ restarts = 0
        /\ stmCmd = None /\ ackSeq = 0 /\ ack = "none" /\ ready = FALSE
        /\ age = Half /\ resets = 0

-----------------------------------------------------------------------------
(***************************************************************************)
(* The STM32.                                                              *)
(***************************************************************************)
Fresh == stmCmd # None /\ ~(stmCmd.seq = ackSeq /\ ack = "ok")
Good  == stmCmd.intact /\ stmCmd.cfg \notin Rejected

(* A block is complete: a command received before is applied or refused,   *)
(* and the next frame replaces the one not yet read.                       *)
StmBlock ==
  /\ stmCmd' = None
  /\ stmCfg' = IF Fresh /\ Good THEN stmCmd.cfg ELSE stmCfg
  /\ ackSeq' = IF Fresh THEN stmCmd.seq ELSE ackSeq
  /\ ack' = IF Fresh THEN (IF Good THEN "ok" ELSE "nack") ELSE ack
  /\ out' = [seq |-> IncSeq(out.seq), cfg |-> stmCfg', ackSeq |-> ackSeq',
             ack |-> ack', applied |-> Fresh /\ Good]
  /\ ready' = TRUE
  /\ age' = IF age < Half THEN age + 1 ELSE age
  /\ NoCount /\ UNCHANGED <<cmdVars, seqVars, reloads, restarts, resets>>

(* The firmware starts over with its built-in configuration.               *)
StmReset ==
  /\ resets < MaxResets /\ resets' = resets + 1
  /\ stmCfg' \in Configs \ Rejected
  /\ stmCmd' = None /\ ackSeq' = 0 /\ ack' = "none" /\ ready' = FALSE
  /\ out' = [seq |-> 0, cfg |-> stmCfg', ackSeq |-> 0, ack |-> "none",
             applied |-> FALSE]
  /\ age' = Half
  /\ NoCount /\ UNCHANGED <<cmdVars, seqVars, reloads, restarts>>

-----------------------------------------------------------------------------
(***************************************************************************)
(* The controller.                                                         *)
(***************************************************************************)

(* cmd_queue_set_config: a command in flight is superseded.                *)
QueueSetConfig(c) == /\ payload' = c
                     /\ cmdSeq' = cmdSeq + 1
                     /\ state' = "PENDING" /\ outcome' = "none"
                     /\ retriesLeft' = Retries

(* handle_reload with an accepted file: spiChanged says whether a wire     *)
(* parameter differs (the bus is closed and reopened), c is its STM tier.  *)
Reload(c, spiChanged) ==
  /\ reloads < MaxReloads /\ reloads' = reloads + 1
  /\ haveLast' = (haveLast /\ ~spiChanged)
  /\ IF c # cfg
     THEN cfg' = c /\ QueueSetConfig(c)
     ELSE /\ retriesLeft' = IF spiChanged /\ state = "PENDING"
                            THEN Retries ELSE retriesLeft
          /\ UNCHANGED <<cfg, state, cmdSeq, payload, outcome>>
  /\ NoCount /\ UNCHANGED <<active, lastSeq, restarts, stmVars, age>>

(* The controller is started again: cmd_init clears g_cmd, the STM32 runs  *)
(* on.                                                                     *)
Restart(c) ==
  /\ restarts < MaxRestarts /\ restarts' = restarts + 1
  /\ cfg' = c /\ payload' = c /\ cmdSeq' = 1
  /\ state' = "PENDING" /\ retriesLeft' = Retries
  /\ active' = None /\ outcome' = "none"
  /\ haveLast' = FALSE /\ lastSeq' = 0 /\ NoCount
  /\ UNCHANGED <<reloads, stmVars, age>>

(* The command as the STM32 receives it: intact, unrecognisable, or        *)
(* recognised with a bad CRC.  The line may still be high afterwards.      *)
Transmit(tx) ==
  /\ stmCmd' = IF state = "PENDING" /\ tx # "lost"
               THEN [seq |-> cmdSeq, cfg |-> payload, intact |-> tx = "ok"]
               ELSE stmCmd
  /\ ready' \in BOOLEAN
  /\ UNCHANGED <<stmCfg, ackSeq, ack, out, resets, reloads, restarts>>

(* rpi_spi_write_read_data fails or is interrupted: no attempt is counted  *)
(* and nothing received is looked at, but the command may have got through.*)
ExchangeFails(tx) == /\ ready /\ Transmit(tx)
                     /\ NoCount /\ UNCHANGED <<cmdVars, seqVars, age>>

(* cmd_count_attempt.                                                      *)
BudgetUnguarded == IF state = "PENDING" THEN retriesLeft - 1 ELSE retriesLeft
Budget == IF state = "PENDING" /\ retriesLeft > 0 THEN retriesLeft - 1 ELSE retriesLeft

(* The size check that precedes the ACK handling.                          *)
SizeErr == /\ active # None /\ Rows[out.cfg] # Rows[active]
           /\ ~out.applied

(* cmd_observe, with the budget already charged for this exchange.         *)
MatchesAny == TRUE
Matches == out.ackSeq = cmdSeq

GiveUp == IF Budget = 0
          THEN state' = "IDLE" /\ outcome' = "gaveup" /\ UNCHANGED active
          ELSE UNCHANGED <<state, active, outcome>>

ObserveNoNack ==
  \/ state # "PENDING" /\ UNCHANGED <<state, active, outcome>>
  \/ state = "PENDING" /\ ~Matches /\ GiveUp
  \/ /\ state = "PENDING" /\ Matches /\ out.ack = "ok"
     /\ active' = payload /\ state' = "IDLE" /\ outcome' = "ok"
  \/ /\ state = "PENDING" /\ Matches /\ out.ack # "ok"
     /\ UNCHANGED <<state, active, outcome>>

Observe ==
  \/ state # "PENDING" /\ UNCHANGED <<state, active, outcome>>
  \/ state = "PENDING" /\ ~Matches /\ GiveUp
  \/ /\ state = "PENDING" /\ Matches /\ out.ack = "ok"
     /\ active' = payload /\ state' = "IDLE" /\ outcome' = "ok"
  \/ /\ state = "PENDING" /\ Matches /\ out.ack = "nack"
     /\ state' = "IDLE" /\ outcome' = "nack" /\ UNCHANGED active
  \/ /\ state = "PENDING" /\ Matches /\ out.ack = "none"
     /\ UNCHANGED <<state, active, outcome>>

(* (int32_t)(h->seq - last_seq)                                            *)
DiffPlain == out.seq - lastSeq
Diff == LET d == (out.seq - lastSeq) % FrameMod
        IN IF d < Half THEN d ELSE d - FrameMod

Account ==
  /\ haveLast' = TRUE /\ lastSeq' = out.seq /\ age' = 0
  /\ counted' = CASE ~haveLast -> "first"
                  [] haveLast /\ Diff = 0 -> "duplicate"
                  [] haveLast /\ Diff >= 1 -> "next"
                  [] haveLast /\ Diff < 0 -> "reset"
  /\ gap' = IF haveLast /\ Diff > 1 THEN Diff - 1 ELSE 0

Published == counted' \in {"first", "next", "reset"}

(* A complete exchange.  A frame that arrives damaged, or with the wrong   *)
(* size, is dropped before the ACK in it is looked at.                     *)
Exchange(tx) == ready /\ Transmit(tx) /\ retriesLeft' = Budget
                /\ UNCHANGED <<cmdSeq, payload, cfg>>

ExchangeDamaged(tx) == /\ Exchange(tx)
                       /\ counted' = "error" /\ gap' = 0
                       /\ UNCHANGED <<state, active, outcome, haveLast, lastSeq, age>>

ExchangeRefused(tx) == /\ SizeErr /\ Exchange(tx)
                       /\ counted' = "error" /\ gap' = 0
                       /\ UNCHANGED <<state, active, outcome, haveLast, lastSeq, age>>

ExchangeAccepted(tx) == ~SizeErr /\ Exchange(tx) /\ Observe /\ Account

-----------------------------------------------------------------------------
TxResults == {"ok", "lost", "crc"}

(* An exchange in which both directions arrive intact.                     *)
CleanExchange == ExchangeRefused("ok") \/ ExchangeAccepted("ok")

Next == \/ StmBlock \/ StmReset
        \/ \E c \in Configs, b \in BOOLEAN : Reload(c, b)
        \/ \E c \in Configs : Restart(c)
        \/ \E tx \in TxResults : \/ ExchangeFails(tx) \/ ExchangeDamaged(tx)
                                 \/ ExchangeRefused(tx) \/ ExchangeAccepted(tx)

Spec == Init /\ [][Next]_vars

(* The STM32 goes on sampling blocks, and the wire, however bad, lets a    *)
(* clean exchange through again and again.                                 *)
FairSpec == Spec /\ WF_vars(StmBlock) /\ SF_vars(CleanExchange)

-----------------------------------------------------------------------------
CmdType == /\ state \in {"IDLE", "PENDING"} /\ cmdSeq \in CmdSeqs \ {0}
           /\ retriesLeft \in 0 .. Retries /\ payload \in Configs /\ cfg \in Configs
           /\ active \in Configs \cup {None}
           /\ outcome \in {"none", "ok", "nack", "gaveup"}
           /\ reloads \in 0 .. MaxReloads /\ restarts \in 0 .. MaxRestarts
SeqType == /\ haveLast \in BOOLEAN /\ lastSeq \in Seqs /\ gap \in 0 .. Half - 2
           /\ counted \in {"none", "first", "duplicate", "next", "reset", "error"}
           /\ age \in 0 .. Half
StmType == /\ stmCfg \in Configs \ Rejected /\ stmCmd \in Commands \cup {None}
           /\ ackSeq \in CmdSeqs /\ ack \in {"none", "ok", "nack"}
           /\ out \in FrameSet /\ ready \in BOOLEAN /\ resets \in 0 .. MaxResets

(* Every variable keeps its type; the retry budget stays within            *)
(* CMD_MAX_RETRIES and the gap a frame reports below half the range of     *)
(* the frame counter.                                                      *)
TypeOK == CmdType /\ SeqType /\ StmType

(* Once cmd_observe has taken an ACK_OK, the configuration in active_stm   *)
(* is the one the STM32 runs, until the next command is queued or the      *)
(* STM32 resets: no late, repeated or superseded command changes it.       *)
AckMeansRunning ==
  state = "IDLE" /\ outcome = "ok" /\ resets = 0 => stmCfg = active

(* The frame that carries the accepted ACK was itself sampled under the    *)
(* acknowledged configuration, also across STM32 resets.                   *)
AckFrameUsesConfig ==
  [][state = "PENDING" /\ state' = "IDLE" /\ outcome' = "ok"
       => out.cfg = active']_vars

(* seq_drops counts exactly the blocks between two accepted frames, across *)
(* the wrap of the frame counter, and only a frame not seen before is      *)
(* published.                                                              *)
GapsExact ==
  [][\A tx \in TxResults : ExchangeAccepted(tx) /\ haveLast /\ age < Half =>
       /\ Published <=> age > 0
       /\ age > 0 => gap' = age - 1]_vars

(* A command does not stay in flight for ever: it is acknowledged, refused *)
(* or given up once its retry budget is spent.                             *)
CommandResolved == state = "PENDING" ~> state = "IDLE"
=============================================================================
