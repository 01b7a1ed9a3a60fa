-------------------------- MODULE CommandLinkProofs --------------------------
(***************************************************************************)
(* Proofs about CommandLink, for every set of configurations, retry budget *)
(* and width of the frame counter.                                         *)
(***************************************************************************)
EXTENDS CommandLink, TLAPS

-----------------------------------------------------------------------------
(***************************************************************************)
(* Arithmetic of the frame counter.                                        *)
(***************************************************************************)
LEMMA HalfFacts == /\ Half \in Nat /\ Half >= 2 /\ 2 * Half = FrameMod
                   /\ FrameMod \in Nat /\ FrameMod > 3
  BY FrameAssumption, SMT DEF Half

(* Reduction modulo FrameMod, on the range a difference of two counter     *)
(* values can have.                                                        *)
LEMMA ModFrame ==
  /\ \A x \in Seqs : x % FrameMod = x
  /\ \A x \in 1 .. FrameMod - 1 : (x - FrameMod) % FrameMod = x
  BY HalfFacts, SMT DEF Seqs

LEMMA IncSeqType == \A s \in Seqs : IncSeq(s) \in Seqs
  BY HalfFacts, SMT DEF Seqs, IncSeq

(* The signed difference lies in the range of the signed type.             *)
LEMMA DiffRange ==
  ASSUME SeqType, StmType
  PROVE  Diff \in Int /\ -Half <= Diff /\ Diff < Half
  <1>1. out.seq \in Seqs /\ lastSeq \in Seqs
    BY DEF SeqType, StmType, FrameSet
  <1>2. out.seq - lastSeq \in Int /\ FrameMod \in Nat \ {0}
    BY <1>1, HalfFacts, SMT DEF Seqs
  <1>3. (out.seq - lastSeq) % FrameMod \in 0 .. FrameMod - 1
    BY <1>2, SMT
  <1> QED
    BY <1>3, HalfFacts, SMT DEF Diff

-----------------------------------------------------------------------------
(***************************************************************************)
(* Types.  Each queued command is paid for by a reload, so cmd_seq stays   *)
(* in range.                                                               *)
(***************************************************************************)
SeqPaid == cmdSeq <= reloads + 1
TypeInv == TypeOK /\ SeqPaid

LEMMA Bounds == /\ MaxReloads \in Nat /\ MaxResets \in Nat /\ MaxRestarts \in Nat
                /\ 0 \in 0 .. MaxResets /\ 0 \in CmdSeqs /\ 1 \in CmdSeqs /\ CmdSeqs \subseteq Nat
                /\ Retries \in Nat /\ Retries >= 1
                /\ 0 \in 0 .. Half - 2 /\ 0 \in 0 .. Half /\ Half \in 0 .. Half
                /\ 0 \in Seqs /\ Seqs \subseteq Nat
  BY LimitAssumption, RetryAssumption, HalfFacts, SMT DEF CmdSeqs, Seqs

LEMMA TypeInit == Init => TypeInv
  <1> SUFFICES ASSUME Init PROVE TypeInv
    OBVIOUS
  <1>1. PICK c \in Configs, d \in Configs \ Rejected, s \in Seqs :
             /\ cfg = c /\ payload = c
             /\ stmCfg = d
             /\ out = [seq |-> s, cfg |-> d, ackSeq |-> 0, ack |-> "none",
                       applied |-> FALSE]
    BY DEF Init
  <1>2. CmdType
    BY <1>1, Bounds, SMT DEF Init, CmdType
  <1>3. SeqType
    BY Bounds DEF Init, SeqType
  <1>4. out \in FrameSet
    BY <1>1, Bounds DEF FrameSet
  <1>5. StmType
    BY <1>1, <1>4, Bounds DEF Init, StmType
  <1>6. SeqPaid
    BY SMT DEF Init, SeqPaid
  <1> QED
    BY <1>2, <1>3, <1>5, <1>6 DEF TypeInv, TypeOK

LEMMA StmBlockType == TypeInv /\ StmBlock => StmType'
  <1> SUFFICES ASSUME TypeInv, StmBlock PROVE StmType'
    OBVIOUS
  <1>1. CASE Fresh
    <2>1. stmCmd \in Commands
      BY <1>1 DEF Fresh, TypeInv, TypeOK, StmType
    <2>2. stmCmd.seq \in CmdSeqs /\ stmCmd.cfg \in Configs
      BY <2>1 DEF Commands
    <2>3. stmCfg' \in Configs \ Rejected
      BY <1>1, <2>2 DEF StmBlock, Good, TypeInv, TypeOK, StmType
    <2>4. ackSeq' \in CmdSeqs /\ ack' \in {"none", "ok", "nack"}
      BY <1>1, <2>2 DEF StmBlock
    <2>5. out' \in FrameSet
      <3>1. out.seq \in Seqs
        BY DEF TypeInv, TypeOK, StmType, FrameSet
      <3>2. (Fresh /\ Good) \in BOOLEAN
        BY DEF Fresh, Good
      <3> QED
        BY <2>3, <2>4, <3>1, <3>2, IncSeqType, Zenon DEF StmBlock, FrameSet
    <2> QED
      BY <2>3, <2>4, <2>5 DEF StmBlock, TypeInv, TypeOK, StmType
  <1>2. CASE ~Fresh
    <2>1. stmCfg' = stmCfg /\ ackSeq' = ackSeq /\ ack' = ack
      BY <1>2 DEF StmBlock
    <2>2. out' \in FrameSet
      <3>1. out.seq \in Seqs
        BY DEF TypeInv, TypeOK, StmType, FrameSet
      <3>2. (Fresh /\ Good) = FALSE
        BY <1>2
      <3>3. /\ stmCfg \in Configs /\ ackSeq \in CmdSeqs
            /\ ack \in {"none", "ok", "nack"}
        BY DEF TypeInv, TypeOK, StmType
      <3> QED
        BY <2>1, <3>1, <3>2, <3>3, IncSeqType, Zenon DEF StmBlock, FrameSet
    <2> QED
      BY <2>1, <2>2 DEF StmBlock, TypeInv, TypeOK, StmType
  <1> QED
    BY <1>1, <1>2

LEMMA StmResetType == TypeInv /\ StmReset => StmType'
  <1> SUFFICES ASSUME TypeInv, StmReset PROVE StmType'
    OBVIOUS
  <1>1. stmCfg' \in Configs \ Rejected
    BY DEF StmReset
  <1>2. out' \in FrameSet
    BY <1>1, Bounds DEF StmReset, FrameSet
  <1>3. resets' \in 0 .. MaxResets
    BY Bounds, SMT DEF StmReset, TypeInv, TypeOK, StmType
  <1> QED
    BY <1>1, <1>2, <1>3, Bounds DEF StmReset, StmType

(* The exchange itself: the budget and the command register.               *)
LEMMA BudgetType == CmdType => Budget \in 0 .. Retries
  BY Bounds, SMT DEF CmdType, Budget

LEMMA TransmitType ==
  ASSUME TypeInv, NEW tx \in TxResults, Transmit(tx)
  PROVE  StmType'
  <1>1. CmdType /\ StmType
    BY DEF TypeInv, TypeOK
  <1>2. (tx = "ok") \in BOOLEAN
    OBVIOUS
  <1>3. stmCmd' \in Commands \cup {None}
    <2>1. [seq |-> cmdSeq, cfg |-> payload, intact |-> tx = "ok"] \in Commands
      BY <1>1, <1>2, Zenon DEF CmdType, Commands
    <2> QED
      BY <1>1, <2>1 DEF Transmit, StmType
  <1> QED
    BY <1>1, <1>3 DEF Transmit, StmType

LEMMA ExchangeType ==
  ASSUME TypeInv, NEW tx \in TxResults, Exchange(tx)
  PROVE  /\ StmType'
         /\ retriesLeft' \in 0 .. Retries
         /\ reloads' = reloads /\ restarts' = restarts
         /\ cmdSeq' = cmdSeq /\ payload' = payload /\ cfg' = cfg
  BY TransmitType, BudgetType DEF Exchange, Transmit, TypeInv, TypeOK

LEMMA ObserveType ==
  ASSUME CmdType, Observe, UNCHANGED payload
  PROVE  /\ state' \in {"IDLE", "PENDING"} /\ active' \in Configs \cup {None}
         /\ outcome' \in {"none", "ok", "nack", "gaveup"}
  BY DEF CmdType, Observe, GiveUp

LEMMA AccountType == TypeInv /\ Account => SeqType'
  <1> SUFFICES ASSUME TypeInv, Account PROVE SeqType'
    OBVIOUS
  <1>1. haveLast' \in BOOLEAN /\ lastSeq' \in Seqs
    BY DEF Account, TypeInv, TypeOK, StmType, FrameSet
  <1>2. Diff \in Int /\ -Half <= Diff /\ Diff < Half
    BY DiffRange DEF TypeInv, TypeOK
  <1>3. gap' \in 0 .. Half - 2
    BY <1>2, HalfFacts, SMT DEF Account
  <1>4. counted' \in {"none", "first", "duplicate", "next", "reset", "error"}
    <2>1. haveLast \in BOOLEAN
      BY DEF TypeInv, TypeOK, SeqType
    <2>2. Diff = 0 \/ Diff >= 1 \/ Diff < 0
      BY <1>2, SMT
    <2>3. CASE ~haveLast
      BY <2>3 DEF Account
    <2>4. CASE haveLast /\ Diff = 0
      <3>1. ~(Diff >= 1) /\ ~(Diff < 0)
        BY <2>4, SMT
      <3> QED
        BY <2>4, <3>1 DEF Account
    <2>5. CASE haveLast /\ Diff >= 1
      <3>1. Diff # 0 /\ ~(Diff < 0)
        BY <1>2, <2>5, SMT
      <3> QED
        BY <2>5, <3>1 DEF Account
    <2>6. CASE haveLast /\ Diff < 0
      <3>1. Diff # 0 /\ ~(Diff >= 1)
        BY <1>2, <2>6, SMT
      <3> QED
        BY <2>6, <3>1 DEF Account
    <2> QED
      BY <2>1, <2>2, <2>3, <2>4, <2>5, <2>6
  <1>5. age' \in 0 .. Half
    BY Bounds DEF Account
  <1> QED
    BY <1>1, <1>3, <1>4, <1>5 DEF SeqType

LEMMA TypeStep == TypeInv /\ [Next]_vars => TypeInv'
  <1> SUFFICES ASSUME TypeInv, [Next]_vars PROVE TypeInv'
    OBVIOUS
  <1>0. CmdType /\ SeqType /\ StmType /\ SeqPaid
    BY DEF TypeInv, TypeOK
  <1>1. CASE StmBlock
    <2>1. StmType'
      BY <1>1, StmBlockType
    <2>2. age' \in 0 .. Half
      BY <1>0, <1>1, HalfFacts, SMT DEF StmBlock, SeqType
    <2>3. SeqType'
      BY <1>0, <1>1, <2>2, Bounds DEF StmBlock, NoCount, seqVars, SeqType
    <2> QED
      BY <1>0, <1>1, <2>1, <2>3
      DEF StmBlock, cmdVars, CmdType, SeqPaid, TypeInv, TypeOK
  <1>2. CASE StmReset
    <2>1. StmType'
      BY <1>2, StmResetType
    <2>2. SeqType'
      BY <1>0, <1>2, Bounds DEF StmReset, NoCount, seqVars, SeqType
    <2> QED
      BY <1>0, <1>2, <2>1, <2>2
      DEF StmReset, cmdVars, CmdType, SeqPaid, TypeInv, TypeOK
  <1>3. ASSUME NEW tx \in TxResults, ExchangeFails(tx)
        PROVE  TypeInv'
    <2>1. StmType'
      BY <1>3, TransmitType DEF ExchangeFails
    <2>2. SeqType'
      BY <1>0, <1>3, Bounds DEF ExchangeFails, NoCount, seqVars, SeqType
    <2> QED
      BY <1>0, <1>3, <2>1, <2>2
      DEF ExchangeFails, Transmit, cmdVars, CmdType, SeqPaid, TypeInv, TypeOK
  <1>4. ASSUME NEW c \in Configs, NEW b \in BOOLEAN, Reload(c, b)
        PROVE  TypeInv'
    <2>1. StmType'
      BY <1>0, <1>4 DEF Reload, stmVars, StmType
    <2>2. (haveLast /\ ~b) \in BOOLEAN
      OBVIOUS
    <2>3. SeqType'
      BY <1>0, <1>4, <2>2, Bounds, Zenon DEF Reload, NoCount, SeqType
    <2>4. /\ reloads \in 0 .. MaxReloads /\ reloads < MaxReloads
          /\ reloads' = reloads + 1 /\ cmdSeq \in CmdSeqs \ {0}
      BY <1>0, <1>4 DEF Reload, CmdType
    <2>5. /\ cmdSeq' \in CmdSeqs \ {0} /\ cmdSeq' <= reloads' + 1
          /\ reloads' \in 0 .. MaxReloads
      <3>1. cmdSeq' = cmdSeq \/ cmdSeq' = cmdSeq + 1
        BY <1>4 DEF Reload, QueueSetConfig
      <3> QED
        BY <1>0, <2>4, <3>1, Bounds, SMT DEF SeqPaid, CmdSeqs
    <2>6. retriesLeft' \in 0 .. Retries
      BY <1>0, <1>4, Bounds, SMT DEF Reload, QueueSetConfig, CmdType
    <2>7. CmdType'
      BY <1>0, <1>4, <2>5, <2>6 DEF Reload, QueueSetConfig, CmdType
    <2> QED
      BY <2>1, <2>3, <2>5, <2>7 DEF SeqPaid, TypeInv, TypeOK
  <1>5. ASSUME NEW c \in Configs, Restart(c)
        PROVE  TypeInv'
    <2>1. StmType'
      BY <1>0, <1>5 DEF Restart, stmVars, StmType
    <2>2. SeqType'
      BY <1>0, <1>5, Bounds DEF Restart, NoCount, SeqType
    <2>3. restarts' \in 0 .. MaxRestarts /\ retriesLeft' \in 0 .. Retries
      BY <1>0, <1>5, Bounds, SMT DEF Restart, CmdType
    <2>4. cmdSeq' \in CmdSeqs \ {0} /\ cmdSeq' <= reloads' + 1
      BY <1>0, <1>5, Bounds, SMT DEF Restart, CmdType
    <2>5. CmdType'
      BY <1>0, <1>5, <2>3, <2>4 DEF Restart, CmdType
    <2> QED
      BY <2>1, <2>2, <2>4, <2>5 DEF SeqPaid, TypeInv, TypeOK
  <1>6. ASSUME NEW tx \in TxResults,
               ExchangeDamaged(tx) \/ ExchangeRefused(tx)
        PROVE  TypeInv'
    <2>1. Exchange(tx)
      BY <1>6 DEF ExchangeDamaged, ExchangeRefused
    <2>2. /\ counted' = "error" /\ gap' = 0
          /\ UNCHANGED <<state, active, outcome, haveLast, lastSeq, age>>
      BY <1>6 DEF ExchangeDamaged, ExchangeRefused
    <2>3. SeqType'
      BY <1>0, <2>2, Bounds DEF SeqType
    <2>4. CmdType' /\ SeqPaid'
      BY <1>0, <2>1, <2>2, ExchangeType DEF CmdType, SeqPaid
    <2> QED
      BY <2>1, <2>3, <2>4, ExchangeType DEF TypeInv, TypeOK
  <1>7. ASSUME NEW tx \in TxResults, ExchangeAccepted(tx)
        PROVE  TypeInv'
    <2>1. Exchange(tx) /\ Observe /\ Account
      BY <1>7 DEF ExchangeAccepted
    <2>2. SeqType'
      BY <2>1, AccountType
    <2>3. CmdType' /\ SeqPaid'
      BY <1>0, <2>1, ExchangeType, ObserveType DEF CmdType, SeqPaid
    <2> QED
      BY <2>1, <2>2, <2>3, ExchangeType DEF TypeInv, TypeOK
  <1>8. CASE UNCHANGED vars
    BY <1>8, <1>0 DEF vars, cmdVars, seqVars, statVars, stmVars, CmdType, SeqType,
                 StmType, SeqPaid, TypeInv, TypeOK
  <1> QED
    BY <1>1, <1>2, <1>3, <1>4, <1>5, <1>6, <1>7, <1>8 DEF Next

(* Every variable keeps its type: the retry budget of g_cmd never          *)
(* underflows, and no reported gap reaches half the counter's range.       *)
THEOREM TypeCorrect == Spec => []TypeOK
  <1>1. TypeInv => TypeOK
    BY DEF TypeInv
  <1> QED
    BY TypeInit, TypeStep, <1>1, PTL DEF Spec

-----------------------------------------------------------------------------
(***************************************************************************)
(* What an acknowledgement means, as long as the controller is not         *)
(* restarted: a number identifies one command.                             *)
(***************************************************************************)

(* The frame waiting to be clocked out reports the state of the STM32.     *)
FrameTellsState == out.ackSeq = ackSeq /\ out.ack = ack /\ out.cfg = stmCfg

(* Numbers on the link come from g_cmd, and a command waiting in the STM32 *)
(* is not older than the last one it processed.                            *)
NumbersKnown == /\ ackSeq <= cmdSeq
                /\ stmCmd # None => ackSeq <= stmCmd.seq /\ stmCmd.seq <= cmdSeq

(* Whatever carries the number in flight carries the payload in flight.    *)
CommandIsPayload == stmCmd # None /\ stmCmd.seq = cmdSeq => stmCmd.cfg = payload
AckIsPayload     == ackSeq = cmdSeq /\ ack = "ok" => stmCfg = payload

(* A command resolved by an ACK is the last one the STM32 processed.       *)
ResolvedByAck ==
  state = "IDLE" /\ outcome = "ok" =>
    /\ active = payload
    /\ resets = 0 => ackSeq = cmdSeq /\ ack = "ok"

AckInv == /\ FrameTellsState /\ NumbersKnown /\ CommandIsPayload
          /\ AckIsPayload /\ ResolvedByAck

LEMMA AckInit == Init => AckInv
  <1> SUFFICES ASSUME Init PROVE AckInv
    OBVIOUS
  <1>1. FrameTellsState
    BY DEF Init, FrameTellsState
  <1>2. NumbersKnown /\ CommandIsPayload /\ AckIsPayload /\ ResolvedByAck
    BY SMT DEF Init, NumbersKnown, CommandIsPayload, AckIsPayload, ResolvedByAck
  <1> QED
    BY <1>1, <1>2 DEF AckInv

LEMMA AckStmBlock == TypeInv /\ AckInv /\ StmBlock => AckInv'
  <1> SUFFICES ASSUME TypeInv, AckInv, StmBlock PROVE AckInv'
    OBVIOUS
  <1>0. /\ stmCmd' = None
        /\ UNCHANGED <<state, cmdSeq, payload, active, outcome, resets>>
    BY DEF StmBlock, cmdVars
  <1>1. FrameTellsState'
    BY DEF StmBlock, FrameTellsState
  <1>2. CASE Fresh
    <2>1. /\ stmCmd # None /\ stmCmd \in Commands
          /\ ackSeq' = stmCmd.seq /\ ack' = (IF Good THEN "ok" ELSE "nack")
          /\ stmCfg' = (IF Good THEN stmCmd.cfg ELSE stmCfg)
      BY <1>2 DEF StmBlock, Fresh, TypeInv, TypeOK, StmType
    <2>2. NumbersKnown' /\ CommandIsPayload'
      BY <1>0, <2>1 DEF AckInv, NumbersKnown, CommandIsPayload
    <2>3. AckIsPayload'
      BY <1>0, <2>1 DEF AckInv, CommandIsPayload, AckIsPayload
    <2>4. ResolvedByAck'
      <3> SUFFICES ASSUME state = "IDLE", outcome = "ok"
                   PROVE  /\ active = payload
                          /\ resets = 0 => ackSeq' = cmdSeq /\ ack' = "ok"
        BY <1>0 DEF ResolvedByAck
      <3>1. /\ active = payload
            /\ resets = 0 => ackSeq = cmdSeq /\ ack = "ok"
        BY DEF AckInv, ResolvedByAck
      <3>2. ackSeq <= stmCmd.seq /\ stmCmd.seq <= cmdSeq
        BY <2>1 DEF AckInv, NumbersKnown
      <3>3. ackSeq \in Nat /\ stmCmd.seq \in Nat /\ cmdSeq \in Nat
        BY <2>1, Bounds DEF TypeInv, TypeOK, CmdType, StmType, Commands
      <3>4. ackSeq = cmdSeq => stmCmd.seq = ackSeq
        BY <3>2, <3>3, SMT
      <3>5. resets # 0
        BY <1>2, <3>1, <3>4 DEF Fresh
      <3> QED
        BY <3>1, <3>5
    <2> QED
      BY <1>1, <2>2, <2>3, <2>4 DEF AckInv
  <1>3. CASE ~Fresh
    <2>1. stmCfg' = stmCfg /\ ackSeq' = ackSeq /\ ack' = ack
      BY <1>3 DEF StmBlock
    <2> QED
      BY <1>0, <1>1, <2>1 DEF AckInv, NumbersKnown, CommandIsPayload, AckIsPayload,
                              ResolvedByAck
  <1> QED
    BY <1>2, <1>3

LEMMA AckStmReset == TypeInv /\ AckInv /\ StmReset => AckInv'
  <1> SUFFICES ASSUME TypeInv, AckInv, StmReset PROVE AckInv'
    OBVIOUS
  <1>0. /\ stmCmd' = None /\ ackSeq' = 0 /\ ack' = "none"
        /\ UNCHANGED <<state, cmdSeq, payload, active, outcome>>
    BY DEF StmReset, cmdVars
  <1>1. FrameTellsState'
    BY DEF StmReset, FrameTellsState
  <1>2. cmdSeq \in Nat \ {0} /\ resets' # 0
    BY Bounds, SMT DEF StmReset, TypeInv, TypeOK, CmdType, StmType
  <1>3. NumbersKnown' /\ CommandIsPayload' /\ AckIsPayload'
    BY <1>0, <1>2, SMT DEF NumbersKnown, CommandIsPayload, AckIsPayload
  <1>4. ResolvedByAck'
    BY <1>0, <1>2 DEF AckInv, ResolvedByAck
  <1> QED
    BY <1>1, <1>3, <1>4 DEF AckInv

LEMMA AckReload ==
  ASSUME TypeInv, AckInv, NEW c \in Configs, NEW b \in BOOLEAN, Reload(c, b)
  PROVE  AckInv'
  <1>0. UNCHANGED <<stmCfg, stmCmd, ackSeq, ack, out, resets, active>>
    BY DEF Reload, stmVars
  <1>1. FrameTellsState'
    BY <1>0 DEF AckInv, FrameTellsState
  <1>2. CASE c = cfg
    BY <1>0, <1>1, <1>2 DEF Reload, AckInv, NumbersKnown, CommandIsPayload,
                            AckIsPayload, ResolvedByAck
  <1>3. CASE c # cfg
    <2>1. cmdSeq' = cmdSeq + 1 /\ state' = "PENDING"
      BY <1>3 DEF Reload, QueueSetConfig
    <2>2. cmdSeq \in Nat /\ ackSeq \in Nat
      BY Bounds DEF TypeInv, TypeOK, CmdType, StmType
    <2>3. CASE stmCmd = None
      BY <1>0, <1>1, <2>1, <2>2, <2>3, SMT
      DEF AckInv, NumbersKnown, CommandIsPayload, AckIsPayload, ResolvedByAck
    <2>4. CASE stmCmd # None
      <3>1. stmCmd.seq \in Nat
        BY <2>4, Bounds DEF TypeInv, TypeOK, StmType, Commands
      <3> QED
        BY <1>0, <1>1, <2>1, <2>2, <2>4, <3>1, SMT
        DEF AckInv, NumbersKnown, CommandIsPayload, AckIsPayload, ResolvedByAck
    <2> QED
      BY <2>3, <2>4
  <1> QED
    BY <1>2, <1>3

(* Sending the command in flight keeps everything but ResolvedByAck, which *)
(* depends on what is done with the frame received.                        *)
LEMMA AckTransmit ==
  ASSUME TypeInv, AckInv, NEW tx \in TxResults, Transmit(tx), UNCHANGED <<cmdSeq, payload>>
  PROVE  /\ (FrameTellsState /\ NumbersKnown /\ CommandIsPayload /\ AckIsPayload)'
         /\ UNCHANGED <<payload, cmdSeq, ackSeq, ack, resets, out, stmCfg>>
  <1>1. UNCHANGED <<payload, cmdSeq, ackSeq, ack, resets, out, stmCfg>>
    BY DEF Transmit
  <1>2. CASE stmCmd' = stmCmd
    BY <1>1, <1>2 DEF AckInv, FrameTellsState, NumbersKnown, CommandIsPayload, AckIsPayload
  <1>3. CASE stmCmd' = [seq |-> cmdSeq, cfg |-> payload, intact |-> tx = "ok"]
    <2>1. stmCmd'.seq = cmdSeq /\ stmCmd'.cfg = payload
      BY <1>3
    <2>2. cmdSeq \in Nat /\ ackSeq <= cmdSeq
      BY Bounds DEF TypeInv, TypeOK, CmdType, AckInv, NumbersKnown
    <2>3. cmdSeq <= cmdSeq
      BY <2>2, SMT
    <2> QED
      BY <1>1, <2>1, <2>2, <2>3
      DEF AckInv, FrameTellsState, NumbersKnown, CommandIsPayload, AckIsPayload
  <1> QED
    BY <1>1, <1>2, <1>3 DEF Transmit

LEMMA AckObserve ==
  ASSUME TypeInv, AckInv, Observe,
         UNCHANGED <<payload, cmdSeq, ackSeq, ack, resets>>
  PROVE  ResolvedByAck'
  <1>1. CASE state # "PENDING"
    BY <1>1 DEF Observe, AckInv, ResolvedByAck
  <1>2. CASE state = "PENDING" /\ ~Matches
    BY <1>2 DEF Observe, GiveUp, ResolvedByAck
  <1>3. CASE state = "PENDING" /\ Matches /\ out.ack = "ok"
    <2>1. ackSeq = cmdSeq /\ ack = "ok"
      BY <1>3 DEF Matches, AckInv, FrameTellsState
    <2>2. active' = payload
      BY <1>3 DEF Observe
    <2> QED
      BY <2>1, <2>2 DEF ResolvedByAck
  <1>4. CASE state = "PENDING" /\ Matches /\ out.ack # "ok"
    BY <1>4 DEF Observe, ResolvedByAck
  <1> QED
    BY <1>1, <1>2, <1>3, <1>4

LEMMA AckStep ==
  ASSUME MaxRestarts = 0, TypeInv, AckInv, [Next]_vars
  PROVE  AckInv'
  <1>1. CASE StmBlock
    BY <1>1, AckStmBlock
  <1>2. CASE StmReset
    BY <1>2, AckStmReset
  <1>3. ASSUME NEW tx \in TxResults, ExchangeFails(tx)
        PROVE  AckInv'
    <2>1. Transmit(tx) /\ UNCHANGED <<cmdSeq, payload, state, active, outcome>>
      BY <1>3 DEF ExchangeFails, cmdVars
    <2> QED
      BY <2>1, AckTransmit DEF AckInv, ResolvedByAck
  <1>4. ASSUME NEW c \in Configs, NEW b \in BOOLEAN, Reload(c, b)
        PROVE  AckInv'
    BY <1>4, AckReload
  <1>5. ASSUME NEW c \in Configs, Restart(c)
        PROVE  FALSE
    BY <1>5, SMT DEF Restart, TypeInv, TypeOK, CmdType
  <1>6. ASSUME NEW tx \in TxResults,
               ExchangeDamaged(tx) \/ ExchangeRefused(tx)
        PROVE  AckInv'
    <2>1. Transmit(tx) /\ UNCHANGED <<cmdSeq, payload, state, active, outcome>>
      BY <1>6 DEF ExchangeDamaged, ExchangeRefused, Exchange
    <2> QED
      BY <2>1, AckTransmit DEF AckInv, ResolvedByAck
  <1>7. ASSUME NEW tx \in TxResults, ExchangeAccepted(tx)
        PROVE  AckInv'
    <2>1. Transmit(tx) /\ UNCHANGED <<cmdSeq, payload>> /\ Observe
      BY <1>7 DEF ExchangeAccepted, Exchange
    <2> QED
      BY <2>1, AckTransmit, AckObserve DEF AckInv
  <1>8. CASE UNCHANGED vars
    BY <1>8 DEF vars, cmdVars, stmVars, AckInv, FrameTellsState, NumbersKnown,
                CommandIsPayload, AckIsPayload, ResolvedByAck
  <1> QED
    BY <1>1, <1>2, <1>3, <1>4, <1>5, <1>6, <1>7, <1>8 DEF Next

LEMMA AckAlways ==
  ASSUME MaxRestarts = 0
  PROVE  Spec => [](TypeInv /\ AckInv)
  <1>1. Init => TypeInv /\ AckInv
    BY TypeInit, AckInit
  <1>2. (TypeInv /\ AckInv) /\ [Next]_vars => (TypeInv /\ AckInv)'
    BY TypeStep, AckStep
  <1> QED
    BY <1>1, <1>2, PTL DEF Spec

(* As long as the controller is not restarted, a command that cmd_observe  *)
(* resolved with ACK_OK is the configuration the STM32 runs, whatever was  *)
(* lost, damaged, repeated or superseded before, until the STM32 resets.   *)
THEOREM AckMeansRunningCorrect ==
  ASSUME MaxRestarts = 0
  PROVE  Spec => []AckMeansRunning
  <1>1. TypeInv /\ AckInv => AckMeansRunning
    BY DEF AckInv, AckIsPayload, ResolvedByAck, AckMeansRunning
  <1> QED
    BY <1>1, AckAlways, PTL

(* The frame in which cmd_observe finds the ACK was sampled under the      *)
(* acknowledged configuration, also across STM32 resets.                   *)
THEOREM AckFrameUsesConfigCorrect ==
  ASSUME MaxRestarts = 0
  PROVE  Spec => AckFrameUsesConfig
  <1> DEFINE Step == state = "PENDING" /\ state' = "IDLE" /\ outcome' = "ok"
                       => out.cfg = active'
  <1>1. TypeInv /\ AckInv /\ [Next]_vars => [Step]_vars
    <2> SUFFICES ASSUME TypeInv, AckInv, Next,
                        state = "PENDING", state' = "IDLE", outcome' = "ok"
                 PROVE  out.cfg = active'
      OBVIOUS
    <2>1. ~(StmBlock \/ StmReset)
      BY DEF StmBlock, StmReset, cmdVars
    <2>2. ASSUME NEW c \in Configs, NEW b \in BOOLEAN, Reload(c, b)
          PROVE  FALSE
      BY <2>2 DEF Reload, QueueSetConfig
    <2>3. ASSUME NEW c \in Configs, Restart(c)
          PROVE  FALSE
      BY <2>3 DEF Restart
    <2>4. ASSUME NEW tx \in TxResults,
                 ExchangeFails(tx) \/ ExchangeDamaged(tx) \/ ExchangeRefused(tx)
          PROVE  FALSE
      BY <2>4 DEF ExchangeFails, ExchangeDamaged, ExchangeRefused, cmdVars
    <2>5. Observe
      BY <2>1, <2>2, <2>3, <2>4 DEF Next, ExchangeAccepted
    <2>6. Matches /\ out.ack = "ok" /\ active' = payload
      BY <2>5 DEF Observe, GiveUp
    <2> QED
      BY <2>6 DEF Matches, AckInv, FrameTellsState, AckIsPayload
  <1>2. Spec => [][Step]_vars
    BY <1>1, AckAlways, PTL DEF Spec
  <1> QED
    BY <1>2 DEF AckFrameUsesConfig

-----------------------------------------------------------------------------
(***************************************************************************)
(* Sequence accounting, over any number of restarts and resets.            *)
(***************************************************************************)

(* While fewer than Half blocks have passed, the counter of the waiting    *)
(* frame is that many steps after the last one accepted.                   *)
CounterTracksAge ==
  haveLast /\ age < Half =>
    out.seq = IF lastSeq + age < FrameMod THEN lastSeq + age
                                          ELSE (lastSeq + age) - FrameMod

LEMMA DiffIsAge ==
  ASSUME TypeInv, CounterTracksAge, haveLast, age < Half
  PROVE  Diff = age
  <1>1. lastSeq \in Seqs /\ out.seq \in Seqs /\ age \in Nat
    BY HalfFacts, SMT DEF TypeInv, TypeOK, SeqType, StmType, FrameSet
  <1>2. CASE lastSeq + age < FrameMod
    <2>1. out.seq - lastSeq = age /\ age \in Seqs
      BY <1>1, <1>2, HalfFacts, SMT DEF CounterTracksAge, Seqs
    <2>2. (out.seq - lastSeq) % FrameMod = age
      BY <2>1, ModFrame
    <2> QED
      BY <2>2 DEF Diff
  <1>3. CASE ~(lastSeq + age < FrameMod)
    <2>1. out.seq - lastSeq = age - FrameMod /\ age \in 1 .. FrameMod - 1
      BY <1>1, <1>3, HalfFacts, SMT DEF CounterTracksAge, Seqs
    <2>2. (out.seq - lastSeq) % FrameMod = age
      BY <2>1, ModFrame
    <2> QED
      BY <2>2 DEF Diff
  <1> QED
    BY <1>2, <1>3

LEMMA CounterStep == TypeInv /\ CounterTracksAge /\ [Next]_vars => CounterTracksAge'
  <1> SUFFICES ASSUME TypeInv, CounterTracksAge, [Next]_vars
               PROVE  CounterTracksAge'
    OBVIOUS
  <1>0. lastSeq \in Seqs /\ out.seq \in Seqs /\ age \in 0 .. Half
    BY DEF TypeInv, TypeOK, SeqType, StmType, FrameSet
  <1>1. CASE StmBlock
    <2>1. /\ out'.seq = IncSeq(out.seq) /\ UNCHANGED <<haveLast, lastSeq>>
          /\ age' = IF age < Half THEN age + 1 ELSE age
      BY <1>1 DEF StmBlock, seqVars
    <2> QED
      BY <1>0, <2>1, HalfFacts, SMT DEF CounterTracksAge, IncSeq, Seqs
  <1>2. CASE StmReset
    BY <1>2, HalfFacts, SMT DEF StmReset, CounterTracksAge
  <1>3. ASSUME NEW tx \in TxResults, ExchangeFails(tx)
        PROVE  CounterTracksAge'
    BY <1>3 DEF ExchangeFails, Transmit, seqVars, CounterTracksAge
  <1>4. ASSUME NEW c \in Configs, NEW b \in BOOLEAN, Reload(c, b)
        PROVE  CounterTracksAge'
    <2>1. (haveLast' => haveLast) /\ UNCHANGED <<lastSeq, age, out>>
      BY <1>4 DEF Reload, stmVars
    <2> QED
      BY <2>1 DEF CounterTracksAge
  <1>5. ASSUME NEW c \in Configs, Restart(c)
        PROVE  CounterTracksAge'
    BY <1>5 DEF Restart, CounterTracksAge
  <1>6. ASSUME NEW tx \in TxResults,
               ExchangeDamaged(tx) \/ ExchangeRefused(tx)
        PROVE  CounterTracksAge'
    BY <1>6 DEF ExchangeDamaged, ExchangeRefused, Exchange, Transmit, CounterTracksAge
  <1>7. ASSUME NEW tx \in TxResults, ExchangeAccepted(tx)
        PROVE  CounterTracksAge'
    <2>1. out' = out /\ lastSeq' = out.seq /\ age' = 0
      BY <1>7 DEF ExchangeAccepted, Exchange, Transmit, Account
    <2> QED
      BY <1>0, <2>1, HalfFacts, SMT DEF CounterTracksAge, Seqs
  <1>8. CASE UNCHANGED vars
    BY <1>8 DEF vars, seqVars, stmVars, CounterTracksAge
  <1> QED
    BY <1>1, <1>2, <1>3, <1>4, <1>5, <1>6, <1>7, <1>8 DEF Next

(* seq_drops grows by exactly the blocks that were lost between two        *)
(* accepted frames, and a frame is published exactly if it is new, for     *)
(* every width of the counter and across its wrap.                         *)
THEOREM GapsExactCorrect == Spec => GapsExact
  <1> DEFINE Step == \A tx \in TxResults :
                       ExchangeAccepted(tx) /\ haveLast /\ age < Half =>
                         /\ Published <=> age > 0
                         /\ age > 0 => gap' = age - 1
  <1>1. Init => CounterTracksAge
    BY DEF Init, CounterTracksAge
  <1>2. TypeInv /\ CounterTracksAge /\ [Next]_vars => [Step]_vars
    <2> SUFFICES ASSUME TypeInv, CounterTracksAge, NEW tx \in TxResults,
                        ExchangeAccepted(tx), haveLast, age < Half
                 PROVE  /\ Published <=> age > 0
                        /\ age > 0 => gap' = age - 1
      OBVIOUS
    <2>1. Diff = age /\ age \in Nat
      BY DiffIsAge, HalfFacts, SMT DEF TypeInv, TypeOK, SeqType
    <2>2. Account
      BY DEF ExchangeAccepted
    <2>3. CASE age = 0
      <3>1. Diff = 0 /\ ~(Diff >= 1) /\ ~(Diff < 0) /\ ~(age > 0)
        BY <2>1, <2>3, SMT
      <3>2. counted' = "duplicate"
        BY <2>2, <3>1 DEF Account
      <3> QED
        BY <3>1, <3>2 DEF Published
    <2>4. CASE age # 0
      <3>1. Diff # 0 /\ Diff >= 1 /\ ~(Diff < 0) /\ age > 0
        BY <2>1, <2>4, SMT
      <3>2. counted' = "next"
        BY <2>2, <3>1 DEF Account
      <3>3. gap' = age - 1
        BY <2>1, <2>2, <3>1, SMT DEF Account
      <3> QED
        BY <3>1, <3>2, <3>3 DEF Published
    <2> QED
      BY <2>3, <2>4
  <1>3. Spec => [][Step]_vars
    BY <1>1, <1>2, TypeInit, TypeStep, CounterStep, PTL DEF Spec
  <1> QED
    BY <1>3 DEF GapsExact
=============================================================================
