-------------------------- MODULE TransactionProofs -------------------------
(***************************************************************************)
(* Proofs about Transaction, for every set of commands, queue capacity and *)
(* hardware behaviour its constants allow.                                 *)
(***************************************************************************)
EXTENDS Transaction, SdHostProofs

-----------------------------------------------------------------------------
(* Type correctness.                                                       *)

\* The first state has the types.
LEMMA InitType == Init => TypeOK
<1> SUFFICES ASSUME Init PROVE TypeOK
  OBVIOUS
<1>1. NoEvent \in Event
  BY DEF NoEvent, Event
<1>2. HostTypeOK
  <2>1. <<>> \in Seq(Event)
    OBVIOUS
  <2>2. ctrl \subseteq CtrlBits
    BY DEF Init, CtrlBits, ResetBits
  <2>3. panicked \in BOOLEAN
    BY DEF Init
  <2> QED BY <1>1, <2>1, <2>2, <2>3 DEF Init, HostTypeOK, StatusBits
<1>3. hears \in Hearings
  BY DEF Init, Hearings
<1> QED BY <1>1, <1>2, <1>3 DEF Init, TypeOK, States

\* NextState keeps the types of what it changes.
LEMMA NextStateType ==
  ASSUME TypeOK, NEW s \in States, NEW e \in Event, NextState(s, e)
  PROVE  /\ state' \in States /\ evt' \in Event /\ orig' \in Event
         /\ unhandled' \in Event
         /\ pc' \in {"process", "wait", "done"}
         /\ result' \in {"Ok", "Timeout", "NotFound", None}
<1>1. NoEvent \in Event
  BY DEF NoEvent, Event
<1> QED BY <1>1 DEF NextState, TypeOK, Return

\* The errors and the register contents process_events computes.
LEMMA ErrType ==
  ASSUME TypeOK, NEW status
  PROVE  /\ ResponseError(status) \in Errors \cup {None}
         /\ CommandErr(status) \in Errors \cup {None}
         /\ DataStatusErr(status) \in Errors \cup {None}
         /\ DataStatusCtrl(status) \subseteq CtrlBits
         /\ \A c : DmaStop(c) \subseteq CtrlBits
  BY DEF TypeOK, HostTypeOK, ResponseError, CommandErr, DataStatusErr, DataError,
         DataStatusCtrl, DmaStop, FifoReset, Errors, None, CtrlBits, ResetBits

\* The steps of do_transaction keep them, ...
LEMMA ThreadType ==
  ASSUME TypeOK, Thread
  PROVE  TypeOK'
<1> USE DEF TypeOK
<1>1. CASE Begin
  <2>1. hears' \in Hearings
    BY <1>1 DEF Begin, Hearing, Hearings
  <2> QED BY <1>1, <2>1 DEF Begin, HostTypeOK, hostVars, hwVars
<1>2. CASE Issue
  BY <1>2 DEF Issue, HostTypeOK, hostVars, hwVars
<1>3. CASE IssueRefused
  BY <1>3 DEF IssueRefused, Return, HostTypeOK, hostVars, hwVars
<1>4. CASE IssueTimeout
  BY <1>4 DEF IssueTimeout, Return, HostTypeOK, hostVars, hwVars
<1>5. CASE Accepted
  BY <1>5 DEF Accepted, InitialState, HostTypeOK, hostVars, hwVars, NoEvent, Event, States,
             None
<1>6. CASE AcceptTimeout
  BY <1>6 DEF AcceptTimeout, Return, HostTypeOK, hostVars, hwVars
<1>7. CASE Prepare
  BY <1>7 DEF Prepare, EnableDma, CtrlBits, HostTypeOK, hostButCtrl, hwVars
<1>8. CASE ReceiveEvent
  <2>1. Head(queue) \in Event /\ Tail(queue) \in Seq(Event)
    BY <1>8 DEF ReceiveEvent, HostTypeOK
  <2> QED BY <1>8, <2>1 DEF ReceiveEvent, HostTypeOK, hwVars, Event
<1>9. CASE EventTimeout
  BY <1>9 DEF EventTimeout, HostTypeOK, hostVars, hwVars
<1>10. CASE ProcessSendingCmd
  <2> DEFINE rest == [evt EXCEPT !.sdmmc_status =
                        evt.sdmmc_status \ (SD_CMD_ERR_MASK \cup {"CMD_DONE"})]
  <2>1. rest \in Event
    BY DEF Event
  <2>2. \E s \in States : NextState(s, rest)
    BY <1>10 DEF ProcessSendingCmd, SendingCmdNext, States
  <2>3. err' \in Errors \cup {None} /\ ctrl' \subseteq CtrlBits
    BY <1>10, ErrType DEF ProcessSendingCmd, HostTypeOK
  <2> QED BY <1>10, <2>1, <2>2, <2>3, NextStateType
          DEF ProcessSendingCmd, HostTypeOK, hostButCtrl, hwVars
<1>11. CASE ProcessSendingData
  <2> DEFINE rest == [sdmmc_status |-> evt.sdmmc_status \ SD_DATA_ERR_MASK,
                      dma_status |-> {}]
  <2>1. rest \in Event
    BY DEF Event
  <2>2. \E s \in States : NextState(s, rest)
    BY <1>11 DEF ProcessSendingData, SendingDataNext, States
  <2>3. err' \in Errors \cup {None} /\ ctrl' \subseteq CtrlBits
    BY <1>11, ErrType DEF ProcessSendingData, HostTypeOK
  <2> QED BY <1>11, <2>1, <2>2, <2>3, NextStateType
          DEF ProcessSendingData, HostTypeOK, hostButCtrl, hwVars
<1>12. CASE ProcessBusy
  <2> DEFINE rest == [evt EXCEPT !.sdmmc_status = evt.sdmmc_status \ {"DATA_OVER"}]
  <2>1. rest \in Event
    BY DEF Event
  <2>2. \E s \in States : NextState(s, rest)
    BY <1>12 DEF ProcessBusy, States
  <2>3. err' \in Errors \cup {None} /\ ctrl' \subseteq CtrlBits
    BY <1>12, ErrType DEF ProcessBusy, HostTypeOK
  <2> QED BY <1>12, <2>1, <2>2, <2>3, NextStateType
          DEF ProcessBusy, HostTypeOK, hostButCtrl, hwVars
<1>13. CASE ProcessIdle
  <2>1. "Idle" \in States
    BY DEF States
  <2>2. NextState("Idle", evt)
    BY <1>13 DEF ProcessIdle
  <2> QED BY <1>13, <2>1, <2>2, NextStateType DEF ProcessIdle, HostTypeOK, hostVars, hwVars
<1>14. CASE Finish
  BY <1>14 DEF Finish, HostTypeOK, hostVars, hwVars, NoEvent, Event, States, Hearings, None
<1>15. CASE StopDma
  BY <1>15, ErrType DEF StopDma, Return, HostTypeOK, hostButCtrl, hwVars
<1> QED BY <1>1, <1>2, <1>3, <1>4, <1>5, <1>6, <1>7, <1>8, <1>9, <1>10, <1>11, <1>12,
           <1>13, <1>14, <1>15 DEF Thread

\* ... and so do those of the controller.
LEMMA HardwareType ==
  ASSUME TypeOK, Hardware
  PROVE  TypeOK'
<1> USE DEF TypeOK, HostTypeOK
<1>1. CASE HwTake
  BY <1>1 DEF HwTake, hostVars, txnVars
<1>2. CASE HwCommandError
  BY <1>2 DEF HwCommandError, Raise, hostButRint, txnVars, StatusBits,
              SDMMC_LL_EVENT_DEFAULT
<1>3. CASE HwCommandDone
  BY <1>3 DEF HwCommandDone, HwGoes, Raise, hostButRint, txnVars, StatusBits,
              SDMMC_LL_EVENT_DEFAULT
<1>4. CASE HwDataError
  BY <1>4 DEF HwDataError, HwGoes, Raise, hostButRint, txnVars, StatusBits,
              SDMMC_LL_EVENT_DEFAULT
<1>5. CASE HwDataOver
  BY <1>5 DEF HwDataOver, HwGoes, Raise, hostButRint, txnVars, StatusBits,
              SDMMC_LL_EVENT_DEFAULT
<1>6. CASE HwDmaDone
  BY <1>6 DEF HwDmaDone, txnVars, SD_DMA_DONE_MASK
<1>7. CASE HwCardDetect
  BY <1>7 DEF HwCardDetect, Raise, hostButRint, txnVars, StatusBits,
              SDMMC_LL_EVENT_DEFAULT
<1>8. CASE ResetDoneStep
  BY <1>8 DEF ResetDoneStep, HwResetDone, txnVars, hwVars
<1> QED BY <1>1, <1>2, <1>3, <1>4, <1>5, <1>6, <1>7, <1>8 DEF Hardware

\* Every step keeps the types.
LEMMA NextType == TypeOK /\ [Next]_vars => TypeOK'
<1> SUFFICES ASSUME TypeOK, [Next]_vars
             PROVE  TypeOK'
  OBVIOUS
<1>1. CASE Thread
  BY <1>1, ThreadType
<1>2. CASE IsrStep
  BY <1>2, IsrType DEF IsrStep, TypeOK, txnVars, hwVars
<1>3. CASE Hardware
  BY <1>3, HardwareType
<1>4. CASE UNCHANGED vars
  BY <1>4 DEF vars, hostVars, txnVars, hwVars, TypeOK, HostTypeOK
<1> QED BY <1>1, <1>2, <1>3, <1>4 DEF Next

\* Every variable keeps its type.
THEOREM TypeCorrect == Spec => []TypeOK
  BY InitType, NextType, PTL DEF Spec

-----------------------------------------------------------------------------
(* The thread and the controller in step.  For a controller that takes     *)
(* commands promptly, and as long as the interrupt is on, every command    *)
(* has a last answer, and what ends the event loop has seen it.            *)

\* The answers after which the controller has nothing more to say.
Final == IF cmd \in DataCmds THEN {"DATA_OVER", "SBE"} ELSE {"CMD_DONE"}

HasFinal(bits) == bits \cap Final # {}

\* The raw status once the handler has acknowledged what it has read.
Unacked == IF isrPc = "ackSd" THEN rintsts \ isrEvt.sdmmc_status ELSE rintsts

\* The event loop waits for an event, or has just given up on it.
Waits == pc \in {"wait", "timedOut"}

\* The last answer has reached the event loop.
FinalSeen == \/ pc = "process" /\ HasFinal(orig.sdmmc_status)
             \/ Waits /\ HasFinal(unhandled.sdmmc_status)

FinalOut == \/ FinalSeen
            \/ HasFinal(rintsts) \/ HasFinal(isrEvt.sdmmc_status)
            \/ \E i \in 1..Len(queue) : HasFinal(queue[i].sdmmc_status)

\* Nothing follows the last answer on its way to the thread.
FinalIsLast ==
  /\ HasFinal(isrEvt.sdmmc_status) => NoAnswer(Unacked)
  /\ \A i \in 1..Len(queue) :
       HasFinal(queue[i].sdmmc_status)
         => /\ NoAnswer(Unacked) /\ NoAnswer(isrEvt.sdmmc_status)
            /\ \A j \in (i + 1)..Len(queue) : NoAnswer(queue[j].sdmmc_status)
  /\ FinalSeen => PipelineClean

\* What the controller is doing, seen from the thread.
ControllerInStep ==
  /\ hw # "idle" => InFlight /\ hwCmd = cmd /\ cmdReg = NoCmd
  /\ cmdReg = NoCmd \/ (pc = "accept" /\ cmdReg = IF clk < 3 THEN ClkUpdate ELSE cmd)
  /\ InFlight /\ FinalOut => hw = "idle" /\ cmdReg = NoCmd

\* What the event loop knows.
LoopInStep ==
  InLoop =>
    /\ Waits => state # "Idle"
    /\ pc = "process" => evt.sdmmc_status \subseteq orig.sdmmc_status
    /\ state \in {"SendingData", "Busy"} => cmd \in DataCmds
    /\ cmd \in DataCmds => err = None

\* When nothing is expected, nothing comes.
QuietOutside ==
  (~InFlight \/ cmdReg # NoCmd \/ (pc = "process" /\ state = "Idle"))
    => PipelineClean /\ hw = "idle"

InStep ==
  /\ intmask = SDMMC_LL_EVENT_DEFAULT
  /\ FinalIsLast /\ ControllerInStep /\ LoopInStep /\ QuietOutside

SyncInv == TypeOK /\ (Muted \/ InStep)

\* No step sets int_enable again.
LEMMA MutedStays == Muted /\ [Next]_vars => Muted'
<1> SUFFICES ASSUME Muted, [Next]_vars
             PROVE  Muted'
  OBVIOUS
<1> USE DEF Muted
<1>1. CASE Thread
  BY <1>1 DEF Thread, Begin, Issue, IssueRefused, IssueTimeout, Accepted, AcceptTimeout,
              Prepare, ReceiveEvent, EventTimeout, StopDma, ProcessSendingCmd,
              ProcessSendingData, ProcessBusy, ProcessIdle, Finish, hostVars, EnableDma,
              DmaStop, FifoReset, DataStatusCtrl
<1>2. CASE IsrStep
  BY <1>2 DEF IsrStep, Isr, IsrEnter, IsrAckSd, IsrReadDma, IsrAckDma, IsrSend, IsrSdio
<1>3. CASE Hardware
  BY <1>3 DEF Hardware, HwTake, HwCommandError, HwCommandDone, HwDataError, HwDataOver,
              HwDmaDone, HwCardDetect, ResetDoneStep, HwResetDone, hostVars, hostButRint
<1>4. CASE UNCHANGED vars
  BY <1>4 DEF vars, hostVars
<1> QED BY <1>1, <1>2, <1>3, <1>4 DEF Next

\* The idle driver and the idle controller are in step.
LEMMA InitInStep == Init => InStep
  BY DEF Init, InStep, FinalIsLast, ControllerInStep, LoopInStep, QuietOutside, InLoop,
         InFlight, FinalSeen, Waits, FinalOut, HasFinal, Unacked, PipelineClean, NoAnswer, NoEvent

\* The last answer is an answer.
LEMMA FinalIsAnswer ==
  /\ Final \subseteq AnswerBits
  /\ \A b : NoAnswer(b) => ~HasFinal(b)
  BY DEF Final, AnswerBits, SD_DATA_ERR_MASK, NoAnswer, HasFinal

\* A step that ends outside the event loop, with nothing on its way to the thread
\* and an idle controller.
LEMMA QuietStep ==
  ASSUME InStep, PipelineClean, PipelineClean', intmask' = intmask, hw' = "idle",
         pc' \notin {"wait", "timedOut", "process"},
         cmdReg' = NoCmd \/ (pc' = "accept" /\ cmdReg' = IF clk' < 3 THEN ClkUpdate ELSE cmd')
  PROVE  InStep'
<1>1. Final' \subseteq AnswerBits
  BY DEF Final, AnswerBits, SD_DATA_ERR_MASK
<1>2. ~FinalSeen' /\ ~InLoop'
  BY DEF FinalSeen, Waits, InLoop
<1>3. ~FinalOut'
  BY <1>1, <1>2 DEF FinalOut, HasFinal, PipelineClean, NoAnswer
<1>4. FinalIsLast'
  BY <1>1, <1>2 DEF FinalIsLast, HasFinal, PipelineClean, NoAnswer
<1> QED BY <1>2, <1>3, <1>4 DEF InStep, ControllerInStep, LoopInStep, Waits, QuietOutside

\* A step of the event loop that does not look at the queue.
LEMMA LoopStep ==
  ASSUME InStep, InFlight, cmdReg = NoCmd, InLoop', LoopInStep',
         UNCHANGED <<rintsts, isrEvt, queue, isrPc, intmask, cmd, cmdReg, hw, hwCmd>>,
         FinalSeen' => FinalSeen,
         pc' = "process" /\ state' = "Idle" => FinalSeen
  PROVE  InStep'
<1>1. PipelineClean' = PipelineClean
  BY DEF PipelineClean
<1>2. Final' = Final /\ Unacked' = Unacked
  BY DEF Final, Unacked
<1>3. FinalOut' => FinalOut
  BY <1>2 DEF FinalOut, HasFinal
<1>4. FinalIsLast'
  BY <1>1, <1>2 DEF InStep, FinalIsLast, HasFinal
<1>5. InFlight'
  BY DEF InFlight
<1>6. ControllerInStep'
  BY <1>3, <1>5 DEF InStep, ControllerInStep
<1>7. QuietOutside'
  <2>1. FinalSeen => PipelineClean /\ hw = "idle"
    BY DEF InStep, FinalIsLast, ControllerInStep, FinalOut
  <2> QED BY <1>1, <1>5, <2>1 DEF QuietOutside
<1> QED BY <1>4, <1>6, <1>7 DEF InStep

\* One pass of the process_events loop, given what the states have in common:
\* no pass adds a bit, and Idle is entered on the last answer only.
LEMMA PassStep ==
  ASSUME InStep, pc = "process", NEW s, NEW e, NextState(s, e),
         UNCHANGED <<rintsts, isrEvt, queue, isrPc, intmask, cmd, cmdReg, hw, hwCmd>>,
         e.sdmmc_status \subseteq evt.sdmmc_status,
         s \in {"SendingData", "Busy"} => cmd \in DataCmds,
         cmd \in DataCmds => err' = None,
         s = "Idle" => state = "Idle" \/ FinalSeen
  PROVE  InStep'
<1>1. cmdReg = NoCmd /\ InLoop /\ InFlight
  BY DEF InStep, ControllerInStep, InLoop, InFlight
<1>2. evt.sdmmc_status \subseteq orig.sdmmc_status
  BY <1>1 DEF InStep, LoopInStep, Waits
<1>3. CASE s # state
  <2>1. InLoop' /\ LoopInStep'
    BY <1>2, <1>3 DEF NextState, InLoop, LoopInStep, Waits
  <2>2. FinalSeen' => FinalSeen
    BY <1>3 DEF NextState, FinalSeen, Waits, HasFinal, Final
  <2>3. state' = "Idle" => FinalSeen
    BY <1>3 DEF NextState
  <2> QED BY <1>1, <2>1, <2>2, <2>3, LoopStep
<1>4. CASE s = state /\ s # "Idle"
  <2>1. pc' = "wait" /\ unhandled' = e /\ state' = s
    BY <1>4 DEF NextState
  <2>2. InLoop' /\ LoopInStep'
    BY <2>1, <1>4 DEF NextState, InLoop, LoopInStep, Waits, NoEvent
  <2>3. FinalSeen' => FinalSeen
    BY <1>2, <2>1 DEF FinalSeen, Waits, HasFinal, Final
  <2> QED BY <1>1, <2>1, <2>2, <2>3, LoopStep
<1>5. CASE s = state /\ s = "Idle"
  <2>1. PipelineClean /\ hw = "idle"
    BY <1>5 DEF InStep, QuietOutside
  <2>2. pc' = "done" /\ PipelineClean'
    BY <1>5, <2>1 DEF NextState, Return, PipelineClean
  <2> QED BY <1>1, <2>1, <2>2, QuietStep
<1> QED BY <1>3, <1>4, <1>5
\* The steps of do_transaction before and after the event loop.
LEMMA OutsideSteps ==
  ASSUME TypeOK, InStep, SlowAccept = FALSE,
         Begin \/ Issue \/ IssueRefused \/ IssueTimeout \/ AcceptTimeout \/ Prepare \/ Finish
  PROVE  InStep'
<1> DEFINE steps == <<rintsts, intmask, queue, isrPc, isrEvt, hw>>
<1>1. UNCHANGED steps
  BY DEF Begin, Issue, IssueRefused, IssueTimeout, AcceptTimeout, Prepare, Finish,
         hostVars, hostButCtrl, hwVars
<1>2. ~IssueTimeout /\ ~AcceptTimeout
  BY DEF IssueTimeout, AcceptTimeout, InStep, ControllerInStep, QuietOutside, InFlight,
         InLoop
<1>3. ~InFlight /\ cmdReg = NoCmd
  BY <1>2 DEF Begin, Issue, IssueRefused, Prepare, Finish, InFlight, InLoop, InStep,
              ControllerInStep
<1>4. PipelineClean /\ hw = "idle"
  BY <1>3 DEF InStep, QuietOutside
<1>5. PipelineClean' /\ hw' = "idle" /\ intmask' = intmask
  BY <1>1, <1>4 DEF PipelineClean
<1>6. pc' \notin {"wait", "timedOut", "process"}
  BY <1>2 DEF Begin, Issue, IssueRefused, Prepare, Finish, Return
<1>7. cmdReg' = NoCmd \/ (pc' = "accept" /\ cmdReg' = IF clk' < 3 THEN ClkUpdate ELSE cmd')
  BY <1>2, <1>3 DEF Begin, Issue, IssueRefused, Prepare, Finish
<1> QED BY <1>4, <1>5, <1>6, <1>7, QuietStep

\* A word has left CMD: an update, or the command.
LEMMA AcceptedStep ==
  ASSUME TypeOK, InStep, Accepted
  PROVE  InStep'
<1>1. UNCHANGED <<rintsts, intmask, queue, isrPc, isrEvt, cmd, cmdReg, hw, hwCmd>>
  BY DEF Accepted, hostVars, hwVars
<1>2. cmdReg = NoCmd
  BY DEF Accepted
<1>3. CASE clk < 3
  <2>1. ~InFlight
    BY <1>3 DEF Accepted, InFlight, InLoop, TypeOK
  <2>2. PipelineClean /\ hw = "idle"
    BY <2>1 DEF InStep, QuietOutside
  <2>3. PipelineClean' /\ hw' = "idle" /\ pc' \notin {"wait", "timedOut", "process"} /\ cmdReg' = NoCmd
    BY <1>1, <1>2, <1>3, <2>2 DEF PipelineClean, Accepted
  <2> QED BY <1>1, <2>2, <2>3, QuietStep
<1>4. CASE clk = 3
  <2>1. InFlight
    BY <1>4 DEF Accepted, InFlight
  <2>2. pc' = "wait" /\ state' = "SendingCmd" /\ unhandled' = NoEvent /\ err' = None
        /\ evt' = evt /\ orig' = orig
    BY <1>4 DEF Accepted, InitialState
  <2>3. InLoop' /\ ~FinalSeen'
    BY <2>2 DEF InLoop, FinalSeen, Waits, HasFinal, NoEvent
  <2>4. PipelineClean' = PipelineClean /\ Final' = Final /\ Unacked' = Unacked
    BY <1>1 DEF PipelineClean, Final, Unacked
  <2>5. LoopInStep'
    BY <2>2 DEF LoopInStep, Waits
  <2> QED BY <1>1, <1>2, <2>1, <2>3, <2>5, <2>2, LoopStep
<1> QED BY <1>3, <1>4 DEF Accepted, TypeOK
\* wait_for_event gives up.
LEMMA GiveUpStep ==
  ASSUME InStep, EventTimeout
  PROVE  InStep'
<1>1. UNCHANGED <<rintsts, isrEvt, queue, isrPc, intmask, cmd, cmdReg, hw, hwCmd>>
  BY DEF EventTimeout, hostVars, hwVars
<1>2. pc = "wait" /\ pc' = "timedOut" /\ UNCHANGED <<state, err, evt, orig, unhandled>>
  BY DEF EventTimeout
<1>3. InLoop /\ InLoop' /\ InFlight /\ cmdReg = NoCmd
  BY <1>2 DEF InStep, ControllerInStep, InFlight, InLoop
<1>4. LoopInStep'
  BY <1>1, <1>2, <1>3 DEF InStep, LoopInStep, Waits
<1>5. FinalSeen' => FinalSeen
  BY <1>1, <1>2 DEF FinalSeen, Waits, HasFinal, Final
<1> QED BY <1>1, <1>2, <1>3, <1>4, <1>5, LoopStep

\* It takes the oldest event.
LEMMA ReceiveStep ==
  ASSUME TypeOK, InStep, ReceiveEvent
  PROVE  InStep'
<1> DEFINE n == Len(queue)
           head == Head(queue).sdmmc_status
<1>1. UNCHANGED <<rintsts, intmask, isrPc, isrEvt, cmd, cmdReg, hw, hwCmd, state, err>>
  BY DEF ReceiveEvent, hwVars
<1>2. pc = "wait" /\ pc' = "process" /\ queue # <<>> /\ queue' = Tail(queue)
      /\ orig'.sdmmc_status = head \cup unhandled.sdmmc_status
      /\ evt' = orig'
  BY DEF ReceiveEvent
<1>3. queue \in Seq(Event) /\ n \in Nat /\ n > 0 /\ Len(queue') = n - 1
      /\ Head(queue) = queue[1] /\ \A i \in 1..(n - 1) : queue'[i] = queue[i + 1]
  BY <1>2 DEF TypeOK, HostTypeOK
<1>4. InFlight /\ InFlight' /\ InLoop /\ InLoop' /\ cmdReg = NoCmd
  BY <1>2 DEF InFlight, InLoop, InStep, ControllerInStep
<1>5. Final' = Final /\ Unacked' = Unacked
  BY <1>1 DEF Final, Unacked
<1>6. FinalSeen' => FinalSeen \/ HasFinal(head)
  BY <1>2, <1>5 DEF FinalSeen, Waits, HasFinal
<1>7. FinalOut' => FinalOut
  <2>1. HasFinal(head) => FinalOut
    BY <1>3 DEF FinalOut
  <2>2. ASSUME NEW i \in 1..Len(queue'), HasFinal(queue[i].sdmmc_status)'
        PROVE  FinalOut
    <3>1. i + 1 \in 1..n /\ HasFinal(queue[i + 1].sdmmc_status)
      BY <2>2, <1>3, <1>5 DEF HasFinal
    <3> QED BY <3>1 DEF FinalOut
  <2> QED BY <1>1, <1>5, <1>6, <2>1, <2>2 DEF FinalOut, HasFinal
<1>8. PipelineClean => PipelineClean'
  BY <1>1, <1>3 DEF PipelineClean
<1>9. HasFinal(head) => PipelineClean'
  <2> SUFFICES ASSUME HasFinal(head)
               PROVE  PipelineClean'
    OBVIOUS
  <2>1. /\ NoAnswer(Unacked) /\ NoAnswer(isrEvt.sdmmc_status)
        /\ \A j \in 2..n : NoAnswer(queue[j].sdmmc_status)
    BY <1>3 DEF InStep, FinalIsLast
  <2>2. NoAnswer(rintsts)
    BY <2>1 DEF NoAnswer, Unacked
  <2> QED BY <1>1, <1>3, <2>1, <2>2 DEF PipelineClean
<1>10. FinalIsLast'
  <2>1. ASSUME NEW i \in 1..Len(queue'), HasFinal(queue[i].sdmmc_status)'
        PROVE  /\ NoAnswer(Unacked) /\ NoAnswer(isrEvt.sdmmc_status)
               /\ \A j \in (i + 1)..Len(queue') : NoAnswer(queue'[j].sdmmc_status)
    <3>1. HasFinal(queue[i + 1].sdmmc_status) /\ i + 1 \in 1..n
      BY <2>1, <1>3, <1>5 DEF HasFinal
    <3>2. /\ NoAnswer(Unacked) /\ NoAnswer(isrEvt.sdmmc_status)
          /\ \A j \in (i + 2)..n : NoAnswer(queue[j].sdmmc_status)
      BY <3>1 DEF InStep, FinalIsLast
    <3>3. ASSUME NEW j \in (i + 1)..Len(queue')
          PROVE  NoAnswer(queue'[j].sdmmc_status)
      <4>1. j + 1 \in (i + 2)..n /\ j \in 1..(n - 1)
        BY <1>3
      <4> QED BY <4>1, <3>2, <1>3
    <3> QED BY <3>2, <3>3
  <2>2. HasFinal(isrEvt.sdmmc_status)' => NoAnswer(Unacked)
    BY <1>1, <1>5 DEF InStep, FinalIsLast, HasFinal
  <2>3. FinalSeen' => PipelineClean'
    BY <1>6, <1>8, <1>9 DEF InStep, FinalIsLast
  <2> QED BY <1>1, <1>5, <2>1, <2>2, <2>3 DEF FinalIsLast
<1>11. ControllerInStep'
  BY <1>1, <1>4, <1>7 DEF InStep, ControllerInStep
<1>12. LoopInStep'
  BY <1>1, <1>2, <1>4 DEF InStep, LoopInStep, Waits
<1>13. QuietOutside'
  BY <1>1, <1>2, <1>4 DEF InStep, LoopInStep, Waits, QuietOutside
<1> QED BY <1>1, <1>10, <1>11, <1>12, <1>13 DEF InStep
\* process_events: Idle is entered on the last answer, or after dma_stop.
LEMMA ProcessSteps ==
  ASSUME TypeOK, InStep, ~Muted',
         ProcessSendingCmd \/ ProcessSendingData \/ ProcessBusy \/ ProcessIdle
  PROVE  InStep'
<1>1. UNCHANGED <<rintsts, isrEvt, queue, isrPc, intmask, cmd, cmdReg, hw, hwCmd>>
  BY DEF ProcessSendingCmd, ProcessSendingData, ProcessBusy, ProcessIdle, hostButCtrl,
         hostVars, hwVars
<1>2. pc = "process"
  BY DEF ProcessSendingCmd, ProcessSendingData, ProcessBusy, ProcessIdle
<1>3. /\ evt.sdmmc_status \subseteq orig.sdmmc_status
      /\ state \in {"SendingData", "Busy"} => cmd \in DataCmds
      /\ cmd \in DataCmds => err = None
  BY <1>2 DEF InStep, LoopInStep, Waits, InLoop
<1>4. CASE ProcessSendingCmd
  <2> DEFINE sd == evt.sdmmc_status
             rest == [evt EXCEPT !.sdmmc_status = sd \ (SD_CMD_ERR_MASK \cup {"CMD_DONE"})]
             status == IF sd \cap (SD_CMD_ERR_MASK \cup {"CMD_DONE"}) # {}
                       THEN orig.sdmmc_status ELSE {}
             s == SendingCmdNext(sd, status)
  <2>1. NextState(s, rest) /\ err' = CommandErr(status)
    BY <1>4 DEF ProcessSendingCmd
  <2>2. rest.sdmmc_status \subseteq sd
    BY DEF TypeOK, Event
  <2>3. cmd \in DataCmds => ResponseError(status) = None
    BY <1>4 DEF ProcessSendingCmd, Muted, DmaStop
  <2>4. cmd \in DataCmds => CommandErr(status) = None
    BY <1>3, <2>3 DEF CommandErr
  <2>5. s = "Idle" => FinalSeen
    BY <1>2, <1>3, <2>4 DEF SendingCmdNext, FinalSeen, Waits, HasFinal, Final
  <2>6. s \in {"SendingData", "Busy"} => cmd \in DataCmds
    BY DEF SendingCmdNext
  <2> HIDE DEF s, rest
  <2> QED BY <1>1, <1>2, <2>1, <2>2, <2>4, <2>5, <2>6, PassStep
<1>5. CASE ProcessSendingData
  <2> DEFINE sd == evt.sdmmc_status
             rest == [sdmmc_status |-> sd \ SD_DATA_ERR_MASK, dma_status |-> {}]
             s == SendingDataNext(orig.sdmmc_status, evt.dma_status)
  <2>1. NextState(s, rest)
    BY <1>5 DEF ProcessSendingData
  <2>2. rest.sdmmc_status \subseteq sd
    OBVIOUS
  <2>3. cmd \in DataCmds
    BY <1>3, <1>5 DEF ProcessSendingData
  <2>4. err' = None
    BY <1>3, <1>5, <2>3 DEF ProcessSendingData, Muted, DmaStop
  <2>5. s = "Idle" => FinalSeen
    BY <1>2, <2>3 DEF SendingDataNext, FinalSeen, Waits, HasFinal, Final
  <2> HIDE DEF s, rest
  <2> QED BY <1>1, <1>2, <2>1, <2>2, <2>3, <2>4, <2>5, PassStep
<1>6. CASE ProcessBusy
  <2> DEFINE sd == evt.sdmmc_status
             rest == [evt EXCEPT !.sdmmc_status = sd \ {"DATA_OVER"}]
             s == IF "DATA_OVER" \in sd THEN "Idle" ELSE "Busy"
  <2>1. NextState(s, rest)
    BY <1>6 DEF ProcessBusy
  <2>2. rest.sdmmc_status \subseteq sd
    BY DEF TypeOK, Event
  <2>3. cmd \in DataCmds
    BY <1>3, <1>6 DEF ProcessBusy
  <2>4. err' = None
    BY <1>3, <1>6, <2>3 DEF ProcessBusy, DataStatusErr, DataStatusCtrl, Muted, DmaStop,
                            FifoReset
  <2>5. s = "Idle" => FinalSeen
    BY <1>2, <1>3, <2>3 DEF FinalSeen, Waits, HasFinal, Final
  <2> HIDE DEF s, rest
  <2> QED BY <1>1, <1>2, <2>1, <2>2, <2>3, <2>4, <2>5, PassStep
<1>7. CASE ProcessIdle
  <2>1. NextState("Idle", evt) /\ state = "Idle" /\ err' = err
    BY <1>7 DEF ProcessIdle
  <2> QED BY <1>1, <1>2, <1>3, <2>1, PassStep
<1> QED BY <1>4, <1>5, <1>6, <1>7

\* A step of the handler, given that it makes up no answer and keeps the order.
LEMMA HandlerStep ==
  ASSUME InStep, UNCHANGED <<txnVars, cmdReg, hwVars, intmask>>,
         PipelineClean => PipelineClean',
         FinalOut' => FinalOut,
         HasFinal(isrEvt.sdmmc_status)' => NoAnswer(Unacked)',
         \A i \in 1..Len(queue') :
           HasFinal(queue[i].sdmmc_status)'
             => /\ NoAnswer(Unacked)' /\ NoAnswer(isrEvt.sdmmc_status)'
                /\ \A j \in (i + 1)..Len(queue') : NoAnswer(queue[j].sdmmc_status)'
  PROVE  InStep'
<1>1. FinalSeen' = FinalSeen /\ InFlight' = InFlight
  BY DEF FinalSeen, Waits, HasFinal, Final, InFlight, InLoop, txnVars
<1>2. FinalIsLast'
  BY <1>1 DEF InStep, FinalIsLast
<1>3. ControllerInStep'
  BY <1>1 DEF InStep, ControllerInStep, txnVars, hwVars
<1>4. LoopInStep' /\ QuietOutside'
  BY <1>1 DEF InStep, LoopInStep, Waits, InLoop, QuietOutside, txnVars, hwVars
<1> QED BY <1>2, <1>3, <1>4 DEF InStep

\* The handler moves the answers on in their order.
LEMMA IsrSteps ==
  ASSUME TypeOK, InStep, IsrStep
  PROVE  InStep'
<1>1. UNCHANGED <<txnVars, cmdReg, hwVars>> /\ Isr
  BY DEF IsrStep
<1>2. Final' = Final
  BY <1>1 DEF Final, txnVars
<1>3. FinalSeen' = FinalSeen
  BY <1>1, <1>2 DEF FinalSeen, Waits, HasFinal, txnVars
<1>4. intmask = SDMMC_LL_EVENT_DEFAULT
  BY DEF InStep
<1>5. CASE IsrEnter
  <2>1. isrPc = "idle" /\ isrPc' = "ackSd" /\ UNCHANGED <<rintsts, intmask, queue>>
        /\ isrEvt'.sdmmc_status = (rintsts \cap intmask) \ SdioBits
    BY <1>5 DEF IsrEnter, mintsts
  <2>2. Unacked = rintsts /\ NoAnswer(Unacked)'
    BY <2>1, <1>4 DEF Unacked, NoAnswer, AnswerBits, SDMMC_LL_EVENT_DEFAULT, SdioBits,
                      SD_CMD_ERR_MASK, SD_DATA_ERR_MASK
  <2>3. NoAnswer(rintsts) => NoAnswer(isrEvt.sdmmc_status)'
    BY <2>1 DEF NoAnswer
  <2>4. HasFinal(isrEvt.sdmmc_status)' => HasFinal(rintsts)
    BY <2>1, <1>2 DEF HasFinal
  <2>5. FinalOut' => FinalOut
    BY <2>1, <2>4, <1>2, <1>3 DEF FinalOut, HasFinal
  <2>6. ASSUME NEW i \in 1..Len(queue'), HasFinal(queue[i].sdmmc_status)'
        PROVE  /\ NoAnswer(Unacked)' /\ NoAnswer(isrEvt.sdmmc_status)'
               /\ \A j \in (i + 1)..Len(queue') : NoAnswer(queue[j].sdmmc_status)'
    BY <2>1, <2>2, <2>3, <2>6, <1>2 DEF InStep, FinalIsLast, HasFinal
  <2>7. PipelineClean => PipelineClean'
    BY <2>1, <2>3 DEF PipelineClean
  <2> QED BY <1>1, <2>1, <2>2, <2>5, <2>6, <2>7, HandlerStep
<1>6. CASE IsrAckSd
  <2>1. isrPc = "ackSd" /\ isrPc' = "readDma" /\ UNCHANGED <<isrEvt, intmask, queue>>
        /\ rintsts' = rintsts \ isrEvt.sdmmc_status
    BY <1>6 DEF IsrAckSd
  <2>2. Unacked' = Unacked
    BY <2>1 DEF Unacked
  <2>3. FinalOut' => FinalOut
    BY <2>1, <1>2, <1>3 DEF FinalOut, HasFinal
  <2>4. PipelineClean => PipelineClean'
    BY <2>1 DEF PipelineClean, NoAnswer
  <2> QED BY <1>1, <1>2, <2>1, <2>2, <2>3, <2>4, HandlerStep DEF InStep, FinalIsLast,
     HasFinal
<1>7. CASE IsrReadDma \/ IsrAckDma \/ IsrSdio
  <2>1. UNCHANGED <<rintsts, queue>> /\ isrEvt'.sdmmc_status = isrEvt.sdmmc_status
        /\ isrPc # "ackSd" /\ isrPc' # "ackSd"
    BY <1>7 DEF IsrReadDma, IsrAckDma, IsrSdio, TypeOK, HostTypeOK, Event
  <2>2. intmask' = intmask
    BY <1>4, <1>7 DEF IsrReadDma, IsrAckDma, IsrSdio, mintsts, SDMMC_LL_EVENT_DEFAULT,
                      SdioBits, SD_CMD_ERR_MASK, SD_DATA_ERR_MASK
  <2>3. Unacked' = Unacked
    BY <2>1 DEF Unacked
  <2>4. FinalOut' => FinalOut
    BY <2>1, <1>2, <1>3 DEF FinalOut, HasFinal
  <2>5. PipelineClean => PipelineClean'
    BY <2>1 DEF PipelineClean
  <2> QED BY <1>1, <1>2, <2>1, <2>2, <2>3, <2>4, <2>5, HandlerStep
          DEF InStep, FinalIsLast, HasFinal
<1>8. CASE IsrSend
  <2> DEFINE n == Len(queue)
  <2>1. UNCHANGED <<rintsts, intmask>> /\ isrEvt' = NoEvent
        /\ isrPc # "ackSd" /\ isrPc' # "ackSd"
    BY <1>8 DEF IsrSend
  <2>2. queue' = queue \/ queue' = Append(queue, isrEvt)
    BY <1>8 DEF IsrSend
  <2>3. queue \in Seq(Event) /\ isrEvt \in Event /\ n \in Nat
    BY DEF TypeOK, HostTypeOK
  <2>4. /\ Len(queue') \in {n, n + 1}
        /\ \A i \in 1..n : queue'[i] = queue[i]
        /\ Len(queue') = n + 1 => queue'[n + 1] = isrEvt
    BY <2>2, <2>3
  <2>5. Unacked' = Unacked /\ Unacked = rintsts
    BY <2>1 DEF Unacked
  <2>6. ~HasFinal(isrEvt.sdmmc_status)' /\ NoAnswer(isrEvt.sdmmc_status)'
    BY <2>1 DEF HasFinal, NoAnswer, NoEvent
  <2>7. FinalOut' => FinalOut
    <3>1. ASSUME NEW i \in 1..Len(queue'), HasFinal(queue[i].sdmmc_status)'
          PROVE  FinalOut
      <4>1. CASE i \in 1..n
        BY <4>1, <3>1, <2>4, <1>2 DEF FinalOut, HasFinal
      <4>2. CASE i = n + 1
        BY <4>2, <3>1, <2>3, <2>4, <1>2 DEF FinalOut, HasFinal
      <4> QED BY <4>1, <4>2, <2>3, <2>4
    <3> QED BY <3>1, <2>1, <2>6, <1>2, <1>3 DEF FinalOut, HasFinal
  <2>8. PipelineClean => PipelineClean'
    <3> SUFFICES ASSUME PipelineClean, NEW i \in 1..Len(queue')
                 PROVE  NoAnswer(queue'[i].sdmmc_status)
      BY <2>1, <2>6 DEF PipelineClean
    <3>1. CASE i \in 1..n
      BY <3>1, <2>4 DEF PipelineClean
    <3>2. CASE i = n + 1
      BY <3>2, <2>3, <2>4 DEF PipelineClean
    <3> QED BY <3>1, <3>2, <2>3, <2>4
  <2>9. ASSUME NEW i \in 1..Len(queue'), HasFinal(queue[i].sdmmc_status)'
        PROVE  /\ NoAnswer(Unacked)' /\ NoAnswer(isrEvt.sdmmc_status)'
               /\ \A j \in (i + 1)..Len(queue') : NoAnswer(queue[j].sdmmc_status)'
    <3>1. CASE i \in 1..n
      <4>1. HasFinal(queue[i].sdmmc_status)
        BY <3>1, <2>9, <2>4, <1>2 DEF HasFinal
      <4>2. /\ NoAnswer(Unacked) /\ NoAnswer(isrEvt.sdmmc_status)
            /\ \A j \in (i + 1)..n : NoAnswer(queue[j].sdmmc_status)
        BY <3>1, <4>1 DEF InStep, FinalIsLast
      <4>3. ASSUME NEW j \in (i + 1)..Len(queue')
            PROVE  NoAnswer(queue[j].sdmmc_status)'
        <5>1. CASE j \in (i + 1)..n
          BY <5>1, <3>1, <4>2, <2>3, <2>4
        <5>2. CASE j = n + 1
          BY <5>2, <4>2, <2>3, <2>4
        <5> QED BY <5>1, <5>2, <3>1, <2>3, <2>4
      <4> QED BY <4>2, <4>3, <2>5, <2>6
    <3>2. CASE i = n + 1
      <4>1. HasFinal(isrEvt.sdmmc_status)
        BY <3>2, <2>9, <2>3, <2>4, <1>2 DEF HasFinal
      <4>2. NoAnswer(Unacked)
        BY <4>1 DEF InStep, FinalIsLast
      <4> QED BY <3>2, <4>2, <2>3, <2>4, <2>5, <2>6
    <3> QED BY <3>1, <3>2, <2>3, <2>4
  <2> QED BY <1>1, <2>1, <2>6, <2>7, <2>8, <2>9, HandlerStep
<1> QED BY <1>1, <1>5, <1>6, <1>7, <1>8 DEF Isr
\* The controller answers: it was busy, so no last answer is out; the answer is
\* the last one only if it goes idle.
LEMMA AnswerStep ==
  ASSUME TypeOK, InStep, hw # "idle", NEW bits, Raise(bits),
         UNCHANGED <<queue, isrPc, isrEvt, intmask, txnVars, cmdReg>>,
         hw' # "idle" => hwCmd' = hwCmd,
         HasFinal(bits) => hw' = "idle"
  PROVE  InStep'
<1>1. InFlight /\ hwCmd = cmd /\ cmdReg = NoCmd /\ ~FinalOut
  BY DEF InStep, ControllerInStep
<1>2. Final' = Final /\ FinalSeen' = FinalSeen /\ InFlight' = InFlight
  BY DEF Final, FinalSeen, Waits, HasFinal, InFlight, InLoop, txnVars
<1>3. ~FinalSeen' /\ ~HasFinal(isrEvt.sdmmc_status)'
      /\ \A i \in 1..Len(queue') : ~HasFinal(queue[i].sdmmc_status)'
  BY <1>1, <1>2 DEF FinalOut, HasFinal
<1>4. FinalOut' => hw' = "idle"
  <2>1. FinalOut' => HasFinal(rintsts)'
    BY <1>3 DEF FinalOut
  <2>2. ~HasFinal(rintsts)
    BY <1>1 DEF FinalOut
  <2> QED BY <1>2, <2>1, <2>2 DEF HasFinal, Raise
<1>5. FinalIsLast'
  BY <1>3 DEF FinalIsLast
<1>6. ControllerInStep'
  BY <1>1, <1>2, <1>4 DEF ControllerInStep, txnVars
<1>7. LoopInStep'
  BY DEF InStep, LoopInStep, Waits, InLoop, txnVars
<1>8. ~(pc = "process" /\ state = "Idle")
  BY DEF InStep, QuietOutside
<1>9. QuietOutside'
  BY <1>1, <1>2, <1>8 DEF QuietOutside, txnVars
<1> QED BY <1>5, <1>6, <1>7, <1>9 DEF InStep

\* A step that leaves the answers as they are, and the controller too.
LEMMA OtherStep ==
  ASSUME TypeOK, InStep, UNCHANGED <<queue, isrPc, isrEvt, intmask, txnVars, cmdReg, hw, hwCmd>>,
         rintsts' = rintsts \/ rintsts' = rintsts \cup {"CD"}
  PROVE  InStep'
<1>1. Final' = Final /\ "CD" \notin Final /\ "CD" \notin AnswerBits
  BY DEF Final, txnVars, AnswerBits, SD_CMD_ERR_MASK, SD_DATA_ERR_MASK
<1>2. FinalSeen' = FinalSeen /\ InFlight' = InFlight
  BY <1>1 DEF FinalSeen, Waits, HasFinal, InFlight, InLoop, txnVars
<1>3. HasFinal(rintsts)' => HasFinal(rintsts)
  BY <1>1 DEF HasFinal
<1>4. NoAnswer(rintsts) => NoAnswer(rintsts)'
  BY <1>1 DEF NoAnswer
<1>5. NoAnswer(Unacked) => NoAnswer(Unacked)'
  BY <1>1 DEF NoAnswer, Unacked
<1>6. FinalOut' => FinalOut
  BY <1>1, <1>2, <1>3 DEF FinalOut, HasFinal
<1>7. PipelineClean => PipelineClean'
  BY <1>4 DEF PipelineClean
<1>8. FinalIsLast'
  BY <1>1, <1>2, <1>5, <1>7 DEF InStep, FinalIsLast, HasFinal
<1>9. ControllerInStep'
  BY <1>2, <1>6 DEF InStep, ControllerInStep, txnVars
<1>10. LoopInStep' /\ QuietOutside'
  BY <1>2, <1>7 DEF InStep, LoopInStep, Waits, InLoop, QuietOutside, txnVars
<1> QED BY <1>8, <1>9, <1>10 DEF InStep

\* Only an idle controller takes what is in CMD.
LEMMA TakeStep ==
  ASSUME TypeOK, InStep, HwTake
  PROVE  InStep'
<1>1. UNCHANGED <<rintsts, queue, isrPc, isrEvt, intmask, txnVars>> /\ cmdReg' = NoCmd
      /\ cmdReg # NoCmd /\ hw = "idle"
  BY DEF HwTake, hostVars
<1>2. pc = "accept" /\ cmdReg = IF clk < 3 THEN ClkUpdate ELSE cmd
  BY <1>1 DEF InStep, ControllerInStep
<1>3. PipelineClean /\ PipelineClean'
  BY <1>1 DEF InStep, QuietOutside, PipelineClean
<1>4. CASE clk < 3
  <2>1. hw' = "idle"
    BY <1>1, <1>2, <1>4 DEF HwTake
  <2> QED BY <1>1, <1>2, <1>3, <2>1, QuietStep DEF txnVars
<1>5. CASE clk = 3
  <2>1. hw' = "command" /\ hwCmd' = cmd
    BY <1>2, <1>5, CmdsAssumption DEF HwTake, TypeOK, ClkUpdate
  <2>2. InFlight' /\ ~InLoop' /\ ~FinalSeen' /\ Final' = Final
    BY <1>1, <1>2, <1>5 DEF InFlight, InLoop, FinalSeen, Waits, Final, txnVars
  <2>3. FinalIsLast' /\ ~FinalOut'
    BY <1>3, <2>2, FinalIsAnswer DEF FinalIsLast, FinalOut, PipelineClean, HasFinal,
                                     NoAnswer
  <2>4. ControllerInStep'
    BY <1>1, <2>1, <2>2, <2>3 DEF ControllerInStep, txnVars
  <2>5. LoopInStep' /\ QuietOutside'
    BY <1>1, <1>2, <2>2 DEF LoopInStep, Waits, QuietOutside, txnVars
  <2> QED BY <1>1, <2>3, <2>4, <2>5 DEF InStep
<1> QED BY <1>2, <1>4, <1>5 DEF TypeOK

\* The controller answers the command of the thread, and the last answer last.
LEMMA HardwareSteps ==
  ASSUME TypeOK, InStep, Hardware
  PROVE  InStep'
<1>1. CASE HwTake
  BY <1>1, TakeStep
<1>2. hw # "idle" => hwCmd = cmd
  BY DEF InStep, ControllerInStep
<1>3. CASE HwCommandError
  <2>1. PICK e \in SD_CMD_ERR_MASK : Raise({e})
    BY <1>3 DEF HwCommandError
  <2>2. ~HasFinal({e})
    BY DEF HasFinal, Final, SD_CMD_ERR_MASK
  <2> QED BY <1>3, <2>1, <2>2, AnswerStep DEF HwCommandError, hostButRint
<1>4. CASE HwCommandDone
  <2>1. HasFinal({"CMD_DONE"}) => hw' = "idle"
    BY <1>2, <1>4 DEF HwCommandDone, HwGoes, HasFinal, Final
  <2> QED BY <1>4, <2>1, AnswerStep DEF HwCommandDone, HwGoes, hostButRint
<1>5. CASE HwDataError
  <2>1. PICK e \in SD_DATA_ERR_MASK :
          Raise({e}) /\ HwGoes(IF e = "SBE" THEN "idle" ELSE "dataFailed")
    BY <1>5 DEF HwDataError
  <2>2. HasFinal({e}) => hw' = "idle"
    BY <2>1 DEF HwGoes, HasFinal, Final, SD_DATA_ERR_MASK
  <2> QED BY <1>5, <2>1, <2>2, AnswerStep DEF HwDataError, HwGoes, hostButRint
<1>6. CASE HwDataOver
  BY <1>6, AnswerStep DEF HwDataOver, HwGoes, hostButRint
<1>7. CASE HwDmaDone
  BY <1>7, OtherStep DEF HwDmaDone
<1>8. CASE HwCardDetect
  BY <1>8, OtherStep DEF HwCardDetect, Raise, hostButRint
<1>9. CASE ResetDoneStep
  BY <1>9, OtherStep DEF ResetDoneStep, HwResetDone, hwVars
<1> QED BY <1>1, <1>3, <1>4, <1>5, <1>6, <1>7, <1>8, <1>9 DEF Hardware

\* A stutter changes nothing.
LEMMA StutterStep ==
  ASSUME TypeOK, InStep, UNCHANGED vars
  PROVE  InStep'
  BY OtherStep DEF vars, hostVars, hwVars

\* SyncInv is inductive when an idle controller takes commands in time.
LEMMA NextSyncInv ==
  ASSUME SlowAccept = FALSE
  PROVE  SyncInv /\ [Next]_vars => SyncInv'
<1> SUFFICES ASSUME SyncInv, [Next]_vars
             PROVE  SyncInv'
  OBVIOUS
<1>1. TypeOK'
  BY NextType DEF SyncInv
<1>2. CASE Muted
  BY <1>1, <1>2, MutedStays DEF SyncInv
<1>3. CASE Muted'
  BY <1>1, <1>3 DEF SyncInv
<1>4. CASE ~Muted /\ ~Muted'
  <2>1. TypeOK /\ InStep
    BY <1>4 DEF SyncInv
  <2>2. CASE Thread
    <3>1. ~StopDma
      BY <1>4 DEF StopDma, DmaStop, Muted
    <3>2. InStep'
      BY <1>4, <2>1, <2>2, <3>1, OutsideSteps, AcceptedStep, GiveUpStep, ReceiveStep,
         ProcessSteps DEF Thread
    <3> QED BY <1>1, <3>2 DEF SyncInv
  <2>3. CASE IsrStep
    BY <2>1, <2>3, <1>1, IsrSteps DEF SyncInv
  <2>4. CASE Hardware
    BY <2>1, <2>4, <1>1, HardwareSteps DEF SyncInv
  <2>5. CASE UNCHANGED vars
    BY <2>1, <2>5, <1>1, StutterStep DEF SyncInv
  <2> QED BY <2>2, <2>3, <2>4, <2>5 DEF Next
<1> QED BY <1>2, <1>3, <1>4

\* The thread and the controller stay in step while the interrupt is on.
LEMMA InStepHolds ==
  ASSUME SlowAccept = FALSE
  PROVE  Spec => []SyncInv
<1>1. Init => SyncInv
  BY InitType, InitInStep DEF SyncInv
<1> QED BY <1>1, NextSyncInv, PTL DEF Spec
=============================================================================
