------------------------------ MODULE ReplyProofs ----------------------------
(***************************************************************************)
(* How far what do_transaction replies is true: the stale answers it may   *)
(* take, the errors it reports, the DMA it leaves behind, and the service  *)
(* of CommandService that it implements, for every set of commands, queue  *)
(* capacity and hardware behaviour.                                        *)
(***************************************************************************)
EXTENDS TransactionProofs

-----------------------------------------------------------------------------
(* The inductive invariant.  An error stops the DMA at once; command       *)
(* errors come no later than "command done", which ends the state that     *)
(* looks at them; what no state has looked at stays pending; and the       *)
(* interrupt is turned off only by a timeout or a failed transfer, after   *)
(* which at most one "command done" is left in the queue.                  *)

DmaInStep ==
  /\ ~InLoop /\ pc # "done" => err = None /\ state = "Idle"
  /\ cmd \in DataCmds /\ err # None => "use_internal_dmac" \notin ctrl
  /\ FailedTransferStopsDma

\* What the event loop has received and no state has looked at.
Pending == IF pc = "process" THEN evt.sdmmc_status ELSE unhandled.sdmmc_status

CommandBits == SD_CMD_ERR_MASK \cup {"CMD_DONE"}

NoCommandBit(bits) == bits \cap CommandBits = {}

CommandOver == InLoop /\ (state # "SendingCmd" \/ "CMD_DONE" \in Pending)

\* "Command done" is the last thing the queue says of the command itself ...
DoneIsLast ==
  /\ \A i \in 1..Len(queue) :
       "CMD_DONE" \in queue[i].sdmmc_status
         => \A j \in (i + 1)..Len(queue) : NoCommandBit(queue[j].sdmmc_status)
  /\ CommandOver => \A i \in 1..Len(queue) : NoCommandBit(queue[i].sdmmc_status)

\* ... and the last thing that is on its way to the queue.
NothingAfterDone ==
  /\ "CMD_DONE" \in isrEvt.sdmmc_status => NoCommandBit(Unacked)
  /\ CommandOver \/ DoneQueued
       => NoCommandBit(rintsts) /\ NoCommandBit(isrEvt.sdmmc_status)
  /\ CommandOver \/ DoneQueued \/ "CMD_DONE" \in rintsts \cup isrEvt.sdmmc_status
       => hw \notin {"command", "failed"}

\* Every error that concerns the command and has been received is either in
\* cmd.err or still pending, and no command error is pending once the state that
\* looks at it is over.
ErrorsInStep ==
  /\ ~InLoop /\ pc # "done" => seen = {}
  /\ InLoop =>
       /\ Pending \cap AnswerBits \subseteq seen
       /\ err # None \/ Pending \cap RelevantErrors # {} <=> seen \cap RelevantErrors # {}
       /\ state \in {"SendingData", "Busy"} => cmd \in DataCmds
       /\ Waits \/ state # "SendingCmd" => NoCommandBit(Pending)
       /\ Waits => state # "Idle"
  /\ pc = "process" =>
       /\ orig.sdmmc_status \cap AnswerBits \subseteq seen
       /\ evt.sdmmc_status \subseteq orig.sdmmc_status
       /\ state = "SendingCmd" => evt.sdmmc_status = orig.sdmmc_status
       /\ state = "Idle" => err # None \/ Pending \cap RelevantErrors = {}
  /\ ErrorsReported

\* A call after the interrupt has been turned off.  One that began with nothing to
\* hear does not get past SendingCmd; one that heard everything has turned the
\* interrupt off itself, as its transfer failed.
MutedCall ==
  /\ isrPc = "idle"
  /\ InLoop /\ hears = "none" => ~CommandOver /\ ~DoneQueued
  /\ (InLoop \/ (pc = "done" /\ result = "Ok")) /\ hears = "all"
       => cmd \in DataCmds /\ err # None

CallInStep ==
  /\ pc # "done" => result = None
  /\ pc \in {"issue", "accept", "prepare"} => hears = Hearing
  /\ InLoop /\ hears # "all" => Muted
  /\ pc = "done" /\ result = "Ok" => hears # "none"
  /\ InLoop => cmdReg = NoCmd
  /\ pc = "accept" /\ clk = 3 => cmdReg \in {NoCmd, cmd}
  /\ Muted => MutedCall

\* The inductive invariant.
IInv == /\ SyncInv /\ DmaInStep
        /\ DoneIsLast /\ (Muted \/ NothingAfterDone)
        /\ ErrorsInStep /\ CallInStep

-----------------------------------------------------------------------------
(* FailedTransferStopsDma.                                                 *)

\* What a pass of process_events leaves behind.
LEMMA NextStateEnds ==
  ASSUME NEW s, NEW e, NextState(s, e)
  PROVE  /\ state' = s
         /\ \/ pc' = "process" /\ s # state /\ evt' = e /\ UNCHANGED <<orig, result>>
            \/ pc' = "wait" /\ s = state /\ s # "Idle" /\ unhandled' = e
               /\ UNCHANGED result
            \/ pc' = "done" /\ s = state /\ s = "Idle" /\ result' = "Ok"
  BY DEF NextState, Return

\* dma_stop and the fifo reset of process_data_status take the DMA off.
LEMMA StopsDma ==
  ASSUME NEW c
  PROVE  /\ DmaStop(c) \cap {"int_enable", "use_internal_dmac"} = {}
         /\ FifoReset(c) \cap {"int_enable", "use_internal_dmac"} = {}
  BY DEF DmaStop, FifoReset

\* The thread keeps the DMA of a failed transfer off.
LEMMA DmaThread ==
  ASSUME DmaInStep, Thread
  PROVE  DmaInStep'
<1> USE DEF DmaInStep, FailedTransferStopsDma, InLoop
<1>1. CASE Begin
  BY <1>1 DEF Begin, hostVars
<1>2. CASE Issue
  BY <1>2 DEF Issue, hostVars
<1>3. CASE IssueRefused
  BY <1>3 DEF IssueRefused, Return, hostVars
<1>4. CASE IssueTimeout
  BY <1>4 DEF IssueTimeout, Return, hostVars
<1>5. CASE Accepted
  BY <1>5 DEF Accepted, hostVars
<1>6. CASE AcceptTimeout
  BY <1>6 DEF AcceptTimeout, Return, hostVars
<1>7. CASE Prepare
  BY <1>7 DEF Prepare
<1>8. CASE ReceiveEvent
  BY <1>8 DEF ReceiveEvent
<1>9. CASE EventTimeout
  BY <1>9 DEF EventTimeout, hostVars
<1>10. ASSUME pc = "process", UNCHANGED cmd, \E s, e : NextState(s, e),
              cmd \in DataCmds /\ err' # None => "use_internal_dmac" \notin ctrl'
       PROVE  DmaInStep'
  BY <1>10, NextStateEnds
<1>11. CASE ProcessSendingCmd
  <2>1. cmd \in DataCmds /\ err' # None => "use_internal_dmac" \notin ctrl'
    BY <1>11, StopsDma DEF ProcessSendingCmd, CommandErr
  <2> QED BY <1>10, <1>11, <2>1 DEF ProcessSendingCmd
<1>12. CASE ProcessSendingData
  <2>1. cmd \in DataCmds /\ err' # None => "use_internal_dmac" \notin ctrl'
    BY <1>12, StopsDma DEF ProcessSendingData
  <2> QED BY <1>10, <1>12, <2>1 DEF ProcessSendingData
<1>13. CASE ProcessBusy
  <2>1. cmd \in DataCmds /\ err' # None => "use_internal_dmac" \notin ctrl'
    BY <1>13, StopsDma DEF ProcessBusy, DataStatusErr, DataStatusCtrl
  <2> QED BY <1>10, <1>13, <2>1 DEF ProcessBusy
<1>14. CASE ProcessIdle
  BY <1>10, <1>14 DEF ProcessIdle, hostVars
<1>15. CASE Finish
  BY <1>15 DEF Finish, hostVars
<1>16. CASE StopDma
  BY <1>16, StopsDma DEF StopDma, Return
<1> QED BY <1>1, <1>2, <1>3, <1>4, <1>5, <1>6, <1>7, <1>8, <1>9, <1>11, <1>12, <1>13,
           <1>14, <1>15, <1>16 DEF Thread

\* No step but those of the thread turns the DMA on or touches the transaction,
\* and the interrupt enable stays as it is.
LEMMA OutsideThread ==
  ASSUME IsrStep \/ Hardware \/ UNCHANGED vars
  PROVE  UNCHANGED txnVars /\ ctrl' \subseteq ctrl /\ Muted' = Muted
<1>1. CASE IsrStep
  BY <1>1 DEF IsrStep, Isr, IsrEnter, IsrAckSd, IsrReadDma, IsrAckDma, IsrSend, IsrSdio, Muted
<1>2. CASE Hardware
  BY <1>2 DEF Hardware, HwTake, HwCommandError, HwCommandDone, HwDataError, HwDataOver,
              HwDmaDone, HwCardDetect, ResetDoneStep, HwResetDone, hostVars, hostButRint,
              Muted, ResetBits
<1>3. CASE UNCHANGED vars
  BY <1>3 DEF vars, hostVars, Muted
<1> QED BY <1>1, <1>2, <1>3

\* Nobody else turns it on.
LEMMA NextDma == DmaInStep /\ [Next]_vars => DmaInStep'
<1> SUFFICES ASSUME DmaInStep, [Next]_vars
             PROVE  DmaInStep'
  OBVIOUS
<1>1. CASE Thread
  BY <1>1, DmaThread
<1>2. CASE IsrStep \/ Hardware \/ UNCHANGED vars
  BY <1>2, OutsideThread DEF DmaInStep, FailedTransferStopsDma, InLoop, txnVars
<1> QED BY <1>1, <1>2 DEF Next

\* At the start there is no failed transfer.
LEMMA InitDma == Init => DmaInStep
  BY DEF Init, DmaInStep, FailedTransferStopsDma, InLoop, None

\* A data command that fails in the event loop, or times out there, leaves the DMA
\* off: whatever the controller is doing, however slow it is and however many
\* commands follow each other.
THEOREM FailedTransferStopsDmaHolds == Spec => []FailedTransferStopsDma
<1>1. DmaInStep => FailedTransferStopsDma
  BY DEF DmaInStep
<1> QED BY <1>1, InitDma, NextDma, PTL DEF Spec

-----------------------------------------------------------------------------
(* "Command done" is the last thing the thread hears of a command.         *)

Order == DoneIsLast /\ (Muted \/ NothingAfterDone)

\* What is no answer says nothing of the command either.
LEMMA NoAnswerNoCommand ==
  /\ \A b : NoAnswer(b) => NoCommandBit(b)
  /\ \A b : NoCommandBit(b) => "CMD_DONE" \notin b
  BY DEF NoAnswer, NoCommandBit, AnswerBits, CommandBits

\* A step of the thread that does not look at the queue.
LEMMA OrderKept ==
  ASSUME Order, UNCHANGED <<rintsts, queue, isrPc, isrEvt, hw>>, Muted => Muted',
         CommandOver' => CommandOver
  PROVE  Order'
<1>1. DoneQueued' = DoneQueued /\ Unacked' = Unacked
  BY DEF DoneQueued, Unacked
<1>2. DoneIsLast'
  BY DEF Order, DoneIsLast
<1>3. NothingAfterDone => NothingAfterDone'
  BY <1>1 DEF NothingAfterDone
<1> QED BY <1>2, <1>3 DEF Order

\* An event received keeps the answers in order.
LEMMA ReceiveOrder ==
  ASSUME TypeOK, Order, ReceiveEvent, ErrorsInStep
  PROVE  Order'
<1> DEFINE n == Len(queue)
           head == Head(queue).sdmmc_status
<1>1. UNCHANGED <<rintsts, isrPc, isrEvt, hw, state, ctrl>>
  BY DEF ReceiveEvent, hwVars
<1>2. pc = "wait" /\ pc' = "process" /\ queue # <<>> /\ queue' = Tail(queue)
      /\ evt'.sdmmc_status = head \cup unhandled.sdmmc_status
  BY DEF ReceiveEvent
<1>3. queue \in Seq(Event) /\ n \in Nat /\ n > 0 /\ Len(queue') = n - 1
      /\ Head(queue) = queue[1] /\ \A i \in 1..(n - 1) : queue'[i] = queue[i + 1]
  BY <1>2 DEF TypeOK, HostTypeOK
<1>4. CommandOver' => CommandOver \/ "CMD_DONE" \in head
  BY <1>1, <1>2 DEF CommandOver, InLoop, Pending
<1>5. "CMD_DONE" \in head => DoneQueued
  BY <1>3 DEF DoneQueued
<1>6. DoneQueued' => DoneQueued
  BY <1>3 DEF DoneQueued
<1>7. DoneIsLast'
  <2>1. ASSUME NEW i \in 1..Len(queue'), "CMD_DONE" \in queue'[i].sdmmc_status,
               NEW j \in (i + 1)..Len(queue')
        PROVE  NoCommandBit(queue'[j].sdmmc_status)
    <3>1. i + 1 \in 1..n /\ j + 1 \in (i + 2)..n /\ "CMD_DONE" \in queue[i + 1].sdmmc_status
      BY <2>1, <1>3
    <3>2. NoCommandBit(queue[j + 1].sdmmc_status)
      BY <3>1 DEF Order, DoneIsLast
    <3> QED BY <3>2, <1>3
  <2>2. ASSUME CommandOver', NEW i \in 1..Len(queue')
        PROVE  NoCommandBit(queue'[i].sdmmc_status)
    <3>1. 1 \in 1..n /\ i + 1 \in 2..n /\ i + 1 \in 1..n
      BY <1>3
    <3>2. NoCommandBit(queue[i + 1].sdmmc_status)
      <4>1. CASE CommandOver
        BY <4>1, <3>1 DEF Order, DoneIsLast
      <4>2. CASE "CMD_DONE" \in head
        BY <4>2, <3>1, <1>3 DEF Order, DoneIsLast
      <4> QED BY <4>1, <4>2, <2>2, <1>4
    <3> QED BY <3>2, <1>3
  <2> QED BY <2>1, <2>2 DEF DoneIsLast
<1>8. NothingAfterDone => NothingAfterDone'
  <2>1. Unacked' = Unacked
    BY <1>1 DEF Unacked
  <2> QED BY <1>1, <1>4, <1>5, <1>6, <2>1 DEF NothingAfterDone
<1> QED BY <1>1, <1>7, <1>8 DEF Order, Muted

\* The state machine leaves SendingCmd on "command done" only.
LEMMA ProcessOrder ==
  ASSUME TypeOK, pc = "process", NEW s, NEW e, NextState(s, e),
         e.sdmmc_status \subseteq evt.sdmmc_status,
         state = "SendingCmd" =>
           IF "CMD_DONE" \in evt.sdmmc_status THEN TRUE
           ELSE s = "SendingCmd"
  PROVE  CommandOver' => CommandOver
  BY NextStateEnds DEF CommandOver, InLoop, Pending

\* So do the other steps of the thread, ...
LEMMA ThreadOrder ==
  ASSUME TypeOK, Order, ErrorsInStep, Thread
  PROVE  Order'
<1>1. Muted => Muted'
  BY MutedStays DEF Next
<1>2. CASE Begin \/ Issue \/ IssueRefused \/ IssueTimeout \/ AcceptTimeout \/ Prepare
           \/ StopDma \/ Finish
  <2>1. ~CommandOver'
    BY <1>2 DEF Begin, Issue, IssueRefused, IssueTimeout, AcceptTimeout, Prepare,
                StopDma, Finish, Return, CommandOver, InLoop
  <2>2. UNCHANGED <<rintsts, queue, isrPc, isrEvt, hw>>
    BY <1>2 DEF Begin, Issue, IssueRefused, IssueTimeout, AcceptTimeout, Prepare,
                StopDma, Finish, hostVars, hostButCtrl, hwVars
  <2> QED BY <1>1, <2>1, <2>2, OrderKept
<1>3. CASE Accepted
  <2>1. ~CommandOver'
    BY <1>3 DEF Accepted, CommandOver, InLoop, Pending, InitialState, NoEvent
  <2> QED BY <1>1, <1>3, <2>1, OrderKept DEF Accepted, hostVars, hwVars
<1>4. CASE ReceiveEvent
  BY <1>4, ReceiveOrder
<1>5. CASE ProcessSendingCmd
  <2> DEFINE sd == evt.sdmmc_status
             rest == [evt EXCEPT !.sdmmc_status = sd \ (SD_CMD_ERR_MASK \cup {"CMD_DONE"})]
             status == IF sd \cap (SD_CMD_ERR_MASK \cup {"CMD_DONE"}) # {}
                       THEN orig.sdmmc_status ELSE {}
             s == SendingCmdNext(sd, status)
  <2>1. NextState(s, rest) /\ pc = "process"
    BY <1>5 DEF ProcessSendingCmd
  <2>2. rest.sdmmc_status \subseteq sd
    BY DEF TypeOK, Event
  <2>3. IF "CMD_DONE" \in sd THEN TRUE ELSE s = "SendingCmd"
    BY DEF SendingCmdNext
  <2>4. CommandOver' => CommandOver
    <3> HIDE DEF s, rest
    <3> QED BY <2>1, <2>2, <2>3, ProcessOrder
  <2> QED BY <1>1, <1>5, <2>4, OrderKept DEF ProcessSendingCmd, hostButCtrl, hwVars
<1>6. CASE ProcessSendingData \/ ProcessBusy \/ ProcessIdle
  <2>1. CommandOver
    BY <1>6 DEF ProcessSendingData, ProcessBusy, ProcessIdle, CommandOver, InLoop
  <2> QED BY <1>1, <1>6, <2>1, OrderKept
          DEF ProcessSendingData, ProcessBusy, ProcessIdle, hostVars, hostButCtrl, hwVars
<1>7. CASE EventTimeout
  <2>1. CommandOver' = CommandOver
    BY <1>7 DEF EventTimeout, CommandOver, InLoop, Pending
  <2> QED BY <1>1, <1>7, <2>1, OrderKept DEF EventTimeout, hostVars, hwVars
<1> QED BY <1>2, <1>3, <1>4, <1>5, <1>6, <1>7 DEF Thread

\* ... the handler, which moves the answers on, ...
LEMMA IsrOrder ==
  ASSUME TypeOK, InStep, Order, ~Muted, IsrStep
  PROVE  Order'
<1>1. UNCHANGED <<txnVars, cmdReg, hwVars>> /\ Isr
  BY DEF IsrStep
<1>2. CommandOver' = CommandOver
  BY <1>1 DEF CommandOver, InLoop, Pending, txnVars
<1>3. intmask = SDMMC_LL_EVENT_DEFAULT
  BY DEF InStep
<1>4. DoneIsLast /\ NothingAfterDone
  BY DEF Order
<1>5. CASE IsrEnter
  <2>1. isrPc' = "ackSd" /\ UNCHANGED <<rintsts, queue>>
        /\ isrEvt'.sdmmc_status = (rintsts \cap intmask) \ SdioBits
    BY <1>5 DEF IsrEnter, mintsts
  <2>2. NoCommandBit(Unacked)'
    BY <2>1, <1>3 DEF Unacked, NoCommandBit, CommandBits, SDMMC_LL_EVENT_DEFAULT, SdioBits,
                      SD_CMD_ERR_MASK
  <2>3. NoCommandBit(rintsts) => NoCommandBit(isrEvt.sdmmc_status)'
    BY <2>1 DEF NoCommandBit
  <2>4. DoneIsLast' /\ DoneQueued' = DoneQueued
    BY <2>1, <1>2, <1>4 DEF DoneIsLast, DoneQueued
  <2> QED BY <1>1, <1>2, <1>4, <2>1, <2>2, <2>3, <2>4 DEF Order, NothingAfterDone, hwVars
<1>6. CASE IsrAckSd
  <2>1. isrPc = "ackSd" /\ isrPc' = "readDma" /\ UNCHANGED <<isrEvt, queue>>
        /\ rintsts' = rintsts \ isrEvt.sdmmc_status
    BY <1>6 DEF IsrAckSd
  <2>2. Unacked' = Unacked
    BY <2>1 DEF Unacked
  <2>3. NoCommandBit(rintsts) => NoCommandBit(rintsts)'
    BY <2>1 DEF NoCommandBit
  <2>4. DoneIsLast' /\ DoneQueued' = DoneQueued
    BY <2>1, <1>2, <1>4 DEF DoneIsLast, DoneQueued
  <2> QED BY <1>1, <1>2, <1>4, <2>1, <2>2, <2>3, <2>4 DEF Order, NothingAfterDone, hwVars
<1>7. CASE IsrReadDma \/ IsrAckDma \/ IsrSdio
  <2>1. UNCHANGED <<rintsts, queue>> /\ isrEvt'.sdmmc_status = isrEvt.sdmmc_status
        /\ isrPc # "ackSd" /\ isrPc' # "ackSd"
    BY <1>7 DEF IsrReadDma, IsrAckDma, IsrSdio, TypeOK, HostTypeOK, Event
  <2>2. Unacked' = Unacked
    BY <2>1 DEF Unacked
  <2>3. DoneIsLast' /\ DoneQueued' = DoneQueued
    BY <2>1, <1>2, <1>4 DEF DoneIsLast, DoneQueued
  <2> QED BY <1>1, <1>2, <1>4, <2>1, <2>2, <2>3 DEF Order, NothingAfterDone, hwVars
<1>8. CASE IsrSend
  <2> DEFINE n == Len(queue)
             sent == isrEvt.sdmmc_status
  <2>1. UNCHANGED rintsts /\ isrEvt' = NoEvent /\ isrPc = "send" /\ isrPc' = "sdio"
    BY <1>8 DEF IsrSend
  <2>2. queue' = queue \/ queue' = Append(queue, isrEvt)
    BY <1>8 DEF IsrSend
  <2>3. queue \in Seq(Event) /\ isrEvt \in Event /\ n \in Nat
    BY DEF TypeOK, HostTypeOK
  <2>4. /\ Len(queue') \in {n, n + 1}
        /\ \A i \in 1..n : queue'[i] = queue[i]
        /\ Len(queue') = n + 1 => queue'[n + 1] = isrEvt
    BY <2>2, <2>3
  <2>5. Unacked' = rintsts /\ Unacked = rintsts
    BY <2>1 DEF Unacked
  <2>6. NoCommandBit(isrEvt.sdmmc_status)' /\ "CMD_DONE" \notin isrEvt'.sdmmc_status
    BY <2>1 DEF NoCommandBit, NoEvent
  <2>7. DoneQueued' => DoneQueued \/ "CMD_DONE" \in sent
    <3> SUFFICES ASSUME NEW i \in 1..Len(queue'), "CMD_DONE" \in queue'[i].sdmmc_status
                 PROVE  DoneQueued \/ "CMD_DONE" \in sent
      BY DEF DoneQueued
    <3>1. CASE i \in 1..n
      BY <3>1, <2>4 DEF DoneQueued
    <3>2. CASE i = n + 1
      BY <3>2, <2>3, <2>4
    <3> QED BY <3>1, <3>2, <2>3, <2>4
  <2>8. DoneIsLast'
    <3>1. ASSUME NEW i \in 1..Len(queue'), "CMD_DONE" \in queue'[i].sdmmc_status,
                 NEW j \in (i + 1)..Len(queue')
          PROVE  NoCommandBit(queue'[j].sdmmc_status)
      <4>1. i \in 1..n /\ DoneQueued
        BY <3>1, <2>3, <2>4 DEF DoneQueued
      <4>2. CASE j \in (i + 1)..n
        BY <4>1, <4>2, <3>1, <1>4, <2>3, <2>4 DEF DoneIsLast
      <4>3. CASE j = n + 1
        BY <4>1, <4>3, <1>4, <2>3, <2>4 DEF NothingAfterDone
      <4> QED BY <4>1, <4>2, <4>3, <3>1, <2>3, <2>4
    <3>2. ASSUME CommandOver, NEW i \in 1..Len(queue')
          PROVE  NoCommandBit(queue'[i].sdmmc_status)
      <4>1. CASE i \in 1..n
        BY <4>1, <3>2, <1>4, <2>4 DEF DoneIsLast
      <4>2. CASE i = n + 1
        BY <4>2, <3>2, <1>4, <2>3, <2>4 DEF NothingAfterDone
      <4> QED BY <4>1, <4>2, <2>3, <2>4
    <3> QED BY <3>1, <3>2, <1>2 DEF DoneIsLast
  <2>9. NothingAfterDone'
    <3>1. hw' = hw
      BY <1>1 DEF hwVars
    <3>2. ASSUME CommandOver' \/ DoneQueued'
          PROVE  NoCommandBit(rintsts) /\ hw \notin {"command", "failed"}
      BY <3>2, <1>2, <1>4, <2>5, <2>7 DEF NothingAfterDone
    <3> QED BY <3>1, <3>2, <1>4, <2>1, <2>6 DEF NothingAfterDone
  <2> QED BY <2>8, <2>9 DEF Order
<1> QED BY <1>1, <1>5, <1>6, <1>7, <1>8 DEF Isr

\* The controller raises bits that say nothing of the command.
LEMMA OrderRaise ==
  ASSUME Order, UNCHANGED <<queue, isrPc, isrEvt, txnVars>>,
         NEW bits, NoCommandBit(bits), rintsts' = rintsts \cup bits,
         hw' \in {"command", "failed"} => hw' = hw
  PROVE  DoneIsLast' /\ (NothingAfterDone => NothingAfterDone')
<1>1. CommandOver' = CommandOver /\ DoneQueued' = DoneQueued
  BY DEF CommandOver, InLoop, Pending, txnVars, DoneQueued
<1>2. /\ NoCommandBit(rintsts) => NoCommandBit(rintsts)'
      /\ NoCommandBit(Unacked) => NoCommandBit(Unacked)'
      /\ "CMD_DONE" \in rintsts' => "CMD_DONE" \in rintsts
  BY DEF NoCommandBit, Unacked, CommandBits
<1> QED BY <1>1, <1>2 DEF Order, DoneIsLast, NothingAfterDone

\* ... and the hardware, which raises them in order.
LEMMA HardwareOrder ==
  ASSUME TypeOK, InStep, Order, ~Muted, ~Muted', Hardware
  PROVE  Order'
<1>1. DoneIsLast /\ NothingAfterDone
  BY DEF Order
<1>2. CASE HwTake
  <2>1. UNCHANGED <<rintsts, queue, isrPc, isrEvt, txnVars>>
    BY <1>2 DEF HwTake, hostVars
  <2>2. PipelineClean /\ pc = "accept"
    BY <1>2 DEF HwTake, InStep, QuietOutside, ControllerInStep
  <2>3. ~CommandOver' /\ ~DoneQueued' /\ "CMD_DONE" \notin rintsts' \cup isrEvt'.sdmmc_status
    BY <2>1, <2>2, NoAnswerNoCommand
       DEF CommandOver, InLoop, DoneQueued, PipelineClean, txnVars
  <2>4. DoneIsLast'
    BY <2>3 DEF DoneIsLast, DoneQueued
  <2> QED BY <2>3, <2>4 DEF Order, NothingAfterDone
<1>3. ASSUME hw \in {"command", "failed"}
      PROVE  ~CommandOver /\ ~DoneQueued /\ "CMD_DONE" \notin rintsts \cup isrEvt.sdmmc_status
  BY <1>1, <1>3 DEF NothingAfterDone
<1>4. CASE HwCommandError \/ HwCommandDone
  <2>1. UNCHANGED <<queue, isrPc, isrEvt, txnVars>> /\ hw \in {"command", "failed"}
    BY <1>4 DEF HwCommandError, HwCommandDone, hostButRint
  <2>2. ~CommandOver' /\ ~DoneQueued' /\ "CMD_DONE" \notin isrEvt'.sdmmc_status
    BY <2>1, <1>3 DEF CommandOver, InLoop, Pending, DoneQueued, txnVars
  <2>3. DoneIsLast'
    BY <2>2 DEF DoneIsLast, DoneQueued
  <2>4. "CMD_DONE" \in rintsts' => hw' \notin {"command", "failed"}
    <3>1. CASE HwCommandError
      BY <3>1, <2>1, <1>3 DEF HwCommandError, Raise, SD_CMD_ERR_MASK
    <3>2. CASE HwCommandDone
      BY <3>2 DEF HwCommandDone, HwGoes
    <3> QED BY <3>1, <3>2, <1>4
  <2> QED BY <2>2, <2>3, <2>4 DEF Order, NothingAfterDone
<1>5. CASE HwDataError
  <2>1. PICK e \in SD_DATA_ERR_MASK :
          Raise({e}) /\ HwGoes(IF e = "SBE" THEN "idle" ELSE "dataFailed")
    BY <1>5 DEF HwDataError
  <2>2. NoCommandBit({e}) /\ hw' \notin {"command", "failed"}
    BY <2>1 DEF NoCommandBit, CommandBits, SD_DATA_ERR_MASK, SD_CMD_ERR_MASK, HwGoes
  <2> QED BY <1>1, <1>5, <2>1, <2>2, OrderRaise DEF HwDataError, Raise, hostButRint, Order
<1>6. CASE HwDataOver
  <2>1. NoCommandBit({"DATA_OVER"}) /\ hw' \notin {"command", "failed"}
    BY <1>6 DEF HwDataOver, NoCommandBit, CommandBits, SD_CMD_ERR_MASK, HwGoes
  <2> QED BY <1>1, <1>6, <2>1, OrderRaise DEF HwDataOver, Raise, hostButRint, Order
<1>7. CASE HwCardDetect
  <2>1. NoCommandBit({"CD"})
    BY DEF NoCommandBit, CommandBits, SD_CMD_ERR_MASK
  <2> QED BY <1>1, <1>7, <2>1, OrderRaise DEF HwCardDetect, Raise, hostButRint, Order
<1>8. CASE HwDmaDone \/ ResetDoneStep
  <2>1. NoCommandBit({}) /\ rintsts \cup {} = rintsts
    BY DEF NoCommandBit
  <2>2. UNCHANGED <<rintsts, queue, isrPc, isrEvt, txnVars, hw>>
    BY <1>8 DEF HwDmaDone, ResetDoneStep, HwResetDone, hwVars
  <2> QED BY <1>1, <2>1, <2>2, OrderRaise DEF Order
<1> QED BY <1>2, <1>4, <1>5, <1>6, <1>7, <1>8 DEF Hardware

\* With the interrupt off the queue gets nothing.
LEMMA MutedOrder ==
  ASSUME Order, Muted, CallInStep, IsrStep \/ Hardware
  PROVE  Order' /\ UNCHANGED <<queue, txnVars, isrPc>> /\ Muted'
<1>1. UNCHANGED txnVars /\ Muted'
  BY OutsideThread
<1>2. ~IsrStep
  BY DEF CallInStep, MutedCall, IsrStep, Isr, IsrEnter, IsrAckSd, IsrReadDma, IsrAckDma,
         IsrSend, IsrSdio, InterruptLine, Muted
<1>3. UNCHANGED <<queue, isrPc>>
  BY <1>2 DEF Hardware, HwTake, HwCommandError, HwCommandDone, HwDataError, HwDataOver,
              HwDmaDone, HwCardDetect, ResetDoneStep, HwResetDone, hostVars, hostButRint
<1>4. CommandOver' = CommandOver
  BY <1>1 DEF CommandOver, InLoop, Pending, txnVars
<1> QED BY <1>1, <1>3, <1>4 DEF Order, DoneIsLast

\* Every step keeps the order of the answers.
LEMMA NextOrder ==
  ASSUME SyncInv, Order, ErrorsInStep, CallInStep, [Next]_vars
  PROVE  Order'
<1>1. TypeOK /\ (~Muted => InStep)
  BY DEF SyncInv
<1>2. CASE Thread
  BY <1>1, <1>2, ThreadOrder
<1>3. CASE (IsrStep \/ Hardware) /\ Muted
  BY <1>3, MutedOrder
<1>4. CASE (IsrStep \/ Hardware) /\ ~Muted
  <2>1. ~Muted'
    BY <1>4, OutsideThread
  <2> QED BY <1>1, <1>4, <2>1, IsrOrder, HardwareOrder
<1>5. CASE UNCHANGED vars
  <2>1. CommandOver' = CommandOver
    BY <1>5 DEF vars, CommandOver, InLoop, Pending, txnVars
  <2> QED BY <1>5, <2>1, OutsideThread, OrderKept DEF vars, hostVars, hwVars
<1> QED BY <1>2, <1>3, <1>4, <1>5 DEF Next

-----------------------------------------------------------------------------
(* ErrorsReported.                                                         *)

\* The errors that concern the command are command errors, which SendingCmd
\* looks at, and data errors of a command with data, which the other states do.
LEMMA RelevantSplit ==
  /\ RelevantErrors \subseteq SD_CMD_ERR_MASK \cup SD_DATA_ERR_MASK
  /\ RelevantErrors \subseteq AnswerBits
  /\ cmd \notin DataCmds => RelevantErrors \subseteq SD_CMD_ERR_MASK
  /\ cmd \in DataCmds => SD_DATA_ERR_MASK \subseteq RelevantErrors
  /\ SD_DATA_ERR_MASK \cap SD_CMD_ERR_MASK = {}
  BY DEF RelevantErrors, SD_CMD_ERR_MASK, SD_DATA_ERR_MASK, AnswerBits

\* Which errors process_command_response and process_data_status find.
LEMMA ErrorsFound ==
  ASSUME NEW status
  PROVE  /\ ResponseError(status) # None
              <=> status \cap RelevantErrors \cap SD_CMD_ERR_MASK # {}
         /\ DataError(status) # None
  BY DEF ResponseError, DataError, None, RelevantErrors, SD_CMD_ERR_MASK, SD_DATA_ERR_MASK

\* One pass of process_events, given what the states have in common: what is
\* dropped from the event has been told, and told errors were there.
LEMMA PassErrors ==
  ASSUME ErrorsInStep, pc = "process", NEW s, NEW e, NextState(s, e),
         UNCHANGED <<cmd, seen>>,
         e.sdmmc_status \subseteq evt.sdmmc_status,
         s \in {"SendingData", "Busy"} => cmd \in DataCmds,
         s # state => s # "SendingCmd",
         NoCommandBit(e.sdmmc_status),
         err' # None \/ e.sdmmc_status \cap RelevantErrors # {}
           <=> seen \cap RelevantErrors # {},
         s = "Idle" => err' # None \/ e.sdmmc_status \cap RelevantErrors = {}
  PROVE  ErrorsInStep'
<1>1. RelevantErrors' = RelevantErrors
  BY DEF RelevantErrors
<1>2. InLoop
  BY DEF InLoop
<1>3. CASE pc' = "process" /\ s # state /\ evt' = e /\ orig' = orig
  <2>1. Pending' = e.sdmmc_status /\ InLoop' /\ state' = s
    BY <1>3, NextStateEnds DEF Pending, InLoop
  <2> QED BY <1>1, <1>2, <1>3, <2>1
          DEF ErrorsInStep, Waits, Pending, NoCommandBit, ErrorsReported
<1>4. CASE pc' = "wait" /\ s = state /\ s # "Idle" /\ unhandled' = e
  <2>1. Pending' = e.sdmmc_status /\ InLoop' /\ state' = s
    BY <1>4, NextStateEnds DEF Pending, InLoop
  <2> QED BY <1>1, <1>2, <1>4, <2>1
          DEF ErrorsInStep, Waits, Pending, NoCommandBit, ErrorsReported
<1>5. CASE pc' = "done" /\ s = "Idle"
  <2>1. ~InLoop'
    BY <1>5 DEF InLoop
  <2> QED BY <1>1, <1>5, <2>1 DEF ErrorsInStep, Waits, ErrorsReported
<1> QED BY <1>3, <1>4, <1>5, NextStateEnds

\* What is received joins what has been left unhandled.
LEMMA ReceiveErrors ==
  ASSUME TypeOK, DoneIsLast, ErrorsInStep, ReceiveEvent
  PROVE  ErrorsInStep'
<1> DEFINE head == Head(queue).sdmmc_status
<1>1. pc = "wait" /\ pc' = "process" /\ queue # <<>> /\ evt' = orig'
      /\ evt'.sdmmc_status = head \cup unhandled.sdmmc_status
      /\ seen' = seen \cup (head \cap AnswerBits)
      /\ UNCHANGED <<state, err, cmd, result>>
  BY DEF ReceiveEvent
<1>2. RelevantErrors' = RelevantErrors /\ RelevantErrors \subseteq AnswerBits
  BY <1>1, RelevantSplit DEF RelevantErrors
<1>3. InLoop /\ InLoop' /\ Pending = unhandled.sdmmc_status
      /\ Pending' = head \cup unhandled.sdmmc_status
  BY <1>1 DEF InLoop, Pending
<1>4. state # "SendingCmd" => NoCommandBit(head)
  <2>1. head = queue[1].sdmmc_status /\ 1 \in 1..Len(queue)
    BY <1>1 DEF TypeOK, HostTypeOK
  <2> QED BY <1>3, <2>1 DEF DoneIsLast, CommandOver
<1>5. state # "SendingCmd" => NoCommandBit(Pending')
  BY <1>3, <1>4 DEF ErrorsInStep, Waits, NoCommandBit
<1>6. err # None \/ Pending' \cap RelevantErrors # {} <=> seen' \cap RelevantErrors # {}
  BY <1>1, <1>2, <1>3 DEF ErrorsInStep, Waits
<1>7. Pending' \cap AnswerBits \subseteq seen'
  BY <1>1, <1>3 DEF ErrorsInStep, Waits
<1> QED BY <1>1, <1>2, <1>3, <1>5, <1>6, <1>7 DEF ErrorsInStep, Waits, ErrorsReported

\* Each pass of process_events turns the errors it takes into cmd.err.
LEMMA ThreadErrors ==
  ASSUME TypeOK, DoneIsLast, ErrorsInStep, DmaInStep, Thread
  PROVE  ErrorsInStep'
<1>1. CASE Begin \/ Issue \/ Prepare \/ Finish
  <2>1. pc' \notin {"wait", "timedOut", "process", "done"} /\ seen' = {}
    BY <1>1 DEF Begin, Issue, Prepare, Finish, ErrorsInStep, Waits, InLoop
  <2> QED BY <2>1 DEF ErrorsInStep, Waits, InLoop, ErrorsReported
<1>2. CASE IssueRefused \/ IssueTimeout \/ AcceptTimeout \/ StopDma
  <2>1. pc' = "done" /\ result' # "Ok"
    BY <1>2 DEF IssueRefused, IssueTimeout, AcceptTimeout, StopDma, Return
  <2> QED BY <2>1 DEF ErrorsInStep, Waits, InLoop, ErrorsReported
<1>3. CASE Accepted
  <2>1. seen' = {} /\ pc' \in {"issue", "prepare", "wait"}
    BY <1>3 DEF Accepted, ErrorsInStep, Waits, InLoop
  <2>2. CASE pc' = "wait"
    <3>1. state' = "SendingCmd" /\ unhandled' = NoEvent /\ err' = None
      BY <1>3, <2>2 DEF Accepted, InitialState
    <3>2. Pending' = {}
      BY <2>2, <3>1 DEF Pending, NoEvent
    <3> QED BY <2>1, <2>2, <3>1, <3>2 DEF ErrorsInStep, Waits, InLoop, ErrorsReported, NoCommandBit
  <2> QED BY <2>1, <2>2 DEF ErrorsInStep, Waits, InLoop, ErrorsReported
<1>4. CASE ReceiveEvent
  BY <1>4, ReceiveErrors
<1>5. ASSUME pc = "process"
      PROVE  /\ evt.sdmmc_status \subseteq orig.sdmmc_status
             /\ orig.sdmmc_status \cap AnswerBits \subseteq seen
             /\ state = "SendingCmd" => evt.sdmmc_status = orig.sdmmc_status
             /\ state = "Idle" => err # None \/ evt.sdmmc_status \cap RelevantErrors = {}
             /\ state \in {"SendingData", "Busy"} => cmd \in DataCmds
             /\ state # "SendingCmd" => NoCommandBit(evt.sdmmc_status)
             /\ err # None \/ evt.sdmmc_status \cap RelevantErrors # {}
                  <=> seen \cap RelevantErrors # {}
  BY <1>5 DEF ErrorsInStep, Waits, InLoop, Pending
<1>6. orig.sdmmc_status \cap RelevantErrors \subseteq orig.sdmmc_status \cap AnswerBits
  BY RelevantSplit
<1>7. CASE ProcessSendingCmd
  <2> DEFINE sd == evt.sdmmc_status
             rest == [evt EXCEPT !.sdmmc_status = sd \ (SD_CMD_ERR_MASK \cup {"CMD_DONE"})]
             status == IF sd \cap (SD_CMD_ERR_MASK \cup {"CMD_DONE"}) # {}
                       THEN orig.sdmmc_status ELSE {}
             s == SendingCmdNext(sd, status)
  <2>1. NextState(s, rest) /\ pc = "process" /\ state = "SendingCmd"
        /\ err' = CommandErr(status) /\ UNCHANGED <<cmd, seen>>
    BY <1>7 DEF ProcessSendingCmd
  <2>2. rest.sdmmc_status = sd \ CommandBits
    BY DEF TypeOK, Event, CommandBits
  <2>3. sd = orig.sdmmc_status
    BY <1>5, <2>1
  <2>4. status \cap SD_CMD_ERR_MASK = sd \cap SD_CMD_ERR_MASK
    BY <2>3
  <2>5. err' # None <=> err # None \/ sd \cap RelevantErrors \cap SD_CMD_ERR_MASK # {}
    <3>1. CommandErr(status) # None
            <=> err # None \/ status \cap RelevantErrors \cap SD_CMD_ERR_MASK # {}
      BY ErrorsFound DEF CommandErr
    <3> QED BY <2>1, <2>4, <3>1
  <2>6. err' # None \/ rest.sdmmc_status \cap RelevantErrors # {}
          <=> err # None \/ sd \cap RelevantErrors # {}
    BY <2>2, <2>5, RelevantSplit DEF CommandBits, SD_DATA_ERR_MASK
  <2>7. s = "Idle" => err' # None \/ cmd \notin DataCmds
    BY <2>1 DEF SendingCmdNext
  <2>8. s = "Idle" => err' # None \/ rest.sdmmc_status \cap RelevantErrors = {}
    BY <2>2, <2>7, RelevantSplit DEF CommandBits
  <2>9. s \in {"SendingData", "Busy"} => cmd \in DataCmds
    BY DEF SendingCmdNext
  <2>10. rest.sdmmc_status \subseteq evt.sdmmc_status /\ NoCommandBit(rest.sdmmc_status)
    BY <2>2 DEF NoCommandBit
  <2>11. err' # None \/ rest.sdmmc_status \cap RelevantErrors # {}
           <=> seen \cap RelevantErrors # {}
    BY <1>5, <2>1, <2>6
  <2> HIDE DEF s, rest
  <2> QED BY <2>1, <2>8, <2>9, <2>10, <2>11, PassErrors
<1>8. CASE ProcessSendingData
  <2> DEFINE sd == evt.sdmmc_status
             rest == [sdmmc_status |-> sd \ SD_DATA_ERR_MASK, dma_status |-> {}]
             s == SendingDataNext(orig.sdmmc_status, evt.dma_status)
  <2>1. NextState(s, rest) /\ pc = "process" /\ state = "SendingData"
        /\ err' = (IF sd \cap SD_DATA_ERR_MASK # {}
                   THEN DataStatusErr(orig.sdmmc_status) ELSE err)
        /\ UNCHANGED <<cmd, seen>>
    BY <1>8 DEF ProcessSendingData
  <2>2. cmd \in DataCmds /\ NoCommandBit(sd)
    BY <1>5, <2>1
  <2>3. err' # None <=> err # None \/ sd \cap SD_DATA_ERR_MASK # {}
    BY <1>5, <2>1, ErrorsFound DEF DataStatusErr
  <2>4. rest.sdmmc_status \cap RelevantErrors = {}
    BY <2>2, RelevantSplit DEF NoCommandBit, CommandBits
  <2>5. sd \cap SD_DATA_ERR_MASK # {} <=> sd \cap RelevantErrors # {}
    BY <2>2, RelevantSplit DEF NoCommandBit, CommandBits
  <2>6. rest.sdmmc_status \subseteq sd /\ NoCommandBit(rest.sdmmc_status)
    BY <2>2 DEF NoCommandBit
  <2>7. s # "SendingCmd"
    BY DEF SendingDataNext
  <2>8. err' # None \/ rest.sdmmc_status \cap RelevantErrors # {}
          <=> seen \cap RelevantErrors # {}
    BY <1>5, <2>1, <2>3, <2>4, <2>5
  <2> HIDE DEF s, rest
  <2> QED BY <2>1, <2>2, <2>4, <2>6, <2>7, <2>8, PassErrors
<1>9. CASE ProcessBusy
  <2> DEFINE sd == evt.sdmmc_status
             rest == [evt EXCEPT !.sdmmc_status = sd \ {"DATA_OVER"}]
             over == "DATA_OVER" \in sd
             s == IF over THEN "Idle" ELSE "Busy"
  <2>1. NextState(s, rest) /\ pc = "process" /\ state = "Busy"
        /\ err' = (IF over THEN DataStatusErr(orig.sdmmc_status) ELSE err)
        /\ UNCHANGED <<cmd, seen>>
    BY <1>9 DEF ProcessBusy
  <2>2. cmd \in DataCmds /\ NoCommandBit(sd)
    BY <1>5, <2>1
  <2>3. rest.sdmmc_status = sd \ {"DATA_OVER"}
    BY DEF TypeOK, Event
  <2>4. "DATA_OVER" \notin RelevantErrors
    BY DEF RelevantErrors, SD_DATA_ERR_MASK
  <2>5. rest.sdmmc_status \cap RelevantErrors = sd \cap RelevantErrors
    BY <2>3, <2>4
  <2>6. over => (err' # None <=> err # None \/ orig.sdmmc_status \cap SD_DATA_ERR_MASK # {})
    BY <2>1, ErrorsFound DEF DataStatusErr
  <2>7. sd \cap RelevantErrors = sd \cap SD_DATA_ERR_MASK
    BY <2>2, RelevantSplit DEF NoCommandBit, CommandBits
  <2>8. orig.sdmmc_status \cap SD_DATA_ERR_MASK \subseteq seen \cap RelevantErrors
    BY <1>5, <1>6, <2>1, <2>2, RelevantSplit
  <2>9. sd \cap SD_DATA_ERR_MASK \subseteq orig.sdmmc_status \cap SD_DATA_ERR_MASK
    BY <1>5, <2>1
  <2>10. err' # None \/ rest.sdmmc_status \cap RelevantErrors # {}
           <=> seen \cap RelevantErrors # {}
    <3>1. CASE over
      BY <3>1, <1>5, <2>1, <2>5, <2>6, <2>7, <2>8, <2>9
    <3>2. CASE ~over
      BY <3>2, <1>5, <2>1, <2>5
    <3> QED BY <3>1, <3>2
  <2>11. s = "Idle" => err' # None \/ rest.sdmmc_status \cap RelevantErrors = {}
    BY <2>5, <2>6, <2>7, <2>9
  <2>12. rest.sdmmc_status \subseteq sd /\ NoCommandBit(rest.sdmmc_status)
    BY <2>2, <2>3 DEF NoCommandBit
  <2> HIDE DEF rest
  <2> QED BY <2>1, <2>2, <2>10, <2>11, <2>12, PassErrors
<1>10. CASE ProcessIdle
  <2>1. NextState("Idle", evt) /\ pc = "process" /\ state = "Idle" /\ UNCHANGED <<err, cmd, seen>>
    BY <1>10 DEF ProcessIdle
  <2> QED BY <1>5, <2>1, PassErrors
<1>11. CASE EventTimeout
  <2>1. pc = "wait" /\ pc' = "timedOut" /\ UNCHANGED <<state, err, cmd, unhandled, seen>>
    BY <1>11 DEF EventTimeout
  <2>2. Pending' = Pending /\ RelevantErrors' = RelevantErrors
    BY <2>1 DEF Pending, RelevantErrors
  <2> QED BY <2>1, <2>2 DEF ErrorsInStep, Waits, ErrorsReported, InLoop
<1> QED BY <1>1, <1>2, <1>3, <1>4, <1>7, <1>8, <1>9, <1>10, <1>11 DEF Thread

\* Every step keeps cmd.err in step with the errors seen.
LEMMA NextErrors ==
  ASSUME TypeOK, DoneIsLast, ErrorsInStep, DmaInStep, [Next]_vars
  PROVE  ErrorsInStep'
<1>1. CASE Thread
  BY <1>1, ThreadErrors
<1>2. CASE IsrStep \/ Hardware \/ UNCHANGED vars
  <2>1. UNCHANGED txnVars
    BY <1>2, OutsideThread
  <2> QED BY <2>1 DEF ErrorsInStep, Waits, ErrorsReported, RelevantErrors, InLoop, Pending, txnVars
<1> QED BY <1>1, <1>2 DEF Next

-----------------------------------------------------------------------------
(* CallInStep: what becomes of a call, and of the interrupt.               *)

\* Only dma_stop after a timeout and a failed transfer turn the interrupt off.
LEMMA MutingStep ==
  ASSUME ErrorsInStep, Thread, ~Muted, Muted'
  PROVE  \/ StopDma
         \/ /\ ProcessSendingCmd \/ ProcessSendingData \/ ProcessBusy
            /\ cmd \in DataCmds /\ err' # None
<1> USE DEF Muted
<1>1. CASE Begin \/ Issue \/ IssueRefused \/ IssueTimeout \/ Accepted \/ AcceptTimeout
           \/ Prepare \/ ReceiveEvent \/ EventTimeout \/ ProcessIdle \/ Finish
  BY <1>1 DEF Begin, Issue, IssueRefused, IssueTimeout, Accepted, AcceptTimeout, Prepare,
              ReceiveEvent, EventTimeout, ProcessIdle, Finish, hostVars, EnableDma
<1>2. CASE ProcessSendingCmd
  BY <1>2 DEF ProcessSendingCmd, CommandErr
<1>3. CASE ProcessSendingData
  <2>1. cmd \in DataCmds
    BY <1>3 DEF ProcessSendingData, ErrorsInStep, Waits, InLoop
  <2>2. evt.sdmmc_status \cap SD_DATA_ERR_MASK # {}
    BY <1>3 DEF ProcessSendingData
  <2>3. orig.sdmmc_status \cap SD_DATA_ERR_MASK # {}
    BY <1>3, <2>2 DEF ProcessSendingData, ErrorsInStep, Waits
  <2> QED BY <1>3, <2>1, <2>2, <2>3, ErrorsFound DEF ProcessSendingData, DataStatusErr
<1>4. CASE ProcessBusy
  <2>1. cmd \in DataCmds
    BY <1>4 DEF ProcessBusy, ErrorsInStep, Waits, InLoop
  <2> QED BY <1>4, <2>1, ErrorsFound DEF ProcessBusy, DataStatusErr, DataStatusCtrl
<1> QED BY <1>1, <1>2, <1>3, <1>4 DEF Thread

\* An error stays until the next command.
LEMMA ErrorStays ==
  ASSUME ProcessSendingCmd \/ ProcessSendingData \/ ProcessBusy \/ ProcessIdle, err # None
  PROVE  err' # None
<1>1. \A status : CommandErr(status) # None /\ DataStatusErr(status) # None
  BY ErrorsFound DEF CommandErr, DataStatusErr
<1> QED BY <1>1 DEF ProcessSendingCmd, ProcessSendingData, ProcessBusy, ProcessIdle

\* Without "command done" the loop stays in SendingCmd and waits on.
LEMMA SendingCmdWaits ==
  ASSUME TypeOK, ProcessSendingCmd, "CMD_DONE" \notin evt.sdmmc_status
  PROVE  pc' = "wait" /\ state' = "SendingCmd" /\ "CMD_DONE" \notin unhandled'.sdmmc_status
<1> DEFINE sd == evt.sdmmc_status
           rest == [evt EXCEPT !.sdmmc_status = sd \ (SD_CMD_ERR_MASK \cup {"CMD_DONE"})]
<1>1. state = "SendingCmd" /\ NextState("SendingCmd", rest)
  BY DEF ProcessSendingCmd, SendingCmdNext
<1>2. "CMD_DONE" \notin rest.sdmmc_status
  BY DEF TypeOK, Event
<1> HIDE DEF rest
<1> QED BY <1>1, <1>2, NextStateEnds

\* What the thread hears depends on the interrupt and on the queue.
LEMMA HearingStays ==
  /\ Muted' = Muted /\ queue' = queue => Hearing' = Hearing
  /\ Hearing = "all" <=> ~Muted
  /\ Hearing = "none" <=> Muted /\ ~DoneQueued
  BY DEF Hearing, DoneQueued

\* Where a step of the thread leaves the interrupt off, MutedCall holds.
LEMMA ThreadMuted ==
  ASSUME TypeOK, DoneIsLast, ErrorsInStep, CallInStep, Thread, Muted'
  PROVE  MutedCall'
<1>1. isrPc' = "idle"
  BY DEF Thread, Begin, Issue, IssueRefused, IssueTimeout, Accepted, AcceptTimeout, Prepare,
         ReceiveEvent, EventTimeout, StopDma, ProcessSendingCmd, ProcessSendingData,
         ProcessBusy, ProcessIdle, Finish, ThreadRuns, hostVars, hostButCtrl
<1>2. CASE Begin \/ Issue \/ IssueRefused \/ IssueTimeout \/ AcceptTimeout \/ Prepare
           \/ StopDma \/ Finish
  <2>1. ~InLoop' /\ (pc' = "done" => result' # "Ok")
    BY <1>2 DEF Begin, Issue, IssueRefused, IssueTimeout, AcceptTimeout, Prepare, StopDma,
                Finish, Return, InLoop
  <2> QED BY <1>1, <2>1 DEF MutedCall
<1>3. CASE Accepted
  <2>1. Muted /\ queue' = queue /\ hears' = hears /\ pc' # "done"
    BY <1>3 DEF Accepted, hostVars, Muted
  <2>2. hears = Hearing
    BY <1>3 DEF Accepted, CallInStep
  <2>3. InLoop' => ~CommandOver'
    BY <1>3 DEF Accepted, InLoop, CommandOver, Pending, InitialState, NoEvent
  <2>4. hears # "all" /\ (hears = "none" => ~DoneQueued')
    BY <2>1, <2>2, HearingStays DEF DoneQueued
  <2> QED BY <1>1, <2>1, <2>3, <2>4 DEF MutedCall
<1>4. CASE ReceiveEvent
  <2> DEFINE head == Head(queue).sdmmc_status
             n == Len(queue)
  <2>1. Muted /\ pc = "wait" /\ pc' = "process" /\ UNCHANGED <<state, err, cmd, hears>>
        /\ evt'.sdmmc_status = head \cup unhandled.sdmmc_status
        /\ queue # <<>> /\ queue' = Tail(queue)
    BY <1>4 DEF ReceiveEvent, Muted
  <2>2. queue \in Seq(Event) /\ n \in Nat /\ n > 0 /\ Len(queue') = n - 1
        /\ Head(queue) = queue[1] /\ \A i \in 1..(n - 1) : queue'[i] = queue[i + 1]
    BY <2>1 DEF TypeOK, HostTypeOK
  <2>3. InLoop /\ InLoop' /\ MutedCall
        /\ Pending = unhandled.sdmmc_status /\ Pending' = head \cup unhandled.sdmmc_status
    BY <2>1 DEF InLoop, CallInStep, Pending
  <2>4. DoneQueued' => DoneQueued
    BY <2>2 DEF DoneQueued
  <2>5. "CMD_DONE" \in head => DoneQueued
    BY <2>2 DEF DoneQueued
  <2>6. CommandOver' => CommandOver \/ DoneQueued
    BY <2>1, <2>3, <2>5 DEF CommandOver
  <2> QED BY <1>1, <2>1, <2>3, <2>4, <2>6 DEF MutedCall
<1>5. CASE EventTimeout
  <2>1. Muted /\ pc = "wait" /\ pc' = "timedOut"
        /\ UNCHANGED <<state, err, cmd, hears, unhandled, queue>>
    BY <1>5 DEF EventTimeout, hostVars, Muted
  <2>2. InLoop /\ MutedCall
    BY <2>1 DEF InLoop, CallInStep
  <2>3. CommandOver' = CommandOver /\ DoneQueued' = DoneQueued
    BY <2>1 DEF CommandOver, InLoop, Pending, DoneQueued
  <2> QED BY <1>1, <2>1, <2>2, <2>3 DEF MutedCall
<1>6. CASE ProcessSendingCmd \/ ProcessSendingData \/ ProcessBusy \/ ProcessIdle
  <2>1. pc = "process" /\ InLoop /\ UNCHANGED <<queue, cmd, hears>>
    BY <1>6 DEF ProcessSendingCmd, ProcessSendingData, ProcessBusy, ProcessIdle, hostVars,
                hostButCtrl, InLoop
  <2>2. DoneQueued' = DoneQueued
    BY <2>1 DEF DoneQueued
  <2>3. CASE hears = "none"
    <3>1. ~CommandOver /\ ~DoneQueued
      BY <2>1, <2>3 DEF CallInStep, MutedCall
    <3>2. state = "SendingCmd" /\ "CMD_DONE" \notin evt.sdmmc_status
      BY <2>1, <3>1 DEF CommandOver, Pending
    <3>3. ProcessSendingCmd
      BY <3>2, <1>6 DEF ProcessSendingData, ProcessBusy, ProcessIdle
    <3>4. pc' = "wait" /\ ~CommandOver'
      BY <3>2, <3>3, SendingCmdWaits DEF CommandOver, Pending
    <3> QED BY <1>1, <2>1, <2>2, <2>3, <3>1, <3>4 DEF MutedCall
  <2>4. CASE hears = "all"
    <3>1. cmd \in DataCmds /\ err' # None
      <4>1. CASE Muted
        BY <4>1, <2>4, <2>1, <1>6, ErrorStays DEF CallInStep, MutedCall
      <4>2. CASE ~Muted
        BY <4>2, <1>6, MutingStep DEF Thread, StopDma, ProcessSendingCmd,
                                      ProcessSendingData, ProcessBusy, ProcessIdle
      <4> QED BY <4>1, <4>2
    <3> QED BY <1>1, <2>1, <2>4, <3>1 DEF MutedCall
  <2>5. CASE hears \notin {"none", "all"}
    BY <1>1, <2>1, <2>5 DEF MutedCall
  <2> QED BY <2>3, <2>4, <2>5
<1> QED BY <1>2, <1>3, <1>4, <1>5, <1>6 DEF Thread

\* The thread and the controller agree on the command under way, ...
LEMMA ThreadCall ==
  ASSUME TypeOK, DoneIsLast, ErrorsInStep, CallInStep, Thread
  PROVE  CallInStep'
<1>1. Muted' => MutedCall'
  BY ThreadMuted
<1>2. Muted => Muted'
  BY MutedStays DEF Next
<1>3. CASE Begin
  <2>1. Hearing' = Hearing
    BY <1>3, HearingStays DEF Begin, hostVars, Muted
  <2> QED BY <1>1, <1>3, <2>1 DEF CallInStep, Begin, InLoop
<1>4. CASE Issue \/ IssueRefused \/ IssueTimeout \/ AcceptTimeout \/ Prepare \/ StopDma
           \/ Finish
  <2>1. ~StopDma => Muted' = Muted /\ queue' = queue
    BY <1>4 DEF Issue, IssueRefused, IssueTimeout, AcceptTimeout, Prepare, Finish, hostVars,
                hostButCtrl, Muted, EnableDma
  <2>2. ~StopDma => Hearing' = Hearing
    BY <2>1, HearingStays
  <2> QED BY <1>1, <1>4, <2>2
          DEF CallInStep, Issue, IssueRefused, IssueTimeout, AcceptTimeout, Prepare, StopDma,
              Finish, Return, InLoop
<1>5. CASE Accepted
  <2>1. Hearing' = Hearing /\ hears' = hears /\ hears = Hearing
    BY <1>5, HearingStays DEF Accepted, hostVars, Muted, CallInStep
  <2>2. hears # "all" => Muted'
    BY <1>2, <2>1, HearingStays
  <2> QED BY <1>1, <1>5, <2>1, <2>2 DEF CallInStep, Accepted, InLoop
<1>6. CASE ReceiveEvent \/ EventTimeout
  BY <1>1, <1>2, <1>6 DEF CallInStep, ReceiveEvent, EventTimeout, InLoop
<1>7. CASE ProcessSendingCmd \/ ProcessSendingData \/ ProcessBusy \/ ProcessIdle
  <2>1. pc = "process" /\ UNCHANGED <<cmd, hears, cmdReg>> /\ \E s, e : NextState(s, e)
    BY <1>7 DEF ProcessSendingCmd, ProcessSendingData, ProcessBusy, ProcessIdle
  <2>2. pc' = "done" => hears # "none"
    <3>1. pc' = "done" => CommandOver
      BY <2>1, NextStateEnds DEF CommandOver, InLoop
    <3> QED BY <2>1, <3>1 DEF CallInStep, MutedCall, InLoop
  <2> QED BY <1>1, <1>2, <2>1, <2>2, NextStateEnds DEF CallInStep, InLoop
<1> QED BY <1>3, <1>4, <1>5, <1>6, <1>7 DEF Thread

\* ... whatever step is taken.
LEMMA NextCall ==
  ASSUME TypeOK, Order, ErrorsInStep, CallInStep, [Next]_vars
  PROVE  CallInStep'
<1>1. CASE Thread
  BY <1>1, ThreadCall DEF Order
<1>2. CASE IsrStep \/ Hardware \/ UNCHANGED vars
  <2>1. UNCHANGED txnVars /\ Muted' = Muted
    BY <1>2, OutsideThread
  <2>2. cmdReg' = cmdReg \/ cmdReg' = NoCmd
    BY <1>2 DEF IsrStep, Hardware, HwTake, HwCommandError, HwCommandDone, HwDataError,
                HwDataOver, HwDmaDone, HwCardDetect, ResetDoneStep, vars
  <2>3. Muted => UNCHANGED <<queue, isrPc>>
    BY <1>2, MutedOrder DEF vars, hostVars
  <2>4. Muted => MutedCall'
    <3>1. CommandOver' = CommandOver /\ (Muted => DoneQueued' = DoneQueued)
      BY <2>1, <2>3 DEF CommandOver, InLoop, Pending, DoneQueued, txnVars
    <3> QED BY <2>1, <2>3, <3>1 DEF CallInStep, MutedCall, InLoop, txnVars
  <2>5. Hearing' = Hearing
    <3>1. CASE Muted
      BY <3>1, <2>1, <2>3, HearingStays
    <3>2. CASE ~Muted
      BY <3>2, <2>1 DEF Hearing
    <3> QED BY <3>1, <3>2
  <2> QED BY <2>1, <2>2, <2>4, <2>5 DEF CallInStep, InLoop, txnVars
<1> QED BY <1>1, <1>2 DEF Next

-----------------------------------------------------------------------------
\* The driver starts idle, with a clean pipeline.
LEMMA InitIInv == Init => IInv
<1> SUFFICES ASSUME Init PROVE IInv
  OBVIOUS
<1>1. SyncInv /\ DmaInStep
  BY InitType, InitInStep, InitDma DEF SyncInv
<1>2. ~InLoop /\ ~CommandOver /\ ~DoneQueued /\ ~Muted /\ hears = "all" /\ result = None
  BY DEF Init, InLoop, CommandOver, DoneQueued, Muted
<1>3. DoneIsLast /\ NothingAfterDone
  BY <1>2 DEF Init, DoneIsLast, NothingAfterDone, NoEvent
<1>4. ErrorsInStep
  BY <1>2 DEF Init, ErrorsInStep, Waits, ErrorsReported, InLoop
<1>5. CallInStep
  BY <1>2 DEF Init, CallInStep
<1> QED BY <1>1, <1>3, <1>4, <1>5 DEF IInv

\* IInv is inductive when an idle controller takes commands in time.
LEMMA NextIInv ==
  ASSUME SlowAccept = FALSE
  PROVE  IInv /\ [Next]_vars => IInv'
<1> SUFFICES ASSUME IInv, [Next]_vars
             PROVE  IInv'
  OBVIOUS
<1>1. TypeOK /\ Order /\ SyncInv /\ DmaInStep /\ ErrorsInStep /\ CallInStep
  BY DEF IInv, Order, SyncInv
<1>2. SyncInv' /\ DmaInStep'
  BY <1>1, NextSyncInv, NextDma
<1>3. Order'
  BY <1>1, NextOrder
<1>4. ErrorsInStep' /\ CallInStep'
  BY <1>1, NextErrors, NextCall DEF Order
<1> QED BY <1>2, <1>3, <1>4 DEF IInv, Order

\* It holds of every instance.
LEMMA InvariantHolds ==
  ASSUME SlowAccept = FALSE
  PROVE  Spec => []IInv
  BY InitIInv, NextIInv, PTL DEF Spec

\* cmd.err tells of the errors that concern the command, and of no other, in
\* whatever order and in however many events they come.
THEOREM ErrorsReportedHolds ==
  ASSUME SlowAccept = FALSE
  PROVE  Spec => []ErrorsReported
<1>1. IInv => ErrorsReported
  BY DEF IInv, ErrorsInStep, Waits
<1> QED BY <1>1, InvariantHolds, PTL

\* No command is written to CMD with an answer to an earlier one on its way, as long
\* as the interrupt is on.  Once a timeout or a failed transfer has turned it off, an
\* answer may wait in the queue, but no more than one of "command done": no more than
\* one later command can end on what it was not the answer to.
THEOREM StaleAnswersBoundedHolds ==
  ASSUME SlowAccept = FALSE
  PROVE  Spec => []StaleAnswersBounded
<1>1. IInv => StaleAnswersBounded
  <2> SUFFICES ASSUME IInv, BeforeCommand
               PROVE  IF Muted
                      THEN \A i, j \in 1..Len(queue) :
                             "CMD_DONE" \in queue[i].sdmmc_status \cap queue[j].sdmmc_status
                               => i = j
                      ELSE PipelineClean
    BY DEF StaleAnswersBounded
  <2>1. CASE ~Muted
    BY <2>1 DEF IInv, SyncInv, InStep, QuietOutside, BeforeCommand, InFlight, InLoop, TypeOK
  <2>2. ASSUME NEW i \in 1..Len(queue), NEW j \in 1..Len(queue),
               "CMD_DONE" \in queue[i].sdmmc_status, "CMD_DONE" \in queue[j].sdmmc_status
        PROVE  ~(i < j)
    <3>1. Len(queue) \in Nat
      BY DEF IInv, SyncInv, TypeOK, HostTypeOK
    <3>2. i < j => NoCommandBit(queue[j].sdmmc_status)
      BY <2>2, <3>1 DEF IInv, DoneIsLast
    <3> QED BY <2>2, <3>2, NoAnswerNoCommand
  <2>3. ASSUME NEW i \in 1..Len(queue), NEW j \in 1..Len(queue),
               "CMD_DONE" \in queue[i].sdmmc_status \cap queue[j].sdmmc_status
        PROVE  i = j
    <3>1. Len(queue) \in Nat /\ ~(i < j) /\ ~(j < i)
      BY <2>2, <2>3 DEF IInv, SyncInv, TypeOK, HostTypeOK
    <3> QED BY <3>1
  <2> QED BY <2>1, <2>3
<1> QED BY <1>1, InvariantHolds, PTL

\* An Ok without an error means that the controller is through with the command, of
\* whatever call, with the interrupt on or off, that did not begin with a stale
\* "command done" in the queue.
THEOREM OkMeansFinishedHolds ==
  ASSUME SlowAccept = FALSE
  PROVE  Spec => []OkMeansFinished
<1>1. IInv => OkMeansFinished
  <2> SUFFICES ASSUME IInv, pc = "done", result = "Ok", err = None, hears # "stale"
               PROVE  hw = "idle" /\ cmdReg = NoCmd
    BY DEF OkMeansFinished
  <2>1. hears = "all"
    BY DEF IInv, SyncInv, TypeOK, Hearings, CallInStep
  <2>2. ~Muted
    BY <2>1 DEF IInv, CallInStep, MutedCall
  <2>3. InStep /\ ~InFlight
    BY <2>2 DEF IInv, SyncInv, InFlight, InLoop
  <2> QED BY <2>3 DEF InStep, QuietOutside, ControllerInStep
<1> QED BY <1>1, InvariantHolds, PTL

-----------------------------------------------------------------------------
(* CommandServed: Transaction implements CommandService.                   *)

\* The service's variables as Transaction has them.
callBar == IF pc \in {"idle", "done"} THEN None ELSE cmd
ranBar == IF ~InFlight \/ cmdReg # NoCmd THEN "not"
          ELSE IF hw # "idle" THEN "running" ELSE "done"
failedBar == result = "Ok" /\ err # None
hearsBar == IF pc \in {"idle", "done"} THEN Hearing ELSE hears

bars == <<callBar, ranBar, result, failedBar, hearsBar>>

\* The idle driver is the idle service.
LEMMA InitService == Init => Service!Init
  BY DEF Init, Service!Init, InFlight, InLoop, Muted, Hearing, None

\* A step the service does not see.
LEMMA ServiceStutters ==
  ASSUME UNCHANGED bars
  PROVE  UNCHANGED Service!service
  BY DEF bars, callBar, ranBar, failedBar, hearsBar, Service!service

\* A call of do_transaction is a call of the service.
LEMMA BeginService ==
  ASSUME IInv, Begin
  PROVE  Service!Next
<1>1. callBar = None /\ result = None /\ result' = result
  BY DEF Begin, callBar, IInv, CallInStep
<1>2. callBar' \in Cmds
  BY DEF Begin, callBar
<1>3. ranBar = "not" /\ ranBar' = "not"
  BY DEF Begin, ranBar, InFlight, InLoop
<1>4. ~failedBar /\ ~failedBar'
  BY <1>1 DEF failedBar, None
<1>5. hearsBar' = hearsBar
  BY DEF Begin, hearsBar
<1> QED BY <1>1, <1>2, <1>3, <1>4, <1>5
        DEF Service!Next, Service!Call, callBar, ranBar, failedBar, hearsBar

\* do_transaction returns.
LEMMA ReplyService ==
  ASSUME IInv, pc \notin {"idle", "done"}, pc' = "done",
         result' \in {"Ok", "Timeout", "NotFound"},
         result' = "NotFound" => ~InFlight /\ Hearing' = hears,
         result' = "Timeout" => /\ hears = "stale" => Hearing' # "all"
                                /\ hears = "none" => Hearing' = "none",
         result' = "Ok" =>
           /\ ranBar # "not" /\ (err' = None => ranBar = "done" \/ hears = "stale")
           /\ \/ /\ hears = "all"
                 /\ Hearing' = IF err' # None /\ cmd \in DataCmds THEN "none" ELSE "all"
              \/ hears = "stale" /\ Hearing' = "none"
  PROVE  Service!Next
<1>1. callBar = cmd /\ cmd \in Cmds /\ cmd # None /\ callBar' = None /\ ranBar' = "not"
  BY CmdsAssumption DEF callBar, ranBar, InFlight, InLoop, IInv, SyncInv, TypeOK, None
<1>2. hearsBar = hears /\ hearsBar' = Hearing' /\ Hearing' \in Hearings
  BY DEF hearsBar, Hearing, Hearings
<1>3. failedBar' = (result' = "Ok" /\ err' # None) /\ failedBar' \in BOOLEAN
  BY DEF failedBar
<1>4. result' = "NotFound" => ranBar = "not"
  BY DEF ranBar
<1>5. Service!Truthful(result', failedBar')
  BY <1>2, <1>3, <1>4 DEF Service!Truthful, ranBar, hearsBar
<1>6. Service!Promise(cmd \in DataCmds, result', failedBar', hears, Hearing')
  BY <1>2, <1>3 DEF Service!Promise
<1> QED BY <1>1, <1>2, <1>3, <1>5, <1>6
        DEF Service!Next, Service!Reply, Service!Results, Service!Hearings, Hearings,
            callBar, ranBar, failedBar, hearsBar

\* A pass of process_events goes on unseen or returns Ok.
LEMMA PassService ==
  ASSUME IInv, IInv', ProcessSendingCmd \/ ProcessSendingData \/ ProcessBusy \/ ProcessIdle
  PROVE  Service!Next \/ UNCHANGED Service!service
<1>1. pc = "process" /\ InFlight /\ cmdReg = NoCmd /\ cmdReg' = cmdReg
      /\ UNCHANGED <<cmd, hears, hw>>
  BY DEF ProcessSendingCmd, ProcessSendingData, ProcessBusy, ProcessIdle, hostVars, hwVars,
         InFlight, InLoop, IInv, CallInStep
<1>2. \E s, e : NextState(s, e)
  BY DEF ProcessSendingCmd, ProcessSendingData, ProcessBusy, ProcessIdle
<1>3. result = None /\ ~failedBar /\ ranBar # "not"
  BY <1>1 DEF IInv, CallInStep, failedBar, ranBar, None
<1>4. CASE pc' \in {"process", "wait"}
  <2>1. result' = None /\ InFlight' /\ ~failedBar'
    BY <1>2, <1>3, <1>4, NextStateEnds DEF InFlight, InLoop, failedBar, None
  <2>2. UNCHANGED <<callBar, ranBar, hearsBar>>
    BY <1>1, <1>4, <2>1 DEF callBar, ranBar, hearsBar
  <2>3. UNCHANGED failedBar
    BY <1>3, <2>1 DEF failedBar
  <2> QED BY <1>3, <2>1, <2>2, <2>3, ServiceStutters DEF bars
<1>5. CASE pc' = "done"
  <2>1. result' = "Ok" /\ state = "Idle" /\ state' = "Idle"
    BY <1>2, <1>5, NextStateEnds
  <2>2. hears \in {"all", "stale"} /\ hears' = hears
    BY <1>1, <1>5, <2>1 DEF IInv, CallInStep, SyncInv, TypeOK, Hearings
  <2>3. ~DoneQueued'
    <3>1. CommandOver /\ queue' = queue
      BY <1>1, <2>1 DEF CommandOver, InLoop, ProcessSendingCmd, ProcessSendingData,
                        ProcessBusy, ProcessIdle, hostVars, hostButCtrl
    <3> QED BY <3>1, NoAnswerNoCommand DEF IInv, DoneIsLast, DoneQueued
  <2>4. CASE hears = "stale"
    <3>1. Muted'
      BY <1>1, <2>4, MutedStays DEF IInv, CallInStep, InLoop, Next, Thread
    <3>2. Hearing' = "none"
      BY <2>3, <3>1 DEF Hearing
    <3> QED BY <1>1, <1>3, <1>5, <2>1, <2>4, <3>2, ReplyService
  <2>5. CASE hears = "all"
    <3>1. Muted' => err' # None /\ cmd \in DataCmds
      BY <1>1, <1>5, <2>1, <2>2, <2>5 DEF IInv, CallInStep, MutedCall
    <3>2. ~Muted' => ~Muted /\ InStep /\ ProcessIdle
      <4>1. ~Muted' => ~Muted
        BY MutedStays DEF Next, Thread
      <4>2. ProcessIdle
        BY <2>1 DEF ProcessSendingCmd, ProcessSendingData, ProcessBusy
      <4> QED BY <4>1, <4>2 DEF IInv, SyncInv
    <3>3. ~Muted' => (cmd \in DataCmds => err' = None) /\ hw = "idle"
      BY <1>1, <2>1, <3>2 DEF InStep, LoopInStep, Waits, QuietOutside, InLoop, ProcessIdle
    <3>4. Hearing' = IF err' # None /\ cmd \in DataCmds THEN "none" ELSE "all"
      BY <2>3, <3>1, <3>3 DEF Hearing
    <3>5. err' = None => ranBar = "done"
      BY <1>1, <3>1, <3>3 DEF ranBar
    <3> QED BY <1>1, <1>3, <1>5, <2>1, <2>5, <3>4, <3>5, ReplyService
  <2> QED BY <2>2, <2>4, <2>5
<1> QED BY <1>2, <1>4, <1>5, NextStateEnds

\* Every other step of the thread is a reply or is not seen.
LEMMA ThreadService ==
  ASSUME IInv, IInv', Thread
  PROVE  Service!Next \/ UNCHANGED Service!service
<1>1. ASSUME pc # "done" PROVE result = None /\ ~failedBar
  BY <1>1 DEF IInv, CallInStep, failedBar, None
<1>2. CASE Begin
  BY <1>2, BeginService
<1>3. CASE Issue
  <2>1. ranBar = "not" /\ ranBar' = "not"
    <3>1. clk = 3 => cmdReg' # NoCmd
      BY <1>3, CmdsAssumption DEF Issue, IInv, SyncInv, TypeOK, NoCmd
    <3> QED BY <1>3, <3>1 DEF Issue, ranBar, InFlight, InLoop
  <2>2. UNCHANGED <<callBar, result, hearsBar>>
    BY <1>3 DEF Issue, callBar, hearsBar
  <2>3. UNCHANGED failedBar
    BY <1>3 DEF Issue, failedBar
  <2> QED BY <2>1, <2>2, <2>3, ServiceStutters DEF bars
<1>4. CASE Accepted
  <2>1. pc = "accept" /\ pc' \in {"issue", "prepare", "wait"} /\ cmdReg = NoCmd
        /\ UNCHANGED <<cmdReg, hw, cmd, hears, result>>
    BY <1>4 DEF Accepted, hwVars
  <2>2. InFlight' = InFlight
    BY <1>4 DEF Accepted, InFlight, InLoop
  <2>3. UNCHANGED <<callBar, ranBar, hearsBar>>
    BY <2>1, <2>2 DEF callBar, ranBar, hearsBar
  <2>4. UNCHANGED failedBar
    BY <1>1, <2>1 DEF failedBar, None
  <2> QED BY <2>1, <2>3, <2>4, ServiceStutters DEF bars
<1>5. CASE Prepare
  <2>1. UNCHANGED <<callBar, ranBar, result, failedBar, hearsBar>>
    BY <1>5 DEF Prepare, callBar, ranBar, failedBar, hearsBar, InFlight, InLoop
  <2> QED BY <2>1, ServiceStutters DEF bars
<1>6. CASE ReceiveEvent
  <2>1. UNCHANGED <<callBar, ranBar, result, failedBar, hearsBar>>
    BY <1>6 DEF ReceiveEvent, callBar, ranBar, failedBar, hearsBar, InFlight, InLoop, hwVars
  <2> QED BY <2>1, ServiceStutters DEF bars
<1>7. CASE IssueRefused
  <2>1. Hearing' = hears
    BY <1>7, HearingStays DEF IssueRefused, IInv, CallInStep, Muted, hostVars
  <2>2. pc = "issue" /\ pc' = "done" /\ result' = "NotFound" /\ ~InFlight
    BY <1>7 DEF IssueRefused, Return, InFlight, InLoop
  <2> QED BY <2>1, <2>2, ReplyService
<1>8. CASE IssueTimeout \/ AcceptTimeout \/ StopDma
  <2>1. pc \in {"issue", "accept", "timedOut"} /\ pc' = "done" /\ result' = "Timeout"
        /\ queue' = queue
    BY <1>8 DEF IssueTimeout, AcceptTimeout, StopDma, Return, hostVars, hostButCtrl
  <2>2. hears # "all" => Muted
    BY <2>1, HearingStays DEF IInv, CallInStep, InLoop
  <2>3. hears = "none" => ~DoneQueued
    BY <2>1, <2>2, HearingStays DEF IInv, CallInStep, MutedCall, InLoop
  <2>4. Muted => Muted'
    BY <1>8, MutedStays DEF Next, Thread
  <2>5. DoneQueued' = DoneQueued
    BY <2>1 DEF DoneQueued
  <2>6. (hears = "stale" => Hearing' # "all") /\ (hears = "none" => Hearing' = "none")
    BY <2>2, <2>3, <2>4, <2>5 DEF Hearing
  <2> QED BY <2>1, <2>6, ReplyService
<1>11. CASE EventTimeout
  <2>1. UNCHANGED <<callBar, ranBar, result, failedBar, hearsBar>>
    BY <1>11 DEF EventTimeout, callBar, ranBar, failedBar, hearsBar, InFlight, InLoop, hwVars
  <2> QED BY <2>1, ServiceStutters DEF bars
<1>9. CASE ProcessSendingCmd \/ ProcessSendingData \/ ProcessBusy \/ ProcessIdle
  BY <1>9, PassService
<1>10. CASE Finish
  <2>1. callBar = None /\ callBar' = None /\ ranBar = "not" /\ ranBar' = "not"
        /\ result' = None /\ ~failedBar'
    BY <1>10 DEF Finish, callBar, ranBar, failedBar, InFlight, InLoop, None
  <2>2. hearsBar' = hearsBar
    BY <1>10, HearingStays DEF Finish, hearsBar, Muted, hostVars
  <2>3. CASE result = None
    BY <2>1, <2>2, <2>3, ServiceStutters DEF bars, failedBar, None
  <2>4. CASE result # None
    BY <2>1, <2>2, <2>4
       DEF Service!Next, Service!Accept, callBar, ranBar, failedBar, hearsBar
  <2> QED BY <2>3, <2>4
<1> QED BY <1>2, <1>3, <1>4, <1>5, <1>6, <1>7, <1>8, <1>9, <1>10, <1>11 DEF Thread

\* The controller takes the command and is through with it.
LEMMA HardwareService ==
  ASSUME IInv, IsrStep \/ Hardware \/ UNCHANGED vars
  PROVE  Service!Next \/ UNCHANGED Service!service
<1>1. UNCHANGED txnVars /\ Hearing' = Hearing
  <2>1. UNCHANGED txnVars /\ Muted' = Muted
    BY OutsideThread
  <2>2. CASE Muted
    <3>1. queue' = queue
      BY <2>2, MutedOrder DEF IInv, Order, vars, hostVars
    <3> QED BY <2>1, <3>1, HearingStays
  <2>3. CASE ~Muted
    BY <2>1, <2>3 DEF Hearing
  <2> QED BY <2>1, <2>2, <2>3
<1>2. UNCHANGED <<callBar, result, failedBar, hearsBar>> /\ InFlight' = InFlight
  <2>1. UNCHANGED <<callBar, result>> /\ InFlight' = InFlight
    BY <1>1 DEF callBar, InFlight, InLoop, txnVars
  <2>2. UNCHANGED failedBar
    BY <1>1 DEF failedBar, txnVars
  <2>3. UNCHANGED hearsBar
    BY <1>1 DEF hearsBar, txnVars
  <2> QED BY <2>1, <2>2, <2>3
<1>3. \/ ranBar' = ranBar
      \/ /\ InFlight
         /\ \/ ranBar = "not" /\ ranBar' = "running"
            \/ ranBar = "running" /\ ranBar' = "done"
  <2>1. CASE ~InFlight
    BY <2>1, <1>2 DEF ranBar
  <2>2. CASE InFlight /\ HwTake
    <3>1. cmdReg # NoCmd /\ cmdReg' = NoCmd /\ pc = "accept" /\ clk = 3 /\ cmdReg = cmd
      BY <2>2 DEF HwTake, IInv, CallInStep, InFlight, InLoop
    <3>2. hw' = "command"
      BY <2>2, <3>1, CmdsAssumption DEF HwTake, IInv, SyncInv, TypeOK, ClkUpdate
    <3> QED BY <2>2, <3>1, <3>2, <1>2 DEF ranBar
  <2>3. CASE InFlight /\ ~HwTake
    <3>1. cmdReg' = cmdReg /\ (hw = "idle" => hw' = "idle")
      BY <2>3 DEF IsrStep, Hardware, HwCommandError, HwCommandDone, HwDataError, HwDataOver,
                  HwDmaDone, HwCardDetect, ResetDoneStep, vars, hwVars
    <3> QED BY <2>3, <3>1, <1>2 DEF ranBar
  <2> QED BY <2>1, <2>2, <2>3
<1>4. CASE ranBar' = ranBar
  BY <1>2, <1>4, ServiceStutters DEF bars
<1>5. CASE InFlight /\ \/ ranBar = "not" /\ ranBar' = "running"
                       \/ ranBar = "running" /\ ranBar' = "done"
  <2>1. callBar # None
    BY <1>5, CmdsAssumption DEF callBar, InFlight, InLoop, IInv, SyncInv, TypeOK, None
  <2> QED BY <1>2, <1>5, <2>1
          DEF Service!Next, Service!Run, callBar, ranBar, failedBar, hearsBar
<1> QED BY <1>3, <1>4, <1>5

\* do_transaction implements the service: for any commands, any hardware errors and
\* any queue, every behaviour of the driver, its handler and the controller is one of
\* CommandService, on whose promise CardInit relies.
THEOREM CommandServedHolds ==
  ASSUME SlowAccept = FALSE
  PROVE  Spec => CommandServed
<1>1. IInv /\ IInv' /\ [Next]_vars => [Service!Next]_(Service!service)
  <2>1. CASE Thread
    BY <2>1, ThreadService
  <2>2. CASE IsrStep \/ Hardware \/ UNCHANGED vars
    BY <2>2, HardwareService
  <2> QED BY <2>1, <2>2 DEF Next
<1> QED BY <1>1, InitService, InvariantHolds, PTL DEF Spec, CommandServed, Service!Spec
=============================================================================
