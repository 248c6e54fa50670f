----------------------------- MODULE Transaction ----------------------------
(***************************************************************************)
(* One command after another on a card: SdmmcCard::do_transaction with     *)
(* everything it calls (set_card_clk, dma_prepare, start_cmd,              *)
(* handle_event, process_events, process_command_response,                 *)
(* process_data_status, dma_stop), interleaved with the interrupt handler  *)
(* of SdHost and with the hardware.                                        *)
(*                                                                         *)
(* The system starts where Sdmmc::init ends.  Transactions follow each     *)
(* other for ever and the interrupt is live between them too, as the       *)
(* caller awaits a timer or does something else.  The hardware actions     *)
(* (Hw...) are external: what the driver has to cope with.                 *)
(*                                                                         *)
(* Left out: the clock numbers (only the three register updates of         *)
(* set_card_clk appear here), and the two paths of do_transaction nobody   *)
(* reaches, opcode 11 (which ends in a todo!) and SCF_WAIT_BUSY.           *)
(***************************************************************************)
EXTENDS SdHost, FiniteSets

CONSTANTS
  Cmds,        \* kinds of commands
  DataCmds,    \* those with a data buffer
  ReadCmds,    \* ... with flag SCF_CMD_READ
  RspCmds,     \* ... with flag SCF_RSP_PRESENT
  CrcCmds,     \* ... with flag SCF_RSP_CRC
  HwErrors,    \* the errors the hardware reports
  SlowAccept,  \* may an idle controller take over 1 s to take a command?
  SlowAnswer,  \* may a command in progress take over timeout_ms?
  WpLevels,    \* what the write protect pin may read
  MaxCd,       \* bound: card detect interrupts the thread has not received yet
  MaxLate      \* bound: events queued between the end of a wait and dma_stop

ASSUME CmdsAssumption ==
  /\ {"None", "NoCmd", "ClkUpdate"} \cap Cmds = {}
  /\ ReadCmds \subseteq DataCmds /\ DataCmds \subseteq Cmds
  /\ CrcCmds \subseteq RspCmds /\ RspCmds \subseteq Cmds
ASSUME HwErrorsAssumption == HwErrors \subseteq SD_CMD_ERR_MASK \cup SD_DATA_ERR_MASK
ASSUME SlowAssumption == SlowAccept \in BOOLEAN /\ SlowAnswer \in BOOLEAN
ASSUME WpAssumption == WpLevels # {} /\ WpLevels \subseteq BOOLEAN
ASSUME BoundsAssumption == MaxCd \in Nat /\ MaxLate \in Nat

VARIABLES
  pc,         \* where do_transaction is
  clk,        \* clock updates set_card_clk has completed in it, 0..3
  cmd,        \* the SdmmcCmd: opcode, flags and data, as far as they matter
  err,        \* SdmmcCmd::err
  state,      \* state of the event state machine
  evt,        \* event and
  orig,       \* orig_evt of process_events
  unhandled,  \* bits no state has consumed, kept for the next event
  result,     \* what do_transaction returns, None before it does
  cmdReg,     \* command in CMD with start_cmd set, NoCmd once it is taken
  hw,         \* what the controller is doing
  hwCmd,      \* the command it is doing it for, NoCmd when idle
  hwDma,      \* the command whose last descriptor the DMA has yet to close
  present,    \* a card is in the slot
  seen,       \* history: answer bits the thread received in this transaction
  hears       \* history: Hearing, when the transaction began

txnVars == <<pc, clk, cmd, err, state, evt, orig, unhandled, result, seen, hears>>
hwVars == <<hw, hwCmd, hwDma, present>>
vars == <<hostVars, txnVars, cmdReg, hwVars>>

None == "None"
NoCmd == "NoCmd"
ClkUpdate == "ClkUpdate"   \* SdmmcHwCmd with update_clk_reg

Errors == {"Timeout", "InvalidCRC", "InvalidResponce", "Fail"}
States == {"Idle", "SendingCmd", "SendingData", "Busy"}
Hearings == {"all", "stale", "none"}

Init ==
  /\ ctrl = {"int_enable", "dma_enable"}
  /\ rintsts = {} /\ idsts = {}
  /\ intmask = SDMMC_LL_EVENT_DEFAULT
  /\ queue = <<>> /\ intrEvent = 0
  /\ isrPc = "idle" /\ isrEvt = NoEvent /\ panicked = FALSE
  /\ pc = "idle" /\ clk = 0 /\ cmd \in Cmds /\ err = None
  /\ state = "Idle" /\ evt = NoEvent /\ orig = NoEvent /\ unhandled = NoEvent
  /\ result = None /\ seen = {}
  /\ cmdReg = NoCmd
  /\ hw = "idle" /\ hwCmd = NoCmd /\ hwDma = NoCmd
  /\ present \in BOOLEAN /\ hears = "all"

-----------------------------------------------------------------------------
(* The thread.  The handler preempts it between any two steps.             *)

ThreadRuns == ~panicked /\ isrPc = "idle"

\* The interrupt is off, and only Sdmmc::init turns it on again.
Muted == "int_enable" \notin ctrl

DoneQueued == \E i \in 1..Len(queue) : "CMD_DONE" \in queue[i].sdmmc_status

\* What the thread still hears of the controller: all of it, or, once the
\* interrupt is off, no more than a stale "command done" that was queued before,
\* or not even that.
Hearing == IF ~Muted THEN "all" ELSE IF DoneQueued THEN "stale" ELSE "none"

hostButCtrl == <<rintsts, intmask, idsts, queue, intrEvent, isrPc, isrEvt, panicked>>

\* do_transaction returns r.
Return(r) == pc' = "done" /\ result' = r

\* A caller sends a command; set_card_clk comes first.
Begin ==
  /\ ThreadRuns
  /\ pc = "idle"
  /\ cmd' \in Cmds
  /\ pc' = "issue"
  /\ hears' = Hearing
  /\ UNCHANGED <<hostVars, clk, err, state, evt, orig, unhandled, result, seen, cmdReg,
                 hwVars>>

\* start_cmd, second half: wait for the previous command to be taken, then
\* write CMD.  Clock updates go to CMD even with no card in the slot.
Issue ==
  /\ ThreadRuns
  /\ pc = "issue"
  /\ cmdReg = NoCmd
  /\ clk = 3 => present
  /\ cmdReg' = IF clk < 3 THEN ClkUpdate ELSE cmd
  /\ pc' = "accept"
  /\ UNCHANGED <<hostVars, clk, cmd, err, state, evt, orig, unhandled, result, seen, hears,
                 hwVars>>

\* start_cmd, first half: no card, or a read from a write-protected card
\* (rw is set for reads).
IssueRefused ==
  /\ ThreadRuns
  /\ pc = "issue" /\ clk = 3
  /\ \E writeProtected \in WpLevels :
       ~present \/ (cmd \in DataCmds /\ cmd \in ReadCmds /\ writeProtected)
  /\ Return("NotFound")
  /\ UNCHANGED <<hostVars, clk, cmd, err, state, evt, orig, unhandled, seen, hears, cmdReg,
                 hwVars>>

\* CMD still holds the previous command after 1 s.
IssueTimeout ==
  /\ ThreadRuns
  /\ pc = "issue"
  /\ cmdReg # NoCmd
  /\ SlowAccept \/ hw # "idle"
  /\ Return("Timeout")
  /\ UNCHANGED <<hostVars, clk, cmd, err, state, evt, orig, unhandled, seen, hears, cmdReg,
                 hwVars>>

\* Mutant of InitialState: the one of opcode 11, for every command.
InitialVoltageSwitch == "SendingVoltageSwitch"

\* The event loop starts in this state.
InitialState == "SendingCmd"

\* start_cmd returns Ok; after the command itself the event loop starts.
Accepted ==
  /\ ThreadRuns
  /\ pc = "accept"
  /\ cmdReg = NoCmd
  /\ \/ /\ clk < 3
        /\ clk' = clk + 1
        /\ pc' = IF clk = 2 THEN "prepare" ELSE "issue"
        /\ UNCHANGED <<state, unhandled, err>>
     \/ /\ clk = 3
        /\ pc' = "wait"
        /\ state' = InitialState /\ unhandled' = NoEvent /\ err' = None
        /\ clk' = 0
  /\ UNCHANGED <<hostVars, cmd, evt, orig, result, seen, hears, cmdReg, hwVars>>

\* start_cmd gives up on a command that stays in CMD, and leaves it there.
AcceptTimeout ==
  /\ ThreadRuns
  /\ pc = "accept"
  /\ cmdReg # NoCmd
  /\ SlowAccept \/ hw # "idle"
  /\ Return("Timeout")
  /\ UNCHANGED <<hostVars, clk, cmd, err, state, evt, orig, unhandled, seen, hears, cmdReg,
                 hwVars>>

\* make_hw_cmd, and dma_prepare for a command with data.
Prepare ==
  /\ ThreadRuns
  /\ pc = "prepare"
  /\ ctrl' = IF cmd \in DataCmds THEN EnableDma(ctrl) ELSE ctrl
  /\ pc' = "issue"
  /\ UNCHANGED <<hostButCtrl, clk, cmd, err, state, evt, orig, unhandled, result, seen,
                 hears, cmdReg, hwVars>>

\* wait_for_event returns an event; handle_event adds what is unhandled.
ReceiveEvent ==
  /\ ThreadRuns
  /\ pc = "wait"
  /\ queue # <<>>
  /\ LET e == [sdmmc_status |-> Head(queue).sdmmc_status \cup unhandled.sdmmc_status,
               dma_status |-> Head(queue).dma_status \cup unhandled.dma_status]
     IN  evt' = e /\ orig' = e
  /\ queue' = Tail(queue)
  /\ seen' = seen \cup (Head(queue).sdmmc_status \cap AnswerBits)
  /\ pc' = "process"
  /\ UNCHANGED <<ctrl, rintsts, intmask, idsts, intrEvent, isrPc, isrEvt, panicked, clk,
                 cmd, err, state, unhandled, result, hears, cmdReg, hwVars>>

\* No event came for timeout_ms.  The handler still runs, and may queue one.
EventTimeout ==
  /\ ThreadRuns
  /\ pc = "wait"
  /\ queue = <<>>
  /\ SlowAnswer \/ (hw = "idle" /\ ~InterruptLine)
  /\ pc' = "timedOut"
  /\ UNCHANGED <<hostVars, clk, cmd, err, state, evt, orig, unhandled, result, seen, hears,
                 cmdReg, hwVars>>

\* Mutant of StopDma: handle_event stops the DMA and waits again.
StopDmaWaitsOn ==
  /\ ThreadRuns
  /\ pc = "timedOut"
  /\ ctrl' = DmaStop(ctrl)
  /\ pc' = "wait"
  /\ UNCHANGED <<hostButCtrl, clk, cmd, err, state, evt, orig, unhandled, result, seen,
                 hears, cmdReg, hwVars>>

\* dma_stop, which turns the interrupt off; the queue stays as it is.
StopDma ==
  /\ ThreadRuns
  /\ pc = "timedOut"
  /\ ctrl' = DmaStop(ctrl)
  /\ Return("Timeout")
  /\ UNCHANGED <<hostButCtrl, clk, cmd, err, state, evt, orig, unhandled, seen, hears,
                 cmdReg, hwVars>>

-----------------------------------------------------------------------------
(* process_events: one action per pass of its loop.  No pass awaits.       *)

\* The loop ends when a pass leaves the state as it was; what is then left in
\* event is unhandled, and handle_event is called again unless the state is Idle.
NextState(s, e) ==
  /\ state' = s
  /\ IF s # state
     THEN pc' = "process" /\ evt' = e /\ UNCHANGED <<orig, unhandled, result>>
     ELSE /\ unhandled' = e
          /\ evt' = NoEvent /\ orig' = NoEvent
          /\ IF s = "Idle" THEN Return("Ok") ELSE pc' = "wait" /\ UNCHANGED result

\* The error process_command_response finds in a status, None if there is none.
ResponseError(status) ==
  IF "RTO" \in status THEN "Timeout"
  ELSE IF cmd \in CrcCmds /\ "RCRC" \in status THEN "InvalidCRC"
  ELSE IF "RESP_ERR" \in status THEN "InvalidResponce"
  ELSE None

\* Mutant of CommandErr: the second call of process_command_response clears
\* the error the first one found.
CommandErrForgotten(status) == ResponseError(status)

\* process_command_response: without a new error, err keeps its value.
CommandErr(status) ==
  IF ResponseError(status) # None THEN ResponseError(status) ELSE err

\* The error process_data_status finds in a status.
DataError(status) ==
  IF "DTO" \in status THEN "Timeout"
  ELSE IF "DCRC" \in status THEN "InvalidCRC"
  ELSE IF "EBE" \in status /\ cmd \notin ReadCmds THEN "Timeout"
  ELSE "Fail"

\* process_data_status: cmd.err and CTRL after it.
DataStatusErr(status) ==
  IF status \cap SD_DATA_ERR_MASK # {} THEN DataError(status) ELSE err

DataStatusCtrl(status) ==
  LET c == IF status \cap SD_DATA_ERR_MASK # {} THEN FifoReset(ctrl) ELSE ctrl
  IN  IF DataStatusErr(status) # None /\ cmd \in DataCmds THEN DmaStop(c) ELSE c

\* Mutant of SendingCmdNext: a failed command is over without "command done".
SendingCmdNextHasty(sd, status) ==
  IF CommandErr(status) # None THEN "Idle"
  ELSE IF "CMD_DONE" \notin sd THEN "SendingCmd"
  ELSE IF cmd \notin DataCmds THEN "Idle"
  ELSE "SendingData"

SendingCmdNext(sd, status) ==
  IF "CMD_DONE" \notin sd THEN "SendingCmd"
  ELSE IF CommandErr(status) # None \/ cmd \notin DataCmds THEN "Idle"
  ELSE "SendingData"

\* State::SendingCmd.  Both calls of process_command_response look at orig_evt.
ProcessSendingCmd ==
  /\ ThreadRuns
  /\ pc = "process" /\ state = "SendingCmd"
  /\ LET sd == evt.sdmmc_status
         responded == sd \cap (SD_CMD_ERR_MASK \cup {"CMD_DONE"}) # {}
         status == IF responded THEN orig.sdmmc_status ELSE {}
     IN  /\ err' = CommandErr(status)
         /\ ctrl' = IF ResponseError(status) # None /\ cmd \in DataCmds
                    THEN DmaStop(ctrl) ELSE ctrl
         /\ NextState(SendingCmdNext(sd, status),
                      [evt EXCEPT !.sdmmc_status =
                                    sd \ (SD_CMD_ERR_MASK \cup {"CMD_DONE"})])
  /\ UNCHANGED <<hostButCtrl, clk, cmd, seen, hears, cmdReg, hwVars>>

\* Mutant of SendingDataNext: the transfer ends when the DMA is done.
SendingDataNextHasty(status, dma) ==
  IF status \cap {"SBE", "DATA_OVER"} # {} \/ dma # {} THEN "Idle" ELSE "SendingData"

\* DATA_OVER ends the transfer whatever the DMA says.
SendingDataNext(status, dma) ==
  IF status \cap {"SBE", "DATA_OVER"} # {} THEN "Idle"
  ELSE IF dma # {} THEN "Busy"
  ELSE "SendingData"

\* State::SendingData.
ProcessSendingData ==
  /\ ThreadRuns
  /\ pc = "process" /\ state = "SendingData"
  /\ LET sd == evt.sdmmc_status
         failed == sd \cap SD_DATA_ERR_MASK # {}
     IN  /\ err' = IF failed THEN DataStatusErr(orig.sdmmc_status) ELSE err
         /\ ctrl' = IF failed THEN DmaStop(DataStatusCtrl(orig.sdmmc_status)) ELSE ctrl
         /\ NextState(SendingDataNext(orig.sdmmc_status, evt.dma_status),
                      [sdmmc_status |-> sd \ SD_DATA_ERR_MASK, dma_status |-> {}])
  /\ UNCHANGED <<hostButCtrl, clk, cmd, seen, hears, cmdReg, hwVars>>

\* State::Busy.  Errors that came after the DMA finished are in orig_evt.
ProcessBusy ==
  /\ ThreadRuns
  /\ pc = "process" /\ state = "Busy"
  /\ LET sd == evt.sdmmc_status
         over == "DATA_OVER" \in sd
     IN  /\ err' = IF over THEN DataStatusErr(orig.sdmmc_status) ELSE err
         /\ ctrl' = IF over THEN DataStatusCtrl(orig.sdmmc_status) ELSE ctrl
         /\ NextState(IF over THEN "Idle" ELSE "Busy",
                      [evt EXCEPT !.sdmmc_status = sd \ {"DATA_OVER"}])
  /\ UNCHANGED <<hostButCtrl, clk, cmd, seen, hears, cmdReg, hwVars>>

\* State::Idle.
ProcessIdle ==
  /\ ThreadRuns
  /\ pc = "process" /\ state = "Idle"
  /\ NextState("Idle", evt)
  /\ UNCHANGED <<hostVars, clk, cmd, err, seen, hears, cmdReg, hwVars>>

\* The received bytes are copied out and the caller goes on; the locals are gone.
Finish ==
  /\ ThreadRuns
  /\ pc = "done"
  /\ pc' = "idle" /\ clk' = 0 /\ err' = None /\ result' = None /\ seen' = {}
  /\ state' = "Idle" /\ unhandled' = NoEvent /\ hears' = "all"
  /\ UNCHANGED <<hostVars, cmd, evt, orig, cmdReg, hwVars>>

-----------------------------------------------------------------------------
(* The hardware (external).                                                *)

hostButRint == <<ctrl, intmask, idsts, queue, intrEvent, isrPc, isrEvt, panicked>>

Raise(bits) == rintsts' = rintsts \cup bits

HwGoes(to) == hw' = to /\ hwCmd' = IF to = "idle" THEN NoCmd ELSE hwCmd

\* An idle controller takes what is in CMD; a clock update is over at once.
HwTake ==
  /\ cmdReg # NoCmd
  /\ hw = "idle"
  /\ cmdReg' = NoCmd
  /\ IF cmdReg = ClkUpdate
     THEN UNCHANGED <<hw, hwCmd, hwDma>>
     ELSE /\ hw' = "command" /\ hwCmd' = cmdReg
          /\ hwDma' = IF cmdReg \in DataCmds THEN cmdReg ELSE NoCmd
  /\ UNCHANGED <<hostVars, txnVars, present>>

\* No response, or a wrong one; "command done" is still to come.
HwCommandError ==
  /\ hw = "command" /\ hwCmd \in RspCmds
  /\ \E e \in HwErrors \cap SD_CMD_ERR_MASK : (e = "RCRC" => hwCmd \in CrcCmds) /\ Raise({e})
  /\ hw' = "failed"
  /\ UNCHANGED <<hostButRint, txnVars, cmdReg, hwCmd, hwDma, present>>

\* After a wrong response the card may send data all the same.
HwCommandDone ==
  /\ hw \in {"command", "failed"}
  /\ Raise({"CMD_DONE"})
  /\ \/ hwCmd \in DataCmds /\ HwGoes("data")
     \/ (hwCmd \in DataCmds => hw = "failed") /\ HwGoes("idle")
  /\ UNCHANGED <<hostButRint, txnVars, cmdReg, hwDma, present>>

\* A data error; after a start bit error there is no "data over".
HwDataError ==
  /\ hw = "data"
  /\ \E e \in HwErrors \cap SD_DATA_ERR_MASK :
       /\ Raise({e})
       /\ HwGoes(IF e = "SBE" THEN "idle" ELSE "dataFailed")
  /\ UNCHANGED <<hostButRint, txnVars, cmdReg, hwDma, present>>

HwDataOver ==
  /\ hw \in {"data", "dataFailed"}
  /\ Raise({"DATA_OVER"})
  /\ HwGoes("idle")
  /\ UNCHANGED <<hostButRint, txnVars, cmdReg, hwDma, present>>

\* The DMA controller closes the last descriptor, before or after "data over".
HwDmaDone ==
  /\ hwDma # NoCmd
  /\ hw \in {"data", "dataFailed", "idle"}
  /\ "use_internal_dmac" \in ctrl
  /\ idsts' = idsts \cup {"NI", IF hwDma \in ReadCmds THEN "RI" ELSE "TI"}
  /\ hwDma' = NoCmd
  /\ UNCHANGED <<ctrl, rintsts, intmask, queue, intrEvent, isrPc, isrEvt, panicked,
                 txnVars, cmdReg, hw, hwCmd, present>>

\* Card detect interrupts on their way to the thread.  One that is raised while
\* the last one is still in RINTSTS is not told apart from it.
CdOnTheWay ==
  Cardinality({i \in 1..Len(queue) : "CD" \in queue[i].sdmmc_status})
    + (IF "CD" \in isrEvt.sdmmc_status THEN 1 ELSE 0)
    + (IF "CD" \in rintsts THEN 1 ELSE 0)

\* The card goes or comes, any number of times.
HwCardDetect ==
  /\ "CD" \in rintsts \/ CdOnTheWay < MaxCd
  /\ present' = ~present
  /\ Raise({"CD"})
  /\ UNCHANGED <<hostButRint, txnVars, cmdReg, hw, hwCmd, hwDma>>

-----------------------------------------------------------------------------
IsrStep ==
  /\ Isr
  /\ isrPc = "idle" /\ pc = "timedOut" => Len(queue) < MaxLate
  /\ UNCHANGED <<txnVars, cmdReg, hwVars>>

ResetDoneStep == HwResetDone /\ UNCHANGED <<txnVars, cmdReg, hwVars>>

Thread == \/ Begin \/ Issue \/ IssueRefused \/ IssueTimeout
          \/ Accepted \/ AcceptTimeout \/ Prepare
          \/ ReceiveEvent \/ EventTimeout \/ StopDma
          \/ ProcessSendingCmd \/ ProcessSendingData \/ ProcessBusy \/ ProcessIdle
          \/ Finish

Hardware == \/ HwTake \/ HwCommandError \/ HwCommandDone
            \/ HwDataError \/ HwDataOver \/ HwDmaDone
            \/ HwCardDetect \/ ResetDoneStep

Next == Thread \/ IsrStep \/ Hardware

Spec == Init /\ [][Next]_vars

\* The executor polls the task and its timers again, the handler runs to its
\* end and is entered while the line is up.
Fairness == WF_vars(Thread) /\ WF_vars(IsrStep)

\* AcceptSpec adds a controller that takes commands, PromptSpec one that also gets
\* on with its work.
HardwareFairness ==
  /\ WF_vars(HwTake) /\ WF_vars(HwCommandDone) /\ WF_vars(HwDataOver)
  /\ WF_vars(HwDmaDone)

FairSpec == Spec /\ Fairness
AcceptSpec == FairSpec /\ WF_vars(HwTake)
PromptSpec == FairSpec /\ HardwareFairness

-----------------------------------------------------------------------------
(* Properties.                                                             *)

TypeOK ==
  /\ HostTypeOK
  /\ pc \in {"idle", "issue", "accept", "prepare", "wait", "timedOut", "process", "done"}
  /\ clk \in 0..3
  /\ cmd \in Cmds
  /\ err \in Errors \cup {None}
  /\ state \in States
  /\ evt \in Event /\ orig \in Event /\ unhandled \in Event
  /\ result \in {"Ok", "Timeout", "NotFound", None}
  /\ cmdReg \in Cmds \cup {NoCmd, ClkUpdate}
  /\ hw \in {"idle", "command", "failed", "data", "dataFailed"}
  /\ hwCmd \in Cmds \cup {NoCmd} /\ hwDma \in DataCmds \cup {NoCmd}
  /\ present \in BOOLEAN /\ hears \in Hearings
  /\ seen \subseteq AnswerBits

NoAnswer(bits) == bits \cap AnswerBits = {}

\* No answer is on its way to the thread: none raised and not acknowledged, none
\* in the handler's hands, none in the queue.
PipelineClean ==
  /\ NoAnswer(rintsts)
  /\ NoAnswer(isrEvt.sdmmc_status)
  /\ \A i \in 1..Len(queue) : NoAnswer(queue[i].sdmmc_status)

\* set_card_clk is running, or the command is about to be written to CMD.
BeforeCommand == pc \in {"idle", "issue", "prepare"} \/ (pc = "accept" /\ clk < 3)

\* The event loop starts on whatever the queue holds, without draining it, so a
\* leftover is taken for an answer to the command it waits for.  Until that
\* command is written to CMD there is none on its way; only after a timeout or a
\* failed transfer, which leave the interrupt off, may the queue hold one, and
\* then it holds "command done" once at most.
StaleAnswersBounded ==
  BeforeCommand =>
    IF Muted
    THEN \A i, j \in 1..Len(queue) :
           "CMD_DONE" \in queue[i].sdmmc_status \cap queue[j].sdmmc_status => i = j
    ELSE PipelineClean

InLoop == pc \in {"wait", "timedOut", "process"}

\* The command has been written to CMD and its event loop is not over.
InFlight == InLoop \/ (pc = "accept" /\ clk = 3)

\* do_transaction reports success only when the controller has finished the
\* command it was called for, unless the call began with a "command done" of an
\* earlier one in the queue and took that for its own.
OkMeansFinished ==
  pc = "done" /\ result = "Ok" /\ err = None
    => hears = "stale" \/ (hw = "idle" /\ cmdReg = NoCmd)

\* The errors that concern the command.
RelevantErrors ==
  {"RTO", "RESP_ERR"} \cup (IF cmd \in CrcCmds THEN {"RCRC"} ELSE {})
                      \cup (IF cmd \in DataCmds THEN SD_DATA_ERR_MASK ELSE {})

\* However the bits of one command are spread over events and states, cmd.err
\* is set at the end if and only if an error that concerns the command was
\* among them.
ErrorsReported ==
  pc = "done" /\ result = "Ok" => (err # None <=> seen \cap RelevantErrors # {})

\* A data command that fails once the event loop has started leaves the DMA
\* off, so that it cannot write to the buffer of a later command.
FailedTransferStopsDma ==
  pc = "done" /\ cmd \in DataCmds /\ (err # None \/ (result = "Timeout" /\ state # "Idle"))
    => "use_internal_dmac" \notin ctrl

\* Every transaction ends, whatever the hardware does or fails to do, once the
\* user leaves the card alone (every card detect event starts the wait of
\* handle_event anew), unless the handler panics (IsrNeverPanics).
TransactionReturns ==
  <>[][~HwCardDetect]_vars => (pc # "idle" ~> (pc = "idle" \/ panicked))

Service == INSTANCE CommandService WITH
  call <- IF pc \in {"idle", "done"} THEN None ELSE cmd,
  ran <- IF ~InFlight \/ cmdReg # NoCmd THEN "not"
         ELSE IF hw # "idle" THEN "running" ELSE "done",
  ret <- result,
  failed <- result = "Ok" /\ err # None,
  hears <- IF pc \in {"idle", "done"} THEN Hearing ELSE hears

\* do_transaction, in all its steps and with all that happens between them,
\* carries out one command at a time.  It replies truthfully: Ok only for a command
\* that the controller has taken and, without an error, finished; NotFound only for
\* one it has not.  What it stops hearing is what CardInit expects, and a stale
\* "command done" makes no more than one Ok that is not true.
CommandServed == Service!Spec

-----------------------------------------------------------------------------
(* What the repository says and the code does not keep.                    *)

\* "process events until transfer is complete" (sdmmc_sd.rs:187): when a read
\* ends without an error the DMA has written all of it to the buffer.
TransferComplete ==
  pc = "done" /\ result = "Ok" /\ err = None /\ cmd \in DataCmds => hwDma = NoCmd

\* "process events until transfer is complete" (sdmmc_sd.rs:187): do_transaction
\* reports success only when the controller has finished the command it was called
\* for.
CompletedMeansFinished ==
  pc = "done" /\ result = "Ok" /\ err = None => hw = "idle" /\ cmdReg = NoCmd

\* EVENT_QUEUE.try_send(event).unwrap() (lib.rs:132) asserts that there is room.
IsrNeverPanics == ~panicked

HwErrorStep == HwCommandError \/ HwDataError

\* "driver init failed ..., retry..." (main.rs:70): once the card is in the slot
\* for good and the hardware reports no error any more, commands succeed again.
RetryRecovers ==
  <>[]present /\ <>[][~HwErrorStep]_vars => []<>(result = "Ok")
=============================================================================
