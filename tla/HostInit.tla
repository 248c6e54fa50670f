------------------------------ MODULE HostInit ------------------------------
(***************************************************************************)
(* Sdmmc::init, then a thread that receives the events.  The handler of    *)
(* SdHost is bound half way through, and the hardware raises interrupts    *)
(* all along.  The processor may be reset at any step, and begins again    *)
(* with a peripheral that goes on from where it was.                       *)
(*                                                                         *)
(* set_clk_div(2), which does not touch the registers of SdHost, is in     *)
(* ClockControl.                                                           *)
(***************************************************************************)
EXTENDS SdHost

CONSTANTS
  HwBits,    \* the RINTSTS bits the hardware raises
  DmaBits,   \* the IDSTS bits it raises once init is over
  MaxRaise,  \* bound: interrupts raised in a behaviour
  MaxReboot  \* bound: resets of the processor in a behaviour

ASSUME HwBitsAssumption == HwBits \subseteq StatusBits /\ DmaBits \subseteq SD_DMA_DONE_MASK
ASSUME MaxAssumption == MaxRaise \in Nat /\ MaxReboot \in Nat

VARIABLES
  pc,        \* where init is; "ready" once it has returned Ok
  bound,     \* inter::bind has been called
  raiseLeft,   \* interrupts still to be raised
  rebootLeft   \* resets still to come

vars == <<hostVars, pc, bound, raiseLeft, rebootLeft>>

\* Power-up.
Init ==
  /\ ctrl = {} /\ rintsts = {} /\ intmask = {} /\ idsts = {}
  /\ queue = <<>> /\ intrEvent = 0
  /\ isrPc = "idle" /\ isrEvt = NoEvent /\ panicked = FALSE
  /\ pc = "start" /\ bound = FALSE
  /\ raiseLeft = MaxRaise /\ rebootLeft = MaxReboot

-----------------------------------------------------------------------------
(* Sdmmc::init.                                                            *)

\* The thread goes from a to b; the handler preempts it between two steps.
Goes(a, b) ==
  /\ ~panicked /\ isrPc = "idle"
  /\ pc = a /\ pc' = b

\* ll_enable_bus_clk and ll_reset_register: the peripheral is reset as a whole.
ResetRegister ==
  /\ Goes("start", "resetController")
  /\ ctrl' = {} /\ rintsts' = {} /\ intmask' = {} /\ idsts' = {}
  /\ UNCHANGED <<queue, intrEvent, isrPc, isrEvt, panicked, bound, raiseLeft, rebootLeft>>

\* module_reset: three writes of CTRL, each of which clears the other bits.
WriteReset(bit, from, to) ==
  /\ Goes(from, to)
  /\ ctrl' = {bit}
  /\ UNCHANGED <<rintsts, intmask, idsts, queue, intrEvent, isrPc, isrEvt, panicked,
                 bound, raiseLeft, rebootLeft>>

ResetController == WriteReset("controller_reset", "resetController", "resetDma")
ResetDma == WriteReset("dma_reset", "resetDma", "resetFifo")
ResetFifo == WriteReset("fifo_reset", "resetFifo", "resetWait")

\* is_module_reset_done.
ModuleResetDone ==
  /\ Goes("resetWait", "clear")
  /\ ctrl \cap ResetBits = {}
  /\ UNCHANGED <<hostVars, bound, raiseLeft, rebootLeft>>

\* Mutant of ResetTimeout: init goes on waiting.
ResetTimeoutIgnored ==
  /\ Goes("resetWait", "resetWait")
  /\ ctrl \cap ResetBits # {}
  /\ UNCHANGED <<hostVars, bound, raiseLeft, rebootLeft>>

\* Not done after RESET_TIMEOUT_MS; SdmmcCard::new unwraps the error.
ResetTimeout ==
  /\ Goes("resetWait", "failed")
  /\ ctrl \cap ResetBits # {}
  /\ panicked' = TRUE
  /\ UNCHANGED <<ctrl, rintsts, intmask, idsts, queue, intrEvent, isrPc, isrEvt, bound,
                 raiseLeft, rebootLeft>>

\* intmask_clear_disable, first the status ...
ClearInterrupt ==
  /\ Goes("clear", "disable")
  /\ rintsts' = {}
  /\ UNCHANGED <<ctrl, intmask, idsts, queue, intrEvent, isrPc, isrEvt, panicked, bound,
                 raiseLeft, rebootLeft>>

\* ... then the mask and int_enable, with a write of CTRL.
DisableInterrupt ==
  /\ Goes("disable", "bind")
  /\ intmask' = {} /\ ctrl' = {}
  /\ UNCHANGED <<rintsts, idsts, queue, intrEvent, isrPc, isrEvt, panicked, bound,
                 raiseLeft, rebootLeft>>

\* EVENT_QUEUE.clear(), INTR_EVENT.set(0) and inter::bind().
Bind ==
  /\ Goes("bind", "unmask")
  /\ queue' = <<>> /\ intrEvent' = 0 /\ bound' = TRUE
  /\ UNCHANGED <<ctrl, rintsts, intmask, idsts, isrPc, isrEvt, panicked, raiseLeft,
                 rebootLeft>>

\* intmask_set_enable, first the mask ...
Unmask ==
  /\ Goes("unmask", "enable")
  /\ intmask' = SDMMC_LL_EVENT_DEFAULT
  /\ UNCHANGED <<ctrl, rintsts, idsts, queue, intrEvent, isrPc, isrEvt, panicked, bound,
                 raiseLeft, rebootLeft>>

\* ... then int_enable, with a write of CTRL.
EnableInterrupt ==
  /\ Goes("enable", "initDma")
  /\ ctrl' = {"int_enable"}
  /\ UNCHANGED <<rintsts, intmask, idsts, queue, intrEvent, isrPc, isrEvt, panicked, bound,
                 raiseLeft, rebootLeft>>

\* Mutant of InitDma: bit 6 for bit 5.
InitDmaBit6 ==
  /\ Goes("initDma", "ready")
  /\ ctrl' = ctrl \cup {"read_wait"}
  /\ UNCHANGED <<rintsts, intmask, idsts, queue, intrEvent, isrPc, isrEvt, panicked, bound,
                 raiseLeft, rebootLeft>>

\* Mutant of InitDma: a write, like the steps before it.
InitDmaWrites ==
  /\ Goes("initDma", "ready")
  /\ ctrl' = {"dma_enable"}
  /\ UNCHANGED <<rintsts, intmask, idsts, queue, intrEvent, isrPc, isrEvt, panicked, bound,
                 raiseLeft, rebootLeft>>

\* ll_init_dma: a modify of CTRL.
InitDma ==
  /\ Goes("initDma", "ready")
  /\ ctrl' = ctrl \cup {"dma_enable"}
  /\ UNCHANGED <<rintsts, intmask, idsts, queue, intrEvent, isrPc, isrEvt, panicked, bound,
                 raiseLeft, rebootLeft>>

\* wait_for_event.
WaitForEvent ==
  /\ Goes("ready", "ready")
  /\ queue # <<>>
  /\ queue' = Tail(queue)
  /\ UNCHANGED <<ctrl, rintsts, intmask, idsts, intrEvent, isrPc, isrEvt, panicked, bound,
                 raiseLeft, rebootLeft>>

InitSteps == \/ ResetRegister \/ ResetController \/ ResetDma \/ ResetFifo
             \/ ModuleResetDone \/ ResetTimeout
             \/ ClearInterrupt \/ DisableInterrupt \/ Bind
             \/ Unmask \/ EnableInterrupt \/ InitDma

-----------------------------------------------------------------------------
(* The handler runs once it is bound; the hardware (external) at any time. *)

IsrStep == bound /\ Isr /\ UNCHANGED <<pc, bound, raiseLeft, rebootLeft>>

HwRaise ==
  /\ raiseLeft > 0 /\ raiseLeft' = raiseLeft - 1
  /\ \/ \E b \in HwBits : rintsts' = rintsts \cup {b} /\ UNCHANGED idsts
     \/ /\ pc = "ready"
        /\ \E b \in DmaBits : idsts' = idsts \cup {b} /\ UNCHANGED rintsts
  /\ UNCHANGED <<ctrl, intmask, queue, intrEvent, isrPc, isrEvt, panicked, pc, bound, rebootLeft>>

ResetDoneStep == HwResetDone /\ UNCHANGED <<pc, bound, raiseLeft, rebootLeft>>

\* A reset of the processor alone: the peripheral keeps its registers and its
\* interrupts, the program starts anew.
Reboot ==
  /\ rebootLeft > 0 /\ rebootLeft' = rebootLeft - 1
  /\ queue' = <<>> /\ intrEvent' = 0
  /\ isrPc' = "idle" /\ isrEvt' = NoEvent /\ panicked' = FALSE
  /\ pc' = "start" /\ bound' = FALSE
  /\ UNCHANGED <<ctrl, rintsts, intmask, idsts, raiseLeft>>

Next == InitSteps \/ WaitForEvent \/ IsrStep \/ HwRaise \/ ResetDoneStep \/ Reboot

\* The thread that called init runs on, and so does the handler.
Fairness == WF_vars(InitSteps) /\ WF_vars(WaitForEvent) /\ WF_vars(IsrStep)

Spec == Init /\ [][Next]_vars /\ Fairness

-----------------------------------------------------------------------------
(* Properties.                                                             *)

TypeOK ==
  /\ HostTypeOK
  /\ pc \in {"start", "resetController", "resetDma", "resetFifo", "resetWait", "clear",
             "disable", "bind", "unmask", "enable", "initDma", "ready", "failed"}
  /\ bound \in BOOLEAN
  /\ raiseLeft \in 0..MaxRaise /\ rebootLeft \in 0..MaxReboot

\* Six writes and modifies of CTRL, some of which clear the bits of others,
\* leave the interrupt and the DMA on and no reset behind, whatever an earlier
\* boot was doing when the processor was reset.
InitArms ==
  pc = "ready" => /\ ctrl = {"int_enable", "dma_enable"}
                  /\ intmask = SDMMC_LL_EVENT_DEFAULT

\* The channel opens when init has cleared RINTSTS, and is closed by a reset of
\* the processor: what an earlier boot has left there is never reported.
BeforeOpen == {"start", "resetController", "resetDma", "resetFifo", "resetWait", "clear",
               "failed"}

\* init returns or panics, even if a reset of the controller never ends.
InitEnds == pc = "start" ~> (pc = "ready" \/ panicked)

Opened == pc \notin BeforeOpen

Word(e) == e.sdmmc_status \cup e.dma_status

\* Raised, and not in the queue yet.
Owed == IF Opened
        THEN (rintsts \cap SDMMC_LL_EVENT_DEFAULT) \cup idsts \cup Word(isrEvt)
        ELSE {}

Reports(events) == [i \in DOMAIN events |-> Word(events[i])]

Channel == INSTANCE EventChannel WITH
  Interrupts <- SDMMC_LL_EVENT_DEFAULT \cup SD_DMA_DONE_MASK,
  Cap <- QueueCap,
  open <- Opened, owed <- Owed, reports <- Reports(queue), broken <- panicked

\* The handler, which reads, acknowledges and sends in five steps while the
\* hardware goes on, loses no interrupt that was raised after init cleared the
\* status, makes none up, and reports every one, if not at a full queue.
EventsReported == Channel!Spec
=============================================================================
