------------------------------- MODULE SdHost -------------------------------
(***************************************************************************)
(* The ESP32 SDHOST peripheral as the driver's interrupt handler sees it,  *)
(* and the handler itself: the interrupt half of the driver.  The thread   *)
(* half (Transaction, HostInit) extends this module.                       *)
(*                                                                         *)
(* A register whose bits are looked at one by one is the set of the names  *)
(* of the bits that are 1.  The handler (lib.rs, inter::handler) runs      *)
(* above the thread on the same core, so no thread step happens while      *)
(* isrPc # "idle"; the hardware goes on between any two of its accesses.   *)
(***************************************************************************)
EXTENDS Naturals, Sequences

CONSTANT QueueCap   \* capacity of the EVENT_QUEUE channel, 32 in the code

ASSUME QueueCapAssumption == QueueCap \in Nat \ {0}

VARIABLES
  ctrl,       \* CTRL register
  rintsts,    \* raw interrupt status RINTSTS, write one to clear
  intmask,    \* interrupt mask INTMASK: the interrupts that are enabled
  idsts,      \* internal DMA controller status IDSTS, write one to clear
  queue,      \* EVENT_QUEUE: events sent by the handler, oldest first
  intrEvent,  \* INTR_EVENT: permits of the SDIO interrupt semaphore
  isrPc,      \* where inter::handler is
  isrEvt,     \* its locals pending and dma_pending, as the event they form
  panicked    \* a panic! was reached: the panic handler loops forever

hostVars == <<ctrl, rintsts, intmask, idsts, queue, intrEvent, isrPc, isrEvt,
              panicked>>

-----------------------------------------------------------------------------
(* Bits.                                                                   *)

ResetBits == {"controller_reset", "dma_reset", "fifo_reset"}

CtrlBits == ResetBits \cup {"int_enable", "dma_enable", "use_internal_dmac"}

\* The command errors, SD_CMD_ERR_MASK.
SD_CMD_ERR_MASK == {"RTO", "RCRC", "RESP_ERR"}

\* The data errors, SD_DATA_ERR_MASK.
SD_DATA_ERR_MASK == {"DTO", "DCRC", "HTO", "SBE", "EBE"}

\* The end of a descriptor, SD_DMA_DONE_MASK.
SD_DMA_DONE_MASK == {"RI", "TI", "NI"}

\* The interrupts init enables.  The two SDIO interrupts are not among them.
SDMMC_LL_EVENT_DEFAULT ==
  SD_CMD_ERR_MASK \cup SD_DATA_ERR_MASK
    \cup {"CD", "CMD_DONE", "DATA_OVER", "HLE"}

SdioBits == {"IO_SLOT0", "IO_SLOT1"}

StatusBits == SDMMC_LL_EVENT_DEFAULT \cup SdioBits

\* What an interrupt tells about the command in flight; card detect ("CD")
\* is about the slot.
AnswerBits == SD_CMD_ERR_MASK \cup SD_DATA_ERR_MASK \cup {"CMD_DONE", "DATA_OVER"}

Event == [sdmmc_status : SUBSET StatusBits, dma_status : SUBSET SD_DMA_DONE_MASK]

NoEvent == [sdmmc_status |-> {}, dma_status |-> {}]

-----------------------------------------------------------------------------
(* Registers.                                                              *)

\* MINTSTS: the raw status under the mask.
mintsts == rintsts \cap intmask

\* The level of the interrupt line: nothing gets through while int_enable
\* is 0.  IDINTEN holds NI, RI and TI from ll_init_dma on; before it no DMA runs.
InterruptLine ==
  /\ "int_enable" \in ctrl
  /\ mintsts # {} \/ idsts # {}

\* Mutant of DmaStop: the modify is forgotten and the write made a modify.
DmaStopKeepsDma(c) == {"dma_reset"} \cup (c \cap {"use_internal_dmac"})

\* Sdmmc::dma_stop.  write() of the register crate starts from the reset
\* value 0 and not from the register, so the bits of c that are not named are
\* cleared; the modify() that follows clears use_internal_dmac.
DmaStop(c) == {"dma_reset"} \ {"use_internal_dmac"}

\* The write of fifo_reset in process_data_status.
FifoReset(c) == {"fifo_reset"}

\* Mutant of EnableDma: a write(), like dma_stop.
EnableDmaWrites(c) == {"dma_enable", "use_internal_dmac"}

\* Sdmmc::enable_dma(true): a modify().
EnableDma(c) == c \cup {"dma_enable", "use_internal_dmac"}

-----------------------------------------------------------------------------
(* The interrupt handler, one action per access to shared state.           *)

\* Entry: pending = mintsts & 0xFFFF, which leaves the SDIO bits 16, 17 out.
IsrEnter ==
  /\ ~panicked
  /\ isrPc = "idle"
  /\ InterruptLine
  /\ isrEvt' = [sdmmc_status |-> mintsts \ SdioBits, dma_status |-> {}]
  /\ isrPc' = "ackSd"
  /\ UNCHANGED <<ctrl, rintsts, intmask, idsts, queue, intrEvent, panicked>>

\* Mutant of IsrAckSd: acknowledges everything, not what was read.
IsrAckAll ==
  /\ isrPc = "ackSd"
  /\ rintsts' = {}
  /\ isrPc' = "readDma"
  /\ UNCHANGED <<ctrl, intmask, idsts, queue, intrEvent, isrEvt, panicked>>

\* Acknowledge exactly what was read.
IsrAckSd ==
  /\ isrPc = "ackSd"
  /\ rintsts' = rintsts \ isrEvt.sdmmc_status
  /\ isrPc' = "readDma"
  /\ UNCHANGED <<ctrl, intmask, idsts, queue, intrEvent, isrEvt, panicked>>

IsrReadDma ==
  /\ isrPc = "readDma"
  /\ isrEvt' = [isrEvt EXCEPT !.dma_status = idsts]
  /\ isrPc' = "ackDma"
  /\ UNCHANGED <<ctrl, rintsts, intmask, idsts, queue, intrEvent, panicked>>

IsrAckDma ==
  /\ isrPc = "ackDma"
  /\ idsts' = idsts \ isrEvt.dma_status
  /\ isrPc' = "send"
  /\ UNCHANGED <<ctrl, rintsts, intmask, queue, intrEvent, isrEvt, panicked>>

\* EVENT_QUEUE.try_send(event).unwrap() if either word is non-zero: a full
\* channel makes the handler panic.
IsrSend ==
  /\ isrPc = "send"
  /\ IF isrEvt = NoEvent
     THEN UNCHANGED <<queue, panicked>>
     ELSE IF Len(queue) < QueueCap
          THEN queue' = Append(queue, isrEvt) /\ UNCHANGED panicked
          ELSE panicked' = TRUE /\ UNCHANGED queue
  /\ isrEvt' = NoEvent
  /\ isrPc' = "sdio"
  /\ UNCHANGED <<ctrl, rintsts, intmask, idsts, intrEvent>>

\* A pending SDIO interrupt is masked and its semaphore released.
IsrSdio ==
  /\ ~panicked
  /\ isrPc = "sdio"
  /\ LET sdio == mintsts \cap SdioBits
     IN  /\ intmask' = intmask \ sdio
         /\ intrEvent' = IF sdio # {} THEN intrEvent + 1 ELSE intrEvent
  /\ isrPc' = "idle"
  /\ UNCHANGED <<ctrl, rintsts, idsts, queue, isrEvt, panicked>>

Isr == \/ IsrEnter
       \/ IsrAckSd
       \/ IsrReadDma
       \/ IsrAckDma
       \/ IsrSend
       \/ IsrSdio

-----------------------------------------------------------------------------
\* The self-clearing reset bits of CTRL.
HwResetDone ==
  /\ ctrl \cap ResetBits # {}
  /\ ctrl' = ctrl \ ResetBits
  /\ UNCHANGED <<rintsts, intmask, idsts, queue, intrEvent, isrPc, isrEvt,
                 panicked>>

HostTypeOK ==
  /\ ctrl \subseteq CtrlBits
  /\ rintsts \subseteq StatusBits
  /\ intmask \subseteq StatusBits
  /\ idsts \subseteq SD_DMA_DONE_MASK
  /\ queue \in Seq(Event)
  /\ intrEvent \in Nat
  /\ isrPc \in {"idle", "ackSd", "readDma", "ackDma", "send", "sdio"}
  /\ isrEvt \in Event
  /\ panicked \in BOOLEAN
=============================================================================
