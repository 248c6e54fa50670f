----------------------------- MODULE SdHostProofs ----------------------------
(***************************************************************************)
(* What the proofs about the two users of SdHost, Transaction and          *)
(* HostInit, need to know of the interrupt handler.                        *)
(***************************************************************************)
EXTENDS SdHost, TLAPS

\* The handler keeps the types of the registers and of the queue.
LEMMA IsrType ==
  ASSUME HostTypeOK, Isr
  PROVE  HostTypeOK'
<1>1. CASE IsrEnter
  BY <1>1 DEF IsrEnter, HostTypeOK, Event, mintsts
<1>2. CASE IsrAckSd
  BY <1>2 DEF IsrAckSd, HostTypeOK
<1>3. CASE IsrReadDma
  BY <1>3 DEF IsrReadDma, HostTypeOK, Event
<1>4. CASE IsrAckDma
  BY <1>4 DEF IsrAckDma, HostTypeOK
<1>5. CASE IsrSend
  <2>1. NoEvent \in Event
    BY DEF NoEvent, Event
  <2>2. queue' \in Seq(Event)
    <3>1. queue' = queue \/ queue' = Append(queue, isrEvt)
      BY <1>5 DEF IsrSend
    <3>2. queue \in Seq(Event) /\ isrEvt \in Event
      BY DEF HostTypeOK
    <3> QED BY <3>1, <3>2
  <2>3. panicked' \in BOOLEAN
    BY <1>5 DEF IsrSend, HostTypeOK
  <2> QED BY <1>5, <2>1, <2>2, <2>3 DEF IsrSend, HostTypeOK
<1>6. CASE IsrSdio
  BY <1>6 DEF IsrSdio, HostTypeOK
<1> QED BY <1>1, <1>2, <1>3, <1>4, <1>5, <1>6 DEF Isr

\* The SDIO interrupts are not among those init enables, so the handler never
\* masks anything: the mask stays what init has set it to.
LEMMA IsrKeepsMask ==
  ASSUME intmask = SDMMC_LL_EVENT_DEFAULT, Isr
  PROVE  intmask' = intmask
  BY DEF Isr, IsrEnter, IsrAckSd, IsrReadDma, IsrAckDma, IsrSend, IsrSdio, mintsts,
         SDMMC_LL_EVENT_DEFAULT, SdioBits, SD_CMD_ERR_MASK, SD_DATA_ERR_MASK
=============================================================================
