---------------------------- MODULE HostInitProofs ---------------------------
(***************************************************************************)
(* Sdmmc::init arms the controller whatever an earlier boot has left       *)
(* behind, and the interrupt path loses no interrupt and makes none up,    *)
(* for every queue capacity, every set of interrupts and any number of     *)
(* interrupts and resets.                                                  *)
(***************************************************************************)
EXTENDS HostInit, SdHostProofs, SequenceTheorems

-----------------------------------------------------------------------------
(* Type correctness.                                                       *)

\* A power-on has the types.
LEMMA InitType == Init => TypeOK
<1> SUFFICES ASSUME Init PROVE TypeOK
  OBVIOUS
<1>1. NoEvent \in Event /\ <<>> \in Seq(Event)
  BY DEF NoEvent, Event
<1>2. panicked \in BOOLEAN /\ bound \in BOOLEAN
  BY DEF Init
<1>3. raiseLeft \in 0..MaxRaise /\ rebootLeft \in 0..MaxReboot
  BY MaxAssumption DEF Init
<1> QED BY <1>1, <1>2, <1>3 DEF Init, TypeOK, HostTypeOK

\* So have the steps of init and of the thread that reads events.
LEMMA InitStepsType ==
  ASSUME TypeOK, InitSteps \/ WaitForEvent
  PROVE  TypeOK'
<1> USE DEF TypeOK, HostTypeOK, Goes
<1>1. <<>> \in Seq(Event)
  OBVIOUS
<1>2. CASE ResetRegister
  BY <1>2 DEF ResetRegister
<1>3. CASE ResetController \/ ResetDma \/ ResetFifo
  BY <1>3 DEF ResetController, ResetDma, ResetFifo, WriteReset, CtrlBits, ResetBits
<1>4. CASE ModuleResetDone
  BY <1>4 DEF ModuleResetDone, hostVars
<1>5. CASE ResetTimeout
  BY <1>5 DEF ResetTimeout
<1>6. CASE ClearInterrupt \/ DisableInterrupt
  BY <1>6 DEF ClearInterrupt, DisableInterrupt
<1>7. CASE Bind
  BY <1>1, <1>7 DEF Bind
<1>8. CASE Unmask
  BY <1>8 DEF Unmask, StatusBits
<1>9. CASE EnableInterrupt \/ InitDma
  BY <1>9 DEF EnableInterrupt, InitDma, CtrlBits
<1>10. CASE WaitForEvent
  BY <1>10 DEF WaitForEvent
<1> QED BY <1>2, <1>3, <1>4, <1>5, <1>6, <1>7, <1>8, <1>9, <1>10 DEF InitSteps

\* Every step keeps the types, a reset of the processor included.
LEMMA NextType == TypeOK /\ [Next]_vars => TypeOK'
<1> SUFFICES ASSUME TypeOK, [Next]_vars
             PROVE  TypeOK'
  OBVIOUS
<1>1. CASE InitSteps \/ WaitForEvent
  BY <1>1, InitStepsType
<1>2. CASE IsrStep
  BY <1>2, IsrType DEF IsrStep, TypeOK
<1>3. CASE HwRaise
  BY <1>3, HwBitsAssumption, MaxAssumption DEF HwRaise, TypeOK, HostTypeOK
<1>4. CASE ResetDoneStep
  BY <1>4 DEF ResetDoneStep, HwResetDone, TypeOK, HostTypeOK
<1>5. CASE Reboot
  <2>1. NoEvent \in Event /\ <<>> \in Seq(Event)
    BY DEF NoEvent, Event
  <2>2. panicked' \in BOOLEAN /\ bound' \in BOOLEAN
    BY <1>5 DEF Reboot
  <2>3. rebootLeft' \in 0..MaxReboot
    BY <1>5, MaxAssumption DEF Reboot, TypeOK
  <2> QED BY <1>5, <2>1, <2>2, <2>3 DEF Reboot, TypeOK, HostTypeOK
<1>6. CASE UNCHANGED vars
  BY <1>6 DEF vars, hostVars, TypeOK, HostTypeOK
<1> QED BY <1>1, <1>2, <1>3, <1>4, <1>5, <1>6 DEF Next

\* Every variable keeps its type.
THEOREM TypeCorrect == Spec => []TypeOK
  BY InitType, NextType, PTL DEF Spec

-----------------------------------------------------------------------------
(* InitArms.  Nothing runs above init before Bind, and the handler is not  *)
(* entered before EnableInterrupt, so every step finds the registers as    *)
(* the steps before it have left them, up to the self-clearing resets.     *)

\* What init has made of CTRL and INTMASK when it has come to pc.
Registers ==
  /\ pc = "resetDma" => ctrl \subseteq ResetBits
  /\ pc \in {"resetFifo", "resetWait", "clear", "disable"} => ctrl \subseteq ResetBits
  /\ pc \in {"bind", "unmask", "enable"} => ctrl = {}
  /\ pc = "initDma" => ctrl = {"int_enable"}
  /\ pc \in {"enable", "initDma"} => intmask = SDMMC_LL_EVENT_DEFAULT
  /\ InitArms

\* The handler, its event and the queue.
Handler ==
  /\ bound <=> pc \in {"unmask", "enable", "initDma", "ready"}
  /\ pc \notin {"initDma", "ready"} => isrPc = "idle" /\ queue = <<>>
  /\ pc \notin {"start", "ready"} => idsts = {}
  /\ isrPc \in {"idle", "sdio"} => isrEvt = NoEvent
  /\ isrPc \in {"ackSd", "readDma"} => isrEvt.dma_status = {}
  /\ panicked => isrPc \in {"idle", "sdio"}
  /\ Len(queue) <= QueueCap

IInv == TypeOK /\ Registers /\ Handler

\* Power-on: nothing armed, no handler.
LEMMA InitIInv == Init => IInv
<1> SUFFICES ASSUME Init PROVE IInv
  OBVIOUS
<1>1. TypeOK
  BY InitType
<1>2. Registers
  BY DEF Init, Registers, InitArms
<1>3. Handler
  <2>1. ~bound /\ ~panicked /\ Len(queue) = 0
    BY DEF Init
  <2> QED BY <2>1, QueueCapAssumption DEF Init, Handler
<1> QED BY <1>1, <1>2, <1>3 DEF IInv

\* The steps of init, each of which writes the registers of the next.
LEMMA InitStepsIInv ==
  ASSUME IInv, InitSteps
  PROVE  Registers' /\ Handler'
<1> USE DEF IInv, Registers, Handler, InitArms, Goes
<1>1. Len(<<>>) = 0
  OBVIOUS
<1>2. CASE ResetRegister
  BY <1>2 DEF ResetRegister
<1>3. CASE ResetController \/ ResetDma \/ ResetFifo
  BY <1>3 DEF ResetController, ResetDma, ResetFifo, WriteReset, ResetBits
<1>4. CASE ModuleResetDone
  BY <1>4 DEF ModuleResetDone, hostVars
<1>5. CASE ResetTimeout
  BY <1>5 DEF ResetTimeout
<1>6. CASE ClearInterrupt
  BY <1>6 DEF ClearInterrupt
<1>7. CASE DisableInterrupt
  BY <1>7 DEF DisableInterrupt
<1>8. CASE Bind
  BY <1>1, <1>8, QueueCapAssumption DEF Bind
<1>9. CASE Unmask
  BY <1>9 DEF Unmask
<1>10. CASE EnableInterrupt
  BY <1>10 DEF EnableInterrupt
<1>11. CASE InitDma
  BY <1>11 DEF InitDma
<1> QED BY <1>2, <1>3, <1>4, <1>5, <1>6, <1>7, <1>8, <1>9, <1>10, <1>11 DEF InitSteps

\* The handler runs once it is bound and the interrupt is enabled, not before.
LEMMA IsrWhen ==
  ASSUME IInv, IsrStep
  PROVE  pc \in {"initDma", "ready"}
<1>1. pc \in {"unmask", "enable"} => ~InterruptLine /\ isrPc = "idle"
  BY DEF IInv, Registers, Handler, InterruptLine
<1> QED BY <1>1
        DEF IInv, Handler, IsrStep, Isr, IsrEnter, IsrAckSd, IsrReadDma, IsrAckDma,
            IsrSend, IsrSdio

\* The handler writes neither CTRL nor the masks.
LEMMA IsrIInv ==
  ASSUME IInv, IsrStep
  PROVE  Registers' /\ Handler'
<1>1. UNCHANGED <<pc, bound, ctrl>> /\ Isr
  BY DEF IsrStep, Isr, IsrEnter, IsrAckSd, IsrReadDma, IsrAckDma, IsrSend, IsrSdio
<1>2. pc \in {"initDma", "ready"}
  BY IsrWhen
<1>3. Registers'
  <2>1. intmask' = intmask
    BY <1>1, <1>2, IsrKeepsMask DEF IInv, Registers, InitArms
  <2> QED BY <1>1, <2>1 DEF IInv, Registers, InitArms
<1>4. Handler'
  <2> USE DEF IInv, Handler
  <2>1. CASE IsrEnter
    BY <1>1, <1>2, <2>1 DEF IsrEnter
  <2>2. CASE IsrAckSd
    BY <1>1, <1>2, <2>2 DEF IsrAckSd
  <2>3. CASE IsrReadDma
    BY <1>1, <1>2, <2>3 DEF IsrReadDma
  <2>4. CASE IsrAckDma
    BY <1>1, <1>2, <2>4 DEF IsrAckDma
  <2>5. CASE IsrSend
    <3>1. Len(queue') <= QueueCap
      BY <2>5, QueueCapAssumption DEF IsrSend, TypeOK, HostTypeOK
    <3> QED BY <1>1, <1>2, <2>5, <3>1 DEF IsrSend
  <2>6. CASE IsrSdio
    BY <1>1, <1>2, <2>6 DEF IsrSdio
  <2> QED BY <1>1, <2>1, <2>2, <2>3, <2>4, <2>5, <2>6 DEF Isr
<1> QED BY <1>3, <1>4

\* Every step keeps the invariant.
LEMMA NextIInv == IInv /\ [Next]_vars => IInv'
<1> SUFFICES ASSUME IInv, [Next]_vars
             PROVE  IInv'
  OBVIOUS
<1>1. TypeOK'
  BY NextType DEF IInv
<1>2. CASE InitSteps
  BY <1>1, <1>2, InitStepsIInv DEF IInv
<1>3. CASE WaitForEvent
  <2>1. Len(queue') <= QueueCap
    <3>1. queue \in Seq(Event) /\ queue # <<>> /\ queue' = Tail(queue)
      BY <1>3 DEF WaitForEvent, IInv, TypeOK, HostTypeOK
    <3>2. Len(queue') = Len(queue) - 1 /\ Len(queue) \in Nat
      BY <3>1
    <3> QED BY <3>2, QueueCapAssumption DEF IInv, Handler
  <2> QED BY <1>1, <1>3, <2>1 DEF WaitForEvent, Goes, IInv, Registers, Handler, InitArms
<1>4. CASE IsrStep
  BY <1>1, <1>4, IsrIInv DEF IInv
<1>5. CASE HwRaise
  BY <1>1, <1>5 DEF HwRaise, IInv, Registers, Handler, InitArms
<1>6. CASE ResetDoneStep
  <2>1. {"int_enable", "dma_enable"} \cap ResetBits = {}
    BY DEF ResetBits
  <2> QED BY <1>1, <1>6, <2>1
          DEF ResetDoneStep, HwResetDone, IInv, Registers, Handler, InitArms
<1>7. CASE Reboot
  <2>1. Len(<<>>) = 0
    OBVIOUS
  <2> QED BY <1>1, <1>7, <2>1, QueueCapAssumption
          DEF Reboot, IInv, Registers, Handler, InitArms
<1>8. CASE UNCHANGED vars
  BY <1>1, <1>8 DEF vars, hostVars, IInv, Registers, Handler, InitArms
<1> QED BY <1>2, <1>3, <1>4, <1>5, <1>6, <1>7, <1>8 DEF Next

\* In every reachable state, after any reset of the processor, the registers are
\* what init has made of them so far, and the handler runs only where it may.
THEOREM InvariantHolds == Spec => []IInv
  BY InitIInv, NextIInv, PTL DEF Spec

\* init leaves the interrupt and the DMA on, and nothing else, after any number of
\* resets at any point of an earlier init or of what followed it.
THEOREM InitArmsHolds == Spec => []InitArms
<1>1. IInv => InitArms
  BY DEF IInv, Registers
<1> QED BY <1>1, InvariantHolds, PTL

-----------------------------------------------------------------------------
(* HostInit implements EventChannel, but for the fairness of Report.       *)

\* The reports of a queue change as the queue does.
LEMMA ReportsType ==
  ASSUME NEW q \in Seq(Event)
  PROVE  /\ Reports(q) \in Seq(SUBSET (StatusBits \cup SD_DMA_DONE_MASK))
         /\ Len(Reports(q)) = Len(q)
         /\ \A i \in 1..Len(q) : Reports(q)[i] = Word(q[i])
<1> DEFINE S == SUBSET (StatusBits \cup SD_DMA_DONE_MASK)
<1>1. DOMAIN q = 1..Len(q) /\ Len(q) \in Nat
  BY LenProperties
<1>2. ASSUME NEW i \in 1..Len(q) PROVE Word(q[i]) \in S
  <2>1. q[i] \in Event
    BY ElementOfSeq
  <2> QED BY <2>1 DEF Word, Event
<1>3. Reports(q) \in [1..Len(q) -> S] /\ \A i \in 1..Len(q) : Reports(q)[i] = Word(q[i])
  BY <1>1, <1>2 DEF Reports
<1> HIDE DEF S
<1>4. Reports(q) \in Seq(S)
  BY <1>1, <1>3, SeqDef
<1>5. Len(Reports(q)) = Len(q)
  <2>1. DOMAIN Reports(q) = 1..Len(q)
    BY <1>3
  <2>2. DOMAIN Reports(q) = 1..Len(Reports(q)) /\ Len(Reports(q)) \in Nat
    BY <1>4, LenProperties
  <2> QED BY <1>1, <2>1, <2>2
<1> QED BY <1>3, <1>4, <1>5 DEF S

\* Reports of an empty queue, ...
LEMMA ReportsEmpty == Reports(<<>>) = <<>>
<1>1. <<>> \in Seq(Event) /\ Len(<<>>) = 0
  BY EmptySeq
<1>2. Reports(<<>>) \in Seq(SUBSET (StatusBits \cup SD_DMA_DONE_MASK)) /\ Len(Reports(<<>>)) = 0
  BY <1>1, ReportsType
<1> QED BY <1>2, EmptySeq

\* ... of a queue after a receive, ...
LEMMA ReportsTail ==
  ASSUME NEW q \in Seq(Event), q # <<>>
  PROVE  Reports(q) # <<>> /\ Reports(Tail(q)) = Tail(Reports(q))
<1> DEFINE S == SUBSET (StatusBits \cup SD_DMA_DONE_MASK)
           r == Reports(q)
           t == Reports(Tail(q))
<1>1. /\ r \in Seq(S) /\ Len(r) = Len(q)
      /\ \A i \in 1..Len(q) : r[i] = Word(q[i])
  BY ReportsType
<1>2. /\ Tail(q) \in Seq(Event) /\ Len(Tail(q)) = Len(q) - 1
      /\ \A i \in 1..Len(Tail(q)) : Tail(q)[i] = q[i + 1]
  BY HeadTailProperties
<1>3. /\ t \in Seq(S) /\ Len(t) = Len(Tail(q))
      /\ \A i \in 1..Len(Tail(q)) : t[i] = Word(Tail(q)[i])
  BY <1>2, ReportsType
<1>4. Len(q) \in Nat \ {0}
  BY EmptySeq
<1> HIDE DEF S, r, t
<1>5. r # <<>>
  BY <1>1, <1>4
<1>6. /\ Tail(r) \in Seq(S) /\ Len(Tail(r)) = Len(r) - 1
      /\ \A i \in 1..Len(Tail(r)) : Tail(r)[i] = r[i + 1]
  BY <1>1, <1>5, HeadTailProperties
<1>7. \A i \in 1..Len(t) : t[i] = Tail(r)[i]
  BY <1>1, <1>2, <1>3, <1>4, <1>6
<1>8. t = Tail(r)
  BY <1>1, <1>2, <1>3, <1>6, <1>7, SeqEqual
<1> QED BY <1>5, <1>8 DEF r, t

\* ... and of a queue after a send.
LEMMA ReportsAppend ==
  ASSUME NEW q \in Seq(Event), NEW e \in Event
  PROVE  Reports(Append(q, e)) = Append(Reports(q), Word(e))
<1> DEFINE S == SUBSET (StatusBits \cup SD_DMA_DONE_MASK)
           r == Reports(q)
           a == Reports(Append(q, e))
<1>1. /\ r \in Seq(S) /\ Len(r) = Len(q)
      /\ \A i \in 1..Len(q) : r[i] = Word(q[i])
  BY ReportsType
<1>2. /\ Append(q, e) \in Seq(Event) /\ Len(Append(q, e)) = Len(q) + 1
      /\ \A i \in 1..Len(q) : Append(q, e)[i] = q[i]
      /\ Append(q, e)[Len(q) + 1] = e
  BY AppendProperties
<1>3. /\ a \in Seq(S) /\ Len(a) = Len(q) + 1
      /\ \A i \in 1..(Len(q) + 1) : a[i] = Word(Append(q, e)[i])
  BY <1>2, ReportsType
<1>4. Word(e) \in S
  BY DEF Word, Event
<1>5. Len(q) \in Nat
  BY LenProperties
<1> HIDE DEF S, r, a
<1>6. /\ Append(r, Word(e)) \in Seq(S) /\ Len(Append(r, Word(e))) = Len(r) + 1
      /\ \A i \in 1..Len(r) : Append(r, Word(e))[i] = r[i]
      /\ Append(r, Word(e))[Len(r) + 1] = Word(e)
  BY <1>1, <1>4, AppendProperties
<1>7. ASSUME NEW i \in 1..Len(a) PROVE a[i] = Append(r, Word(e))[i]
  <2>1. CASE i = Len(q) + 1
    BY <1>1, <1>2, <1>3, <1>6, <2>1
  <2>2. CASE i # Len(q) + 1
    <3>1. i \in 1..Len(q)
      BY <1>3, <1>5, <2>2
    <3> QED BY <1>1, <1>2, <1>3, <1>6, <3>1
  <2> QED BY <2>1, <2>2
<1>8. a = Append(r, Word(e))
  BY <1>1, <1>3, <1>6, <1>7, SeqEqual
<1> QED BY <1>8 DEF r, a

Interrupts == SDMMC_LL_EVENT_DEFAULT \cup SD_DMA_DONE_MASK

\* Before init the channel is closed.
LEMMA InitChannel == Init => Channel!Init
<1> SUFFICES ASSUME Init PROVE Channel!Init
  OBVIOUS
<1>1. Reports(queue) = <<>>
  BY ReportsEmpty DEF Init
<1>2. Opened = FALSE /\ Owed = {}
  BY DEF Init, Opened, Owed, BeforeOpen
<1> QED BY <1>1, <1>2 DEF Init, Channel!Init

\* A step that leaves what is owed, the queue and panicked alone, and does not
\* open the channel.
Stutter == UNCHANGED <<Opened, Owed, queue, panicked>>

\* A step that touches nothing the channel sees.
LEMMA StutterChannel ==
  ASSUME Stutter
  PROVE  UNCHANGED Channel!channel
<1>1. queue' = queue
  BY DEF Stutter
<1>2. Reports(queue)' = Reports(queue)
  BY <1>1 DEF Reports, Word
<1> QED BY <1>2 DEF Stutter, Channel!channel

\* The steps of init: ClearInterrupt opens the channel, and a reset that is not
\* done breaks it before it is open.
LEMMA InitStepsChannel ==
  ASSUME IInv, InitSteps
  PROVE  [Channel!Next]_(Channel!channel)
<1> USE DEF Goes, Opened, BeforeOpen
<1>1. CASE ResetRegister \/ ResetController \/ ResetDma \/ ResetFifo \/ ModuleResetDone
  <2>1. Opened = FALSE /\ Opened' = FALSE
    BY <1>1 DEF ResetRegister, ResetController, ResetDma, ResetFifo, WriteReset,
       ModuleResetDone
  <2>2. queue' = queue /\ panicked' = panicked
    BY <1>1 DEF ResetRegister, ResetController, ResetDma, ResetFifo, WriteReset,
       ModuleResetDone, hostVars
  <2>3. Stutter
    BY <2>1, <2>2 DEF Stutter, Owed
  <2> QED BY <2>3, StutterChannel
<1>2. CASE ResetTimeout
  <2>1. Opened = FALSE /\ Opened' = FALSE
    BY <1>2 DEF ResetTimeout
  <2>2. Owed = {} /\ Owed' = {}
    BY <2>1 DEF Owed
  <2>3. queue' = queue /\ panicked' = TRUE
    BY <1>2 DEF ResetTimeout
  <2>4. Reports(queue)' = Reports(queue)
    BY <2>3 DEF Reports, Word
  <2>5. Channel!Break
    BY <2>1, <2>2, <2>3, <2>4 DEF Channel!Break
  <2> QED BY <2>5 DEF Channel!Next
<1>3. CASE ClearInterrupt
  <2>1. Opened = FALSE /\ Opened' = TRUE
    BY <1>3 DEF ClearInterrupt
  <2>2. idsts' = {} /\ rintsts' = {} /\ isrEvt' = NoEvent
    BY <1>3 DEF ClearInterrupt, IInv, Handler
  <2>3. Owed' = {}
    BY <2>1, <2>2 DEF Owed, Word, NoEvent
  <2>4. queue' = queue /\ panicked' = panicked
    BY <1>3 DEF ClearInterrupt
  <2>5. Reports(queue)' = Reports(queue)
    BY <2>4 DEF Reports, Word
  <2>6. Channel!Open
    BY <2>1, <2>3, <2>4, <2>5 DEF Channel!Open
  <2> QED BY <2>6 DEF Channel!Next
<1>4. CASE DisableInterrupt \/ Bind \/ Unmask \/ EnableInterrupt \/ InitDma
  <2>1. Opened = TRUE /\ Opened' = TRUE
    BY <1>4 DEF DisableInterrupt, Bind, Unmask, EnableInterrupt, InitDma
  <2>2. UNCHANGED <<rintsts, idsts, isrEvt, panicked>>
    BY <1>4 DEF DisableInterrupt, Bind, Unmask, EnableInterrupt, InitDma
  <2>3. queue' = queue
    BY <1>4 DEF DisableInterrupt, Bind, Unmask, EnableInterrupt, InitDma, IInv, Handler
  <2>4. Stutter
    BY <2>1, <2>2, <2>3 DEF Stutter, Owed, Word
  <2> QED BY <2>4, StutterChannel
<1> QED BY <1>1, <1>2, <1>3, <1>4 DEF InitSteps

\* A receive of the thread is a read of the channel.
LEMMA WaitChannel ==
  ASSUME IInv, WaitForEvent
  PROVE  Channel!Read
<1>1. Opened = TRUE /\ Opened' = TRUE
  BY DEF WaitForEvent, Goes, Opened, BeforeOpen
<1>2. UNCHANGED <<rintsts, idsts, isrEvt, panicked>>
  BY DEF WaitForEvent
<1>3. Owed' = Owed
  BY <1>1, <1>2 DEF Owed, Word
<1>4. queue \in Seq(Event) /\ queue # <<>> /\ queue' = Tail(queue)
  BY DEF WaitForEvent, IInv, TypeOK, HostTypeOK
<1>5. Reports(queue) # <<>> /\ Reports(queue') = Tail(Reports(queue))
  BY <1>4, ReportsTail
<1>6. Reports(queue)' = Reports(queue')
  BY DEF Reports, Word
<1> QED BY <1>1, <1>2, <1>3, <1>5, <1>6 DEF Channel!Read

\* The handler moves what is owed from the registers to its event, and from there
\* to the queue.
LEMMA IsrChannel ==
  ASSUME IInv, IsrStep
  PROVE  [Channel!Next]_(Channel!channel)
<1>1. pc' = pc /\ pc \in {"initDma", "ready"}
  BY IsrWhen DEF IsrStep
<1>2. Opened = TRUE /\ Opened' = TRUE
  BY <1>1 DEF Opened, BeforeOpen
<1> DEFINE raised == (rintsts \cap SDMMC_LL_EVENT_DEFAULT) \cup idsts
<1>3. /\ Owed = raised \cup Word(isrEvt)
      /\ Owed' = raised' \cup Word(isrEvt)'
  BY <1>2 DEF Owed
<1>4. /\ isrEvt \in Event /\ rintsts \subseteq StatusBits /\ queue \in Seq(Event)
      /\ intmask = SDMMC_LL_EVENT_DEFAULT
  BY <1>1 DEF IInv, TypeOK, HostTypeOK, Registers, InitArms
<1>5. CASE IsrEnter
  <2>1. isrEvt = NoEvent /\ Word(isrEvt) = {}
    BY <1>5 DEF IsrEnter, IInv, Handler, Word, NoEvent
  <2>2. Word(isrEvt)' = mintsts \ SdioBits
    BY <1>5 DEF IsrEnter, Word
  <2>3. mintsts \ SdioBits \subseteq rintsts \cap SDMMC_LL_EVENT_DEFAULT
    BY <1>4 DEF mintsts
  <2>4. raised' = raised
    BY <1>5 DEF IsrEnter
  <2>5. Owed' = Owed
    BY <1>3, <2>1, <2>2, <2>3, <2>4
  <2>6. queue' = queue /\ panicked' = panicked
    BY <1>5 DEF IsrEnter
  <2>7. Stutter
    BY <1>2, <2>5, <2>6 DEF Stutter
  <2> QED BY <2>7, StutterChannel
<1>6. CASE IsrAckSd
  <2>1. rintsts' = rintsts \ isrEvt.sdmmc_status /\ UNCHANGED <<idsts, isrEvt, queue, panicked>>
    BY <1>6 DEF IsrAckSd
  <2>2. Owed' = Owed
    BY <1>3, <2>1 DEF Word
  <2>3. Stutter
    BY <1>2, <2>1, <2>2 DEF Stutter
  <2> QED BY <2>3, StutterChannel
<1>7. CASE IsrReadDma
  <2>1. isrEvt' = [isrEvt EXCEPT !.dma_status = idsts] /\ UNCHANGED <<rintsts, idsts, queue, panicked>>
    BY <1>7 DEF IsrReadDma
  <2>2. isrEvt.dma_status = {}
    BY <1>7 DEF IsrReadDma, IInv, Handler
  <2>3. Word(isrEvt) = isrEvt.sdmmc_status /\ Word(isrEvt)' = isrEvt.sdmmc_status \cup idsts
    BY <1>4, <2>1, <2>2 DEF Word, Event
  <2>4. Owed' = Owed
    BY <1>3, <2>1, <2>3
  <2>5. Stutter
    BY <1>2, <2>1, <2>4 DEF Stutter
  <2> QED BY <2>5, StutterChannel
<1>8. CASE IsrAckDma
  <2>1. idsts' = idsts \ isrEvt.dma_status /\ UNCHANGED <<rintsts, isrEvt, queue, panicked>>
    BY <1>8 DEF IsrAckDma
  <2>2. Owed' = Owed
    BY <1>3, <2>1 DEF Word
  <2>3. Stutter
    BY <1>2, <2>1, <2>2 DEF Stutter
  <2> QED BY <2>3, StutterChannel
<1>9. CASE IsrSend
  <2>1. /\ UNCHANGED <<rintsts, idsts>> /\ isrEvt' = NoEvent
        /\ ~panicked
    BY <1>9 DEF IsrSend, IInv, Handler
  <2>2. Owed' = raised
    BY <1>3, <2>1 DEF Word, NoEvent
  <2>3. CASE isrEvt = NoEvent
    <3>1. queue' = queue /\ panicked' = panicked
      BY <1>9, <2>3 DEF IsrSend
    <3>2. Word(isrEvt) = {}
      BY <2>3 DEF Word, NoEvent
    <3>3. Owed' = Owed
      BY <1>3, <2>2, <3>2
    <3>4. Stutter
      BY <1>2, <3>1, <3>3 DEF Stutter
    <3> QED BY <3>4, StutterChannel
  <2>4. isrEvt # NoEvent => Word(isrEvt) # {}
    BY <1>4 DEF Word, NoEvent, Event
  <2>5. CASE isrEvt # NoEvent /\ Len(queue) < QueueCap
    <3>1. queue' = Append(queue, isrEvt) /\ panicked' = panicked
      BY <1>9, <2>5 DEF IsrSend
    <3>2. Reports(queue') = Append(Reports(queue), Word(isrEvt))
      BY <1>4, <3>1, ReportsAppend
    <3>3. Reports(queue)' = Reports(queue')
      BY DEF Reports, Word
    <3>4. Len(Reports(queue)) < QueueCap
      BY <1>4, <2>5, ReportsType
    <3> DEFINE reported == Word(isrEvt)
               again == Word(isrEvt) \cap raised
    <3>5. reported \in (SUBSET Owed) \ {{}} /\ again \in SUBSET reported
      BY <1>3, <2>4, <2>5
    <3>6. Owed' = (Owed \ reported) \cup again
      BY <1>3, <2>2
    <3> HIDE DEF reported, again, raised
    <3>7. Reports(queue)' = Append(Reports(queue), reported)
      BY <3>2, <3>3 DEF reported
    <3>8. Channel!Report
      BY <1>2, <2>1, <3>1, <3>4, <3>5, <3>6, <3>7 DEF Channel!Report
    <3> QED BY <3>8 DEF Channel!Next
  <2>6. CASE isrEvt # NoEvent /\ ~(Len(queue) < QueueCap)
    <3>1. queue' = queue /\ panicked' = TRUE
      BY <1>9, <2>6 DEF IsrSend
    <3>2. Reports(queue)' = Reports(queue)
      BY <3>1 DEF Reports, Word
    <3>3. Len(Reports(queue)) = QueueCap
      <4>1. Len(queue) \in Nat /\ Len(queue) <= QueueCap
        BY <1>4, LenProperties DEF IInv, Handler
      <4>2. Len(queue) = QueueCap
        BY <2>6, <4>1, QueueCapAssumption
      <4> QED BY <1>4, <4>2, ReportsType
    <3>4. Owed # {} /\ Owed' \in SUBSET Owed
      BY <1>3, <2>2, <2>4, <2>6
    <3>5. Channel!Break
      BY <1>2, <3>1, <3>2, <3>3, <3>4 DEF Channel!Break
    <3> QED BY <3>5 DEF Channel!Next
  <2> QED BY <2>3, <2>5, <2>6
<1>10. CASE IsrSdio
  <2>1. UNCHANGED <<rintsts, idsts, isrEvt, queue, panicked>>
    BY <1>10 DEF IsrSdio
  <2>2. Owed' = Owed
    BY <1>3, <2>1 DEF Word
  <2>3. Stutter
    BY <1>2, <2>1, <2>2 DEF Stutter
  <2> QED BY <2>3, StutterChannel
<1> QED BY <1>5, <1>6, <1>7, <1>8, <1>9, <1>10 DEF IsrStep, Isr

\* Before the channel is open nobody is owed what the hardware raises.
LEMMA RaiseChannel ==
  ASSUME IInv, HwRaise
  PROVE  [Channel!Next]_(Channel!channel)
<1>1. UNCHANGED <<pc, queue, isrEvt, panicked>>
  BY DEF HwRaise
<1>2. Opened' = Opened
  BY <1>1 DEF Opened, BeforeOpen
<1>3. Reports(queue)' = Reports(queue)
  BY <1>1 DEF Reports, Word
<1>4. CASE ~Opened
  <2>1. Owed = {} /\ Owed' = {}
    BY <1>2, <1>4 DEF Owed
  <2>2. Stutter
    BY <1>1, <1>2, <2>1 DEF Stutter
  <2> QED BY <2>2, StutterChannel
<1>5. CASE Opened
  <2>1. PICK b : \/ b \in StatusBits /\ rintsts' = rintsts \cup {b} /\ idsts' = idsts
                 \/ b \in SD_DMA_DONE_MASK /\ idsts' = idsts \cup {b} /\ rintsts' = rintsts
    BY HwBitsAssumption DEF HwRaise
  <2>2. Word(isrEvt)' = Word(isrEvt)
    BY <1>1 DEF Word
  <2>3. /\ Owed = (rintsts \cap SDMMC_LL_EVENT_DEFAULT) \cup idsts \cup Word(isrEvt)
        /\ Owed' = (rintsts' \cap SDMMC_LL_EVENT_DEFAULT) \cup idsts' \cup Word(isrEvt)
    BY <1>2, <1>5, <2>2 DEF Owed
  <2>4. \E raised \in SUBSET Interrupts : Owed' = Owed \cup raised
    <3>1. CASE b \in StatusBits /\ rintsts' = rintsts \cup {b} /\ idsts' = idsts
      <4>1. Owed' = Owed \cup ({b} \cap SDMMC_LL_EVENT_DEFAULT)
        BY <2>3, <3>1
      <4>2. {b} \cap SDMMC_LL_EVENT_DEFAULT \in SUBSET Interrupts
        BY DEF Interrupts
      <4> QED BY <4>1, <4>2
    <3>2. CASE b \in SD_DMA_DONE_MASK /\ idsts' = idsts \cup {b} /\ rintsts' = rintsts
      <4>1. Owed' = Owed \cup {b}
        BY <2>3, <3>2
      <4>2. {b} \in SUBSET Interrupts
        BY <3>2 DEF Interrupts
      <4> QED BY <4>1, <4>2
    <3> QED BY <2>1, <3>1, <3>2
  <2>5. Channel!Raise
    BY <1>1, <1>2, <1>3, <1>5, <2>4 DEF Channel!Raise, Interrupts
  <2> QED BY <2>5 DEF Channel!Next
<1> QED BY <1>4, <1>5

\* Every step of init, handler, thread and hardware is one of the channel or none.
LEMMA NextChannel == IInv /\ [Next]_vars => [Channel!Next]_(Channel!channel)
<1> SUFFICES ASSUME IInv, [Next]_vars
             PROVE  [Channel!Next]_(Channel!channel)
  OBVIOUS
<1>1. CASE InitSteps
  BY <1>1, InitStepsChannel
<1>2. CASE WaitForEvent
  BY <1>2, WaitChannel DEF Channel!Next
<1>3. CASE IsrStep
  BY <1>3, IsrChannel
<1>4. CASE HwRaise
  BY <1>4, RaiseChannel
<1>5. CASE ResetDoneStep \/ UNCHANGED vars
  <2>1. UNCHANGED <<pc, rintsts, idsts, isrEvt, queue, panicked>>
    BY <1>5 DEF ResetDoneStep, HwResetDone, vars, hostVars
  <2>2. Stutter
    BY <2>1 DEF Stutter, Opened, Owed, Word, BeforeOpen
  <2> QED BY <2>2, StutterChannel
<1>6. CASE Reboot
  <2>1. Opened' = FALSE
    BY <1>6 DEF Reboot, Opened, BeforeOpen
  <2>2. Owed' = {}
    BY <2>1 DEF Owed
  <2>3. queue' = <<>> /\ panicked' = FALSE
    BY <1>6 DEF Reboot
  <2>4. Reports(queue)' = Reports(queue')
    BY DEF Reports, Word
  <2>5. Channel!Close
    BY <2>1, <2>2, <2>3, <2>4, ReportsEmpty DEF Channel!Close
  <2> QED BY <2>5 DEF Channel!Next
<1> QED BY <1>1, <1>2, <1>3, <1>4, <1>5, <1>6 DEF Next

\* Every interrupt raised after init has cleared the status is in the registers,
\* in the handler's hands or in a report, in order, and no report holds another,
\* until a report meets a full queue: the safety half of EventsReported.
THEOREM ChannelSafe == Spec => Channel!SafeSpec
  BY InitChannel, NextChannel, InvariantHolds, PTL DEF Spec, Channel!SafeSpec
=============================================================================
