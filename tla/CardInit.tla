------------------------------ MODULE CardInit ------------------------------
(***************************************************************************)
(* Bringing up the card: main's retry loop around SdmmcCard::init, which   *)
(* sends CMD0, CMD8, CMD55 and ACMD41 until the card is ready, CMD58,      *)
(* CMD7, CMD17 and CMD13.  The card may be slow, may miss a command and    *)
(* may be taken out, put back or exchanged at any time.                    *)
(*                                                                         *)
(* A command is one step here, with the results that CommandPromise leaves *)
(* open, which Transaction keeps.  What matters in its response is RESP0,  *)
(* a register that a command without an answer leaves as it was, and that  *)
(* a garbled response leaves garbled: do_transaction returns Ok with       *)
(* SdmmcCmd::err set, send_cmd drops that, and the caller looks at what is *)
(* in RESP0.                                                               *)
(*                                                                         *)
(* is_mmc is TRUE from the first line of init on, so the branch of         *)
(* cmd_send_op_cond for FALSE (CMD1) is not reached and not here.          *)
(***************************************************************************)
EXTENDS Naturals, CommandPromise

CONSTANTS
  Cards,       \* the cards a user has
  V2Cards,     \* those that know CMD8
  HcCards,     \* SDHC and SDXC cards, addressed by block
  MAX_ERRORS,  \* of cmd_send_op_cond, 3 in the code
  MAX_RETRIES  \* 300 in the code

ASSUME CardsAssumption == HcCards \subseteq V2Cards /\ V2Cards \subseteq Cards
ASSUME MaxAssumption == MAX_ERRORS \in Nat \ {0} /\ MAX_RETRIES \in Nat \ {0}

VARIABLES
  pc,         \* the command to send next, or where else init is
  ocr,        \* self.ocr, the bits of it that matter
  round,      \* first or second call of cmd_send_op_cond in init_ocr
  tries,      \* ended iterations of its loop
  errs,       \* errors in them: MAX_ERRORS - err_cnt
  res,        \* its result, None before it has one
  hears,      \* what the driver hears of the controller: see CommandPromise
  resp0,      \* register RESP0, the bits of it that matter
  garbled,    \* history: it holds a response with an error
  noisy,      \* history: it has held one since the last CMD0
  card,       \* the card in the slot, None if there is none
  cardReady,  \* it has finished its power up
  cardApp,    \* it takes the next command for an application command
  same        \* history: it is the card that got the last CMD0

driverVars == <<pc, ocr, round, tries, errs, res>>
answerVars == <<resp0, garbled, noisy, cardReady, cardApp, same>>
hwVars == <<hears, card, answerVars>>
vars == <<driverVars, hwVars>>

None == "None"
ASSUME NoneAssumption == None \notin Cards

\* The bits that decide something: the pattern of CMD8 in the low byte,
\* MMC_R1_APP_CMD (5), MMC_OCR_MEM_READY (31) and SD_OCR_SDHC_CAP (30).
Bits == {"pattern", "app", "ready", "hc"}

R7 == {"pattern", "app"}   \* 0xAA has bit 5 set
R1 == {"app"}              \* in answer to CMD55
Ocr(ready) == IF ~ready THEN {} ELSE {"ready"} \cup (IF card \in HcCards THEN {"hc"} ELSE {})

Errors == {"Timeout", "NotFound", "NotSupported"}
AfterOpCond == {"cmd58", "cmd7", "cmd17", "cmd13"}

Init ==
  /\ pc = "cmd0" /\ ocr = {} /\ round = 1 /\ tries = 0 /\ errs = 0 /\ res = None
  /\ hears = "all"
  /\ resp0 = {} /\ garbled = FALSE /\ noisy = FALSE
  /\ card \in Cards \cup {None} /\ cardReady = FALSE /\ cardApp = FALSE /\ same = FALSE

-----------------------------------------------------------------------------
(* One command: what send_cmd returns.                                     *)

\* Every command here but CMD0, and CMD7 with address 0, asks for a response.
Responded == {"cmd8", "cmd55", "acmd41", "cmd58", "cmd17", "cmd13"}

\* The commands a card knows in the state it is in (external).  No card has been
\* selected, so it knows neither CMD17 nor CMD13.
Knows(cmd) == \/ cmd = "cmd8" /\ card \in V2Cards
              \/ cmd \in {"cmd55", "cmd58"}
              \/ cmd = "acmd41" /\ cardApp

\* It carries a command out, and may be powered up by then.
Takes(cmd) ==
  /\ Knows(cmd)
  /\ cardReady' \in {cardReady, cardReady \/ cmd = "acmd41"}
  /\ cardApp' = (cmd = "cmd55")
  /\ UNCHANGED same

\* It does not, but for CMD0.
Misses(cmd) ==
  /\ cardReady' = (cardReady /\ cmd # "cmd0")
  /\ cardApp' = FALSE
  /\ same' = (same \/ cmd = "cmd0")

Answer(cmd) ==
  CASE cmd = "cmd8" -> R7
    [] cmd = "cmd55" -> R1
    [] cmd \in {"acmd41", "cmd58"} -> Ocr(cardReady')

\* A response, no response, or one with an error: a wrong CRC, an end bit that
\* is missing.  The command then has failed, if one was expected.
CardDoes(cmd, failed) ==
  \/ /\ Takes(cmd) /\ ~failed
     /\ resp0' = Answer(cmd) /\ garbled' = FALSE /\ noisy' = noisy
  \/ /\ Misses(cmd) /\ failed = (cmd \in Responded)
     /\ resp0' = resp0 /\ garbled' = garbled
     /\ noisy' = IF cmd = "cmd0" THEN garbled ELSE noisy
  \/ /\ cmd \in Responded /\ (Takes(cmd) \/ Misses(cmd)) /\ failed
     /\ resp0' \in SUBSET Bits /\ garbled' = TRUE /\ noisy' = TRUE

\* What becomes of a command whose end is not heard.  It has not reached the card,
\* or it has: by the time the call returns, or later, the card is done with it, and
\* a response that comes later still is not in RESP0 yet.
Unheard(cmd) ==
  \/ UNCHANGED answerVars
  \/ card # None /\ \E failed \in BOOLEAN : CardDoes(cmd, failed)
  \/ card # None /\ Takes(cmd) /\ UNCHANGED <<resp0, garbled, noisy>>

\* do_transaction keeps its promise.  It refuses a command if there is no card
\* and a read, in which rw is set, if the card is write protected.  Only an Ok of
\* a driver that hears everything is about this command.
Transact(cmd, ret) ==
  /\ hears' \in Hearings
  /\ \E failed \in BOOLEAN :
       /\ Promise(cmd = "cmd17", ret, failed, hears, hears')
       /\ \/ ret = "NotFound" /\ (card = None \/ cmd = "cmd17") /\ UNCHANGED answerVars
          \/ ret = "Ok" /\ hears = "all" /\ card # None /\ CardDoes(cmd, failed)
          \/ (ret = "Timeout" \/ hears = "stale") /\ ret # "NotFound" /\ Unheard(cmd)
  /\ UNCHANGED card

OpCondVars == <<round, tries, errs, res>>

-----------------------------------------------------------------------------
(* SdmmcCard::init.                                                        *)

\* cmd_go_idle_state.
GoIdle ==
  /\ pc = "cmd0"
  /\ \E ret \in Results :
       /\ Transact("cmd0", ret)
       /\ pc' = IF ret = "Ok" THEN "cmd8" ELSE "failed"
  /\ round' = 1 /\ res' = None
  /\ UNCHANGED <<ocr, tries, errs>>

\* init_sd_if_cond with cmd_send_if_cond.  A result Timeout is no failure there.
IfCondResult(ret, bits) ==
  IF ret # "Ok" THEN ret
  ELSE IF "pattern" \in bits THEN "Ok"
  ELSE "InvalidResponce"

SendIfCond ==
  /\ pc = "cmd8"
  /\ \E ret \in Results :
       /\ Transact("cmd8", ret)
       /\ LET r == IfCondResult(ret, resp0')
          IN  /\ pc' = IF r \in {"Ok", "Timeout", "NotSupported"} THEN "opCond" ELSE "failed"
              /\ ocr' = IF r = "Ok" THEN {"hc"}
                        ELSE IF r \in {"Timeout", "NotSupported"} THEN {}
                        ELSE ocr
  /\ UNCHANGED OpCondVars

\* cmd_send_op_cond: the counters of the loop.  What set_clk_always_on does to
\* the clock, before the loop and after it, is ClockControl's SetClkAlwaysOn; it
\* has no result and init goes on whatever becomes of it.
OpCondSetup ==
  /\ pc = "opCond"
  /\ tries' = 0 /\ errs' = 0 /\ res' = None
  /\ pc' = "cmd55"
  /\ UNCHANGED <<ocr, round, hwVars>>

\* The loop ends with result r.
Break(r) == res' = r /\ pc' = "cleanup"

\* Mutant of Continue: one iteration too many.
ContinueOffByOne ==
  /\ tries' = tries + 1
  /\ IF tries' > MAX_RETRIES THEN Break("Timeout") ELSE pc' = "cmd55" /\ UNCHANGED res

\* The next iteration, if there is one left.
Continue ==
  /\ tries' = tries + 1
  /\ IF tries' = MAX_RETRIES THEN Break("Timeout") ELSE pc' = "cmd55" /\ UNCHANGED res

\* Mutant of OpCondError: an ignored error costs nothing.
OpCondErrorFree(err) == pc' = "cmd55" /\ UNCHANGED <<tries, errs, res>>

OpCondError(err) ==
  /\ errs' = errs + 1
  /\ IF errs' = MAX_ERRORS THEN Break(err) /\ UNCHANGED tries ELSE Continue

\* send_app_cmd, first half.
SendAppCmd ==
  /\ pc = "cmd55"
  /\ \E ret \in Results :
       /\ Transact("cmd55", ret)
       /\ IF ret # "Ok" THEN OpCondError(ret)
          ELSE IF "app" \notin resp0' THEN OpCondError("NotSupported")
          ELSE pc' = "acmd41" /\ UNCHANGED <<tries, errs, res>>
  /\ UNCHANGED <<ocr, round>>

\* Mutant of CardSaysReady: the wrong bit.
CardSaysApp(bits) == "app" \in bits

CardSaysReady(bits) == "ready" \in bits

\* Its second half, ACMD41.
SendOpCond ==
  /\ pc = "acmd41"
  /\ \E ret \in Results :
       /\ Transact("acmd41", ret)
       /\ IF ret # "Ok" THEN OpCondError(ret) /\ UNCHANGED ocr
          ELSE IF CardSaysReady(resp0')
               THEN Break("Ok") /\ ocr' = resp0' /\ UNCHANGED <<tries, errs>>
               ELSE Continue /\ UNCHANGED <<errs, ocr>>
  /\ UNCHANGED round

\* The end of cmd_send_op_cond, and back in init_ocr: a Timeout is tried again
\* once, any other error of the first call is forgotten.
OpCondCleanup ==
  /\ pc = "cleanup"
  /\ \/ round = 1 /\ res = "Timeout" /\ round' = 2 /\ pc' = "opCond"
     \/ (round = 1 /\ res # "Timeout") /\ round' = round /\ pc' = "cmd58"
     \/ round = 2 /\ round' = round /\ pc' = IF res = "Ok" THEN "cmd58" ELSE "failed"
  /\ UNCHANGED <<ocr, tries, errs, res, hwVars>>

\* Mutant of OcrRead: without an answer the response stays the default.
OcrReadDefault(bits) == {}

\* What cmd_read_ocr makes of RESP0.
OcrRead(bits) == bits

ReadOcr ==
  /\ pc = "cmd58"
  /\ \E ret \in Results :
       /\ Transact("cmd58", ret)
       /\ pc' = IF ret = "Ok" THEN "cmd7" ELSE "failed"
       /\ ocr' = IF ret = "Ok" THEN OcrRead(resp0') ELSE ocr
  /\ UNCHANGED OpCondVars

\* cmd_select_card.  rca is 0 as init_rca is not called: no card is selected.
SelectCard ==
  /\ pc = "cmd7"
  /\ \E ret \in Results :
       Transact("cmd7", ret) /\ pc' = IF ret = "Ok" THEN "cmd17" ELSE "failed"
  /\ UNCHANGED <<ocr, OpCondVars>>

\* read_sectors_dma: its result is that of the read.
ReadSectors ==
  /\ pc = "cmd17"
  /\ \E ret \in Results :
       Transact("cmd17", ret) /\ pc' = IF ret = "Ok" THEN "cmd13" ELSE "cmd13Failed"
  /\ UNCHANGED <<ocr, OpCondVars>>

SendStatus ==
  /\ pc \in {"cmd13", "cmd13Failed"}
  /\ \E ret \in Results : Transact("cmd13", ret)
  /\ pc' = IF pc = "cmd13" THEN "initialized" ELSE "failed"
  /\ UNCHANGED <<ocr, OpCondVars>>

\* main waits for a second and calls init again.
Retry ==
  /\ pc = "failed" /\ pc' = "cmd0"
  /\ UNCHANGED <<ocr, OpCondVars, hwVars>>

-----------------------------------------------------------------------------
\* A card is taken out, or put in (external).
CardChange ==
  /\ card' \in IF card = None THEN Cards ELSE {None}
  /\ cardReady' = FALSE /\ cardApp' = FALSE /\ same' = FALSE
  /\ UNCHANGED <<driverVars, hears, resp0, garbled, noisy>>

\* The interrupt handler panics on a full queue, which ends the program (external
\* to init: Transaction has the queue).
HandlerPanics ==
  /\ pc # "panicked" /\ pc' = "panicked"
  /\ UNCHANGED <<ocr, OpCondVars, hwVars>>

Driver == \/ GoIdle \/ SendIfCond
          \/ OpCondSetup \/ SendAppCmd \/ SendOpCond \/ OpCondCleanup
          \/ ReadOcr \/ SelectCard \/ ReadSectors \/ SendStatus
          \/ Retry

Next == Driver \/ CardChange \/ HandlerPanics

\* The card is not taken out or put in for ever.
LeftAlone == <>[][~CardChange]_vars

\* Timers fire, and every command returns if the card is left alone: Transaction
\* promises no more (TransactionReturns), as each card detect event starts the wait
\* of handle_event anew, and nothing at all once the handler has panicked.
Spec == Init /\ [][Next]_vars /\ (LeftAlone => WF_vars(Driver))

-----------------------------------------------------------------------------
(* Properties.                                                             *)

TypeOK ==
  /\ pc \in {"cmd0", "cmd8", "opCond", "cmd55", "acmd41", "cleanup", "failed",
             "initialized", "cmd13Failed", "panicked"} \cup AfterOpCond
  /\ ocr \subseteq Bits /\ resp0 \subseteq Bits
  /\ round \in 1..2 /\ tries \in 0..MAX_RETRIES /\ errs \in 0..MAX_ERRORS
  /\ res \in Errors \cup {"Ok", None}
  /\ hears \in Hearings
  /\ garbled \in BOOLEAN /\ noisy \in BOOLEAN
  /\ card \in Cards \cup {None} /\ cardReady \in BOOLEAN /\ cardApp \in BOOLEAN
  /\ same \in BOOLEAN

\* Though the driver reads RESP0 without asking whether there was an answer, it
\* never takes the response of an earlier command, or of an earlier attempt, for
\* the card's word that it is ready: only a garbled one can say so.
OpCondReady ==
  pc \in AfterOpCond /\ res = "Ok" /\ same /\ ~noisy => cardReady

\* The read addresses the card the way the card wants it, by block or by byte,
\* though nothing need answer CMD58 in SD mode.
AddressingMatches ==
  pc = "cmd17" /\ res = "Ok" /\ same /\ ~noisy => ("hc" \in ocr <=> card \in HcCards)

\* An attempt to bring up a card ends, however the card answers and whatever the
\* driver has gone deaf to, once the card is left alone and unless the handler
\* panics.
AttemptEnds ==
  LeftAlone => (pc = "cmd0" ~> pc \in {"failed", "initialized", "panicked"})

-----------------------------------------------------------------------------
(* What the repository says and the code does not keep.                    *)

\* "CMD8 timeout; not an SD v2.00 card" (sdmmc_sd.rs:122): a card that has been
\* in the slot since CMD0 is not given up for not answering CMD8.
V1CardsGoOn ==
  [][pc = "cmd8" /\ same /\ card # None /\ ~noisy' => pc' # "failed"]_vars

\* "Driver initialized!" (main.rs:73): the card in the slot is ready by then.
InitializedMeansReady == pc = "initialized" /\ same /\ ~noisy => cardReady
=============================================================================
