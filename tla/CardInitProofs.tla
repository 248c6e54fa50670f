---------------------------- MODULE CardInitProofs ---------------------------
(***************************************************************************)
(* Bringing up a card, for every set of cards and every number of retries  *)
(* and errors: what SdmmcCard::init believes of the card in the slot is    *)
(* true unless a garbled response says otherwise.                          *)
(***************************************************************************)
EXTENDS CardInit, TLAPS

-----------------------------------------------------------------------------
(* The inductive invariant.                                                *)

\* An iteration of cmd_send_op_cond is begun only with a try and an error left.
LoopBounded ==
  pc \in {"cmd55", "acmd41"} => tries < MAX_RETRIES /\ errs < MAX_ERRORS

\* RESP0 without an error is the OCR or it is not: the answers to CMD8 and CMD55
\* have the bit of an application command, and the OCR has not.
CleanResponse ==
  /\ garbled => noisy
  /\ ~garbled /\ "app" \in resp0 => "ready" \notin resp0

\* That bit let send_app_cmd go on to its second half.
AppSeen == pc = "acmd41" => "app" \in resp0

\* The result of an earlier attempt has been forgotten.
NoResultYet == pc \in {"cmd8", "opCond", "cmd55", "acmd41"} => res # "Ok"

Trusted == res = "Ok" /\ same /\ ~noisy

\* A card that was said to be ready is, and its OCR is in RESP0 until CMD58 is
\* answered or not, and in self.ocr from then on.
CardKnown ==
  Trusted =>
    /\ pc \in AfterOpCond \cup {"cleanup"} => cardReady
    /\ pc \in {"cleanup", "cmd58"} => ("hc" \in resp0 <=> card \in HcCards)
    /\ pc \in {"cmd7", "cmd17"} => ("hc" \in ocr <=> card \in HcCards)

IInv == /\ TypeOK /\ LoopBounded
        /\ CleanResponse /\ AppSeen /\ NoResultYet /\ CardKnown

-----------------------------------------------------------------------------
(* One command.                                                            *)

Sent == {"cmd0", "cmd8", "cmd55", "acmd41", "cmd58", "cmd7", "cmd17", "cmd13"}

AnswerTypeOK ==
  /\ resp0 \subseteq Bits /\ garbled \in BOOLEAN /\ noisy \in BOOLEAN
  /\ cardReady \in BOOLEAN /\ cardApp \in BOOLEAN /\ same \in BOOLEAN

\* A command the card takes is one of those it knows, and leaves a ready card ready.
LEMMA TakesType ==
  ASSUME AnswerTypeOK, NEW cmd \in Sent, Takes(cmd)
  PROVE  /\ cardReady' \in BOOLEAN /\ cardApp' \in BOOLEAN /\ same' \in BOOLEAN
         /\ cmd \in {"cmd8", "cmd55", "acmd41", "cmd58"}
         /\ same' = same /\ (cardReady => cardReady')
<1>1. cardApp' \in BOOLEAN
  BY DEF Takes
<1>2. cardReady' \in BOOLEAN /\ (cardReady => cardReady')
  BY DEF Takes, AnswerTypeOK
<1>3. cmd \in {"cmd8", "cmd55", "acmd41", "cmd58"}
  BY DEF Takes, Knows
<1>4. same' = same /\ same' \in BOOLEAN
  BY DEF Takes, AnswerTypeOK
<1> QED BY <1>1, <1>2, <1>3, <1>4

\* A command the card misses changes nothing in the card but, for CMD0, its slot.
LEMMA MissesType ==
  ASSUME AnswerTypeOK, NEW cmd \in Sent, Misses(cmd)
  PROVE  /\ cardReady' \in BOOLEAN /\ cardApp' \in BOOLEAN /\ same' \in BOOLEAN
         /\ cmd # "cmd0" => same' = same /\ cardReady' = cardReady
<1>1. cardApp' \in BOOLEAN
  BY DEF Misses
<1>2. cardReady' \in BOOLEAN /\ same' \in BOOLEAN
  BY DEF Misses, AnswerTypeOK
<1>3. cmd # "cmd0" => same' = same /\ cardReady' = cardReady
  BY DEF Misses, AnswerTypeOK
<1> QED BY <1>1, <1>2, <1>3

\* What a card may do to RESP0: an answer, which is what its command asks for,
\* none at all, or a garbled one, which makes the history noisy.
LEMMA CardDoesKinds ==
  ASSUME AnswerTypeOK, NEW cmd \in Sent, NEW failed \in BOOLEAN, CardDoes(cmd, failed)
  PROVE  /\ AnswerTypeOK'
         /\ cmd # "cmd0" => same' = same /\ (cardReady => cardReady')
         /\ \/ /\ cmd \in {"cmd8", "cmd55", "acmd41", "cmd58"}
               /\ resp0' = Answer(cmd) /\ garbled' = FALSE /\ noisy' = noisy
            \/ /\ resp0' = resp0 /\ garbled' = garbled
               /\ noisy' = IF cmd = "cmd0" THEN garbled ELSE noisy
            \/ cmd # "cmd0" /\ garbled' = TRUE /\ noisy' = TRUE
<1>1. CASE /\ Takes(cmd) /\ ~failed
           /\ resp0' = Answer(cmd) /\ garbled' = FALSE /\ noisy' = noisy
  <2>1. /\ cardReady' \in BOOLEAN /\ cardApp' \in BOOLEAN /\ same' \in BOOLEAN
        /\ cmd \in {"cmd8", "cmd55", "acmd41", "cmd58"}
        /\ same' = same /\ (cardReady => cardReady')
    BY <1>1, TakesType
  <2>2. resp0' \subseteq Bits
    BY <1>1, <2>1 DEF Answer, Bits, R7, R1, Ocr
  <2>3. garbled' \in BOOLEAN /\ noisy' \in BOOLEAN
    BY <1>1 DEF AnswerTypeOK
  <2> QED BY <1>1, <2>1, <2>2, <2>3 DEF AnswerTypeOK
<1>2. CASE /\ Misses(cmd) /\ failed = (cmd \in Responded)
           /\ resp0' = resp0 /\ garbled' = garbled
           /\ noisy' = IF cmd = "cmd0" THEN garbled ELSE noisy
  <2>1. /\ cardReady' \in BOOLEAN /\ cardApp' \in BOOLEAN /\ same' \in BOOLEAN
        /\ cmd # "cmd0" => same' = same /\ cardReady' = cardReady
    BY <1>2, MissesType
  <2>2. garbled' \in BOOLEAN /\ noisy' \in BOOLEAN /\ resp0' \subseteq Bits
    BY <1>2 DEF AnswerTypeOK
  <2> QED BY <1>2, <2>1, <2>2 DEF AnswerTypeOK
<1>3. CASE /\ cmd \in Responded /\ (Takes(cmd) \/ Misses(cmd)) /\ failed
           /\ resp0' \in SUBSET Bits /\ garbled' = TRUE /\ noisy' = TRUE
  <2>1. /\ cardReady' \in BOOLEAN /\ cardApp' \in BOOLEAN /\ same' \in BOOLEAN
        /\ cmd # "cmd0" => same' = same /\ (cardReady => cardReady')
    BY <1>3, TakesType, MissesType
  <2>2. garbled' \in BOOLEAN /\ noisy' \in BOOLEAN /\ resp0' \subseteq Bits
    BY <1>3
  <2>3. cmd # "cmd0"
    BY <1>3 DEF Responded
  <2> QED BY <1>3, <2>1, <2>2, <2>3 DEF AnswerTypeOK
<1> QED BY <1>1, <1>2, <1>3 DEF CardDoes

\* What init may conclude from one command.
LEMMA TransactKeeps ==
  ASSUME TypeOK, CleanResponse, NEW cmd \in Sent, NEW ret \in Results, Transact(cmd, ret)
  PROVE  /\ card' = card /\ hears' \in Hearings /\ AnswerTypeOK'
         /\ CleanResponse'
         /\ cmd # "cmd0" =>
              /\ same' = same /\ (cardReady => cardReady') /\ (~noisy' => ~noisy)
              /\ ~noisy' /\ resp0' # resp0 =>
                   cmd \in {"cmd8", "cmd55", "acmd41", "cmd58"} /\ resp0' = Answer(cmd)
<1>1. card' = card /\ hears' \in Hearings
  BY DEF Transact
<1>2. AnswerTypeOK
  BY DEF TypeOK, AnswerTypeOK
<1>3. CASE UNCHANGED answerVars
  BY <1>1, <1>2, <1>3 DEF answerVars, AnswerTypeOK, CleanResponse
<1>4. CASE \E failed \in BOOLEAN : CardDoes(cmd, failed)
  <2>1. PICK failed \in BOOLEAN : CardDoes(cmd, failed)
    BY <1>4
  <2>2. /\ AnswerTypeOK'
        /\ cmd # "cmd0" => same' = same /\ (cardReady => cardReady')
        /\ \/ /\ cmd \in {"cmd8", "cmd55", "acmd41", "cmd58"}
              /\ resp0' = Answer(cmd) /\ garbled' = FALSE /\ noisy' = noisy
           \/ /\ resp0' = resp0 /\ garbled' = garbled
              /\ noisy' = IF cmd = "cmd0" THEN garbled ELSE noisy
           \/ cmd # "cmd0" /\ garbled' = TRUE /\ noisy' = TRUE
    BY <1>2, <2>1, CardDoesKinds
  <2>3. CASE /\ cmd \in {"cmd8", "cmd55", "acmd41", "cmd58"}
             /\ resp0' = Answer(cmd) /\ garbled' = FALSE /\ noisy' = noisy
    <3>1. "app" \in resp0' => "ready" \notin resp0'
      BY <2>3 DEF Answer, R7, R1, Ocr
    <3> QED BY <1>1, <2>2, <2>3, <3>1 DEF CleanResponse
  <2>4. CASE /\ resp0' = resp0 /\ garbled' = garbled
             /\ noisy' = IF cmd = "cmd0" THEN garbled ELSE noisy
    BY <1>1, <2>2, <2>4 DEF CleanResponse
  <2>5. CASE cmd # "cmd0" /\ garbled' = TRUE /\ noisy' = TRUE
    BY <1>1, <2>2, <2>5 DEF CleanResponse
  <2> QED BY <2>2, <2>3, <2>4, <2>5
<1>5. CASE Takes(cmd) /\ UNCHANGED <<resp0, garbled, noisy>>
  <2>1. /\ cardReady' \in BOOLEAN /\ cardApp' \in BOOLEAN /\ same' \in BOOLEAN
        /\ same' = same /\ (cardReady => cardReady')
    BY <1>2, <1>5, TakesType
  <2> QED BY <1>1, <1>2, <1>5, <2>1 DEF AnswerTypeOK, CleanResponse
<1>6. \/ UNCHANGED answerVars
      \/ \E failed \in BOOLEAN : CardDoes(cmd, failed)
      \/ Takes(cmd) /\ UNCHANGED <<resp0, garbled, noisy>>
  BY DEF Transact, Unheard
<1> QED BY <1>3, <1>4, <1>5, <1>6

-----------------------------------------------------------------------------
(* The steps of init.                                                      *)

DriverTypeOK ==
  /\ pc \in {"cmd0", "cmd8", "opCond", "cmd55", "acmd41", "cleanup", "failed",
             "initialized", "cmd13Failed", "panicked"} \cup AfterOpCond
  /\ ocr \subseteq Bits
  /\ round \in 1..2 /\ tries \in 0..MAX_RETRIES /\ errs \in 0..MAX_ERRORS
  /\ res \in Errors \cup {"Ok", None}

\* TypeOK, split into what the driver and what a command changes.
LEMMA TypeParts ==
  TypeOK <=> /\ DriverTypeOK /\ AnswerTypeOK
             /\ hears \in Hearings /\ card \in Cards \cup {None}
  BY DEF TypeOK, DriverTypeOK, AnswerTypeOK

\* The two parts of the type, put together again after a step.
LEMMA TypeNext ==
  ASSUME TypeOK, DriverTypeOK', AnswerTypeOK', hears' \in Hearings, card' = card
  PROVE  TypeOK'
  BY DEF TypeOK, DriverTypeOK, AnswerTypeOK

\* main starts with the invariant.
LEMMA InitIInv == Init => IInv
<1> SUFFICES ASSUME Init PROVE IInv
  OBVIOUS
<1>1. TypeOK
  <2>1. DriverTypeOK
    BY MaxAssumption DEF Init, DriverTypeOK
  <2>2. AnswerTypeOK /\ hears \in Hearings
    BY DEF Init, AnswerTypeOK, Hearings
  <2> QED BY <2>1, <2>2, TypeParts DEF Init
<1>2. LoopBounded /\ AppSeen
  BY DEF Init, LoopBounded, AppSeen
<1>3. garbled = FALSE /\ resp0 = {}
  BY DEF Init
<1>4. CleanResponse
  BY <1>3 DEF CleanResponse
<1>5. None # "Ok"
  BY DEF None
<1>6. NoResultYet /\ CardKnown
  BY <1>5 DEF Init, NoResultYet, CardKnown, Trusted
<1> QED BY <1>1, <1>2, <1>4, <1>6 DEF IInv

\* CMD0, which forgets every earlier response.
LEMMA GoIdleInv == IInv /\ GoIdle => IInv'
<1> SUFFICES ASSUME IInv, GoIdle PROVE IInv'
  OBVIOUS
<1>1. PICK ret \in Results :
        Transact("cmd0", ret) /\ pc' = IF ret = "Ok" THEN "cmd8" ELSE "failed"
  BY DEF GoIdle
<1>2. /\ card' = card /\ hears' \in Hearings /\ AnswerTypeOK' /\ CleanResponse'
  BY <1>1, TransactKeeps DEF IInv, Sent
<1>3. /\ pc = "cmd0" /\ pc' \in {"cmd8", "failed"}
      /\ res' = None /\ round' = 1 /\ UNCHANGED <<ocr, tries, errs>>
  BY <1>1 DEF GoIdle
<1>4. TypeOK'
  <2>1. DriverTypeOK'
    BY <1>3, TypeParts DEF IInv, DriverTypeOK
  <2> QED BY <1>2, <2>1, TypeNext DEF IInv
<1>5. None # "Ok"
  BY DEF None
<1>6. LoopBounded' /\ AppSeen' /\ NoResultYet' /\ CardKnown'
  BY <1>3, <1>5 DEF LoopBounded, AppSeen, NoResultYet, CardKnown, Trusted
<1> QED BY <1>2, <1>4, <1>6 DEF IInv

\* CMD8, whose answer only init_sd_if_cond looks at.
LEMMA SendIfCondInv == IInv /\ SendIfCond => IInv'
<1> SUFFICES ASSUME IInv, SendIfCond PROVE IInv'
  OBVIOUS
<1>1. PICK ret \in Results : Transact("cmd8", ret)
  BY DEF SendIfCond
<1>2. /\ card' = card /\ hears' \in Hearings /\ AnswerTypeOK' /\ CleanResponse'
  BY <1>1, TransactKeeps DEF IInv, Sent
<1>3. /\ pc = "cmd8" /\ pc' \in {"opCond", "failed"} /\ ocr' \in {ocr, {}, {"hc"}}
      /\ UNCHANGED <<round, tries, errs, res>>
  BY DEF SendIfCond, OpCondVars
<1>4. TypeOK'
  <2>1. DriverTypeOK'
    BY <1>3, TypeParts DEF IInv, DriverTypeOK, AfterOpCond, Bits
  <2> QED BY <1>2, <2>1, TypeNext DEF IInv
<1>5. res' # "Ok"
  BY <1>3 DEF IInv, NoResultYet
<1>6. LoopBounded' /\ AppSeen' /\ NoResultYet' /\ CardKnown'
  BY <1>3, <1>5 DEF LoopBounded, AppSeen, NoResultYet, CardKnown, Trusted
<1> QED BY <1>2, <1>4, <1>6 DEF IInv

\* Every call of cmd_send_op_cond starts with fresh counters.
LEMMA OpCondSetupInv == IInv /\ OpCondSetup => IInv'
<1> SUFFICES ASSUME IInv, OpCondSetup PROVE IInv'
  OBVIOUS
<1>1. /\ UNCHANGED <<ocr, round, hears, card, resp0, garbled, noisy, cardReady, cardApp, same>>
      /\ tries' = 0 /\ errs' = 0 /\ res' = None /\ pc' = "cmd55"
  BY DEF OpCondSetup, hwVars, answerVars
<1>2. TypeOK'
  BY <1>1, MaxAssumption DEF IInv, TypeOK
<1>3. LoopBounded' /\ CleanResponse' /\ AppSeen'
  BY <1>1, MaxAssumption DEF IInv, LoopBounded, CleanResponse, AppSeen
<1>4. None # "Ok"
  BY DEF None
<1>5. NoResultYet' /\ CardKnown'
  BY <1>1, <1>4 DEF NoResultYet, CardKnown, Trusted
<1> QED BY <1>2, <1>3, <1>5 DEF IInv

\* How an iteration of the loop ends that has not made the card ready.
LEMMA ContinueEnds ==
  ASSUME TypeOK, LoopBounded, pc \in {"cmd55", "acmd41"}, Continue
  PROVE  /\ tries' \in 0..MAX_RETRIES
         /\ \/ pc' = "cleanup" /\ res' = "Timeout"
            \/ pc' = "cmd55" /\ res' = res /\ tries' < MAX_RETRIES
<1>1. tries \in Nat /\ tries < MAX_RETRIES /\ tries' = tries + 1
  BY DEF TypeOK, LoopBounded, Continue
<1>2. \/ tries' = MAX_RETRIES /\ pc' = "cleanup" /\ res' = "Timeout"
      \/ tries' # MAX_RETRIES /\ pc' = "cmd55" /\ res' = res
  BY DEF Continue, Break
<1> QED BY <1>1, <1>2, MaxAssumption

\* An error in an iteration ends the loop or leaves a try and an error.
LEMMA OpCondErrorEnds ==
  ASSUME TypeOK, LoopBounded, pc \in {"cmd55", "acmd41"}, NEW err \in Errors, OpCondError(err)
  PROVE  /\ tries' \in 0..MAX_RETRIES /\ errs' \in 0..MAX_ERRORS
         /\ \/ pc' = "cleanup" /\ res' \in Errors
            \/ pc' = "cmd55" /\ res' = res /\ tries' < MAX_RETRIES /\ errs' < MAX_ERRORS
<1>1. errs \in Nat /\ errs < MAX_ERRORS /\ errs' = errs + 1
  BY DEF TypeOK, LoopBounded, OpCondError
<1>2. errs' \in 0..MAX_ERRORS
  BY <1>1, MaxAssumption
<1>3. CASE errs' = MAX_ERRORS
  BY <1>2, <1>3 DEF OpCondError, Break, TypeOK
<1>4. CASE errs' # MAX_ERRORS
  <2>1. Continue
    BY <1>4 DEF OpCondError
  <2>2. "Timeout" \in Errors
    BY DEF Errors
  <2> QED BY <1>1, <1>2, <1>4, <2>1, <2>2, ContinueEnds, MaxAssumption
<1> QED BY <1>3, <1>4

\* CMD55 and its R1 response, on which ACMD41 depends.
LEMMA SendAppCmdInv == IInv /\ SendAppCmd => IInv'
<1> SUFFICES ASSUME IInv, SendAppCmd PROVE IInv'
  OBVIOUS
<1>1. PICK ret \in Results :
        /\ Transact("cmd55", ret)
        /\ IF ret # "Ok" THEN OpCondError(ret)
           ELSE IF "app" \notin resp0' THEN OpCondError("NotSupported")
           ELSE pc' = "acmd41" /\ UNCHANGED <<tries, errs, res>>
  BY DEF SendAppCmd
<1>2. pc = "cmd55" /\ UNCHANGED <<ocr, round>>
  BY DEF SendAppCmd
<1>3. /\ card' = card /\ hears' \in Hearings /\ AnswerTypeOK' /\ CleanResponse'
  BY <1>1, TransactKeeps DEF IInv, Sent
<1>4. /\ res # "Ok" /\ res \in Errors \cup {"Ok", None}
      /\ tries \in 0..MAX_RETRIES /\ tries < MAX_RETRIES
      /\ errs \in 0..MAX_ERRORS /\ errs < MAX_ERRORS
  BY <1>2 DEF IInv, NoResultYet, LoopBounded, TypeOK
<1>5. /\ tries' \in 0..MAX_RETRIES /\ errs' \in 0..MAX_ERRORS
      /\ \/ pc' = "cleanup" /\ res' \in Errors
         \/ pc' = "cmd55" /\ res' = res /\ tries' < MAX_RETRIES /\ errs' < MAX_ERRORS
         \/ /\ pc' = "acmd41" /\ res' = res /\ tries' < MAX_RETRIES /\ errs' < MAX_ERRORS
            /\ "app" \in resp0'
  <2>1. CASE ret # "Ok"
    <3>1. ret \in Errors
      BY <2>1 DEF Results, Errors
    <3> QED BY <1>1, <1>2, <2>1, <3>1, OpCondErrorEnds DEF IInv
  <2>2. CASE ret = "Ok" /\ "app" \notin resp0'
    <3>1. "NotSupported" \in Errors
      BY DEF Errors
    <3> QED BY <1>1, <1>2, <2>2, <3>1, OpCondErrorEnds DEF IInv
  <2>3. CASE ret = "Ok" /\ "app" \in resp0'
    BY <1>1, <1>4, <2>3
  <2> QED BY <2>1, <2>2, <2>3
<1>6. res' # "Ok" /\ res' \in Errors \cup {"Ok", None}
  BY <1>4, <1>5 DEF Errors
<1>7. TypeOK'
  <2>1. DriverTypeOK'
    BY <1>2, <1>5, <1>6, TypeParts DEF IInv, DriverTypeOK
  <2> QED BY <1>3, <2>1, TypeNext DEF IInv
<1>8. LoopBounded' /\ AppSeen'
  BY <1>5 DEF LoopBounded, AppSeen
<1>9. NoResultYet' /\ CardKnown'
  BY <1>6 DEF NoResultYet, CardKnown, Trusted
<1> QED BY <1>3, <1>7, <1>8, <1>9 DEF IInv

\* Where the driver takes the card's word that it is ready: RESP0 had the bit of
\* an application command, so without a garbled response it holds the answer to
\* ACMD41.
LEMMA SendOpCondInv == IInv /\ SendOpCond => IInv'
<1> SUFFICES ASSUME IInv, SendOpCond PROVE IInv'
  OBVIOUS
<1>1. PICK ret \in Results :
        /\ Transact("acmd41", ret)
        /\ IF ret # "Ok" THEN OpCondError(ret) /\ UNCHANGED ocr
           ELSE IF CardSaysReady(resp0')
                THEN Break("Ok") /\ ocr' = resp0' /\ UNCHANGED <<tries, errs>>
                ELSE Continue /\ UNCHANGED <<errs, ocr>>
  BY DEF SendOpCond
<1>2. pc = "acmd41" /\ UNCHANGED <<round>>
  BY DEF SendOpCond
<1>3. /\ card' = card /\ hears' \in Hearings /\ AnswerTypeOK' /\ CleanResponse'
      /\ ~noisy' => ~noisy
      /\ ~noisy' /\ resp0' # resp0 => resp0' = Answer("acmd41")
  BY <1>1, TransactKeeps DEF IInv, Sent
<1>4. /\ res # "Ok" /\ res \in Errors \cup {"Ok", None}
      /\ tries \in 0..MAX_RETRIES /\ tries < MAX_RETRIES
      /\ errs \in 0..MAX_ERRORS /\ errs < MAX_ERRORS
      /\ "app" \in resp0 /\ ocr \subseteq Bits
  BY <1>2 DEF IInv, NoResultYet, LoopBounded, TypeOK, AppSeen
<1>5. /\ tries' \in 0..MAX_RETRIES /\ errs' \in 0..MAX_ERRORS /\ ocr' \subseteq Bits
      /\ \/ pc' = "cleanup" /\ res' \in Errors
         \/ pc' = "cmd55" /\ res' = res /\ tries' < MAX_RETRIES /\ errs' < MAX_ERRORS
         \/ pc' = "cleanup" /\ res' = "Ok" /\ "ready" \in resp0'
  <2>1. CASE ret # "Ok"
    <3>1. ret \in Errors
      BY <2>1 DEF Results, Errors
    <3> QED BY <1>1, <1>2, <1>4, <2>1, <3>1, OpCondErrorEnds DEF IInv
  <2>2. CASE ret = "Ok" /\ CardSaysReady(resp0')
    BY <1>1, <1>3, <1>4, <2>2 DEF Break, CardSaysReady, AnswerTypeOK
  <2>3. CASE ret = "Ok" /\ ~CardSaysReady(resp0')
    <3>1. "Timeout" \in Errors
      BY DEF Errors
    <3> QED BY <1>1, <1>2, <1>4, <2>3, <3>1, ContinueEnds DEF IInv
  <2> QED BY <2>1, <2>2, <2>3
<1>6. res' \in Errors \cup {"Ok", None}
  BY <1>4, <1>5
<1>7. TypeOK'
  <2>1. DriverTypeOK'
    BY <1>2, <1>5, <1>6, TypeParts DEF IInv, DriverTypeOK
  <2> QED BY <1>3, <2>1, TypeNext DEF IInv
<1>8. LoopBounded' /\ AppSeen'
  BY <1>5 DEF LoopBounded, AppSeen
<1>9. NoResultYet'
  BY <1>4, <1>5 DEF NoResultYet
<1>10. CardKnown'
  <2>1. CASE res' # "Ok"
    BY <2>1 DEF CardKnown, Trusted
  <2>2. CASE res' = "Ok" /\ ~noisy'
    <3>1. pc' = "cleanup" /\ "ready" \in resp0'
      BY <1>4, <1>5, <2>2 DEF Errors
    <3>2. "ready" \notin resp0
      BY <1>3, <1>4, <2>2 DEF IInv, CleanResponse
    <3>3. resp0' = Answer("acmd41")
      BY <1>3, <2>2, <3>1, <3>2
    <3>4. Answer("acmd41") = Ocr(cardReady')
      BY DEF Answer
    <3>5. cardReady'
      BY <3>1, <3>3, <3>4 DEF Ocr
    <3>6. "hc" \in resp0' <=> card \in HcCards
      BY <3>3, <3>4, <3>5 DEF Ocr
    <3> QED BY <1>3, <3>1, <3>5, <3>6 DEF CardKnown
  <2>3. CASE noisy'
    BY <2>3 DEF CardKnown, Trusted
  <2> QED BY <2>1, <2>2, <2>3
<1> QED BY <1>3, <1>7, <1>8, <1>9, <1>10 DEF IInv

\* The clean-up, and the rounds of init_ocr.
LEMMA OpCondCleanupInv == IInv /\ OpCondCleanup => IInv'
<1> SUFFICES ASSUME IInv, OpCondCleanup PROVE IInv'
  OBVIOUS
<1>1. /\ pc = "cleanup"
      /\ UNCHANGED <<ocr, tries, errs, res, hears, card, resp0, garbled, noisy, cardReady,
                     cardApp, same>>
      /\ \/ res = "Timeout" /\ round' = 2 /\ pc' = "opCond"
         \/ round' = round /\ pc' \in {"cmd58", "failed"}
  BY DEF OpCondCleanup, hwVars, answerVars
<1>2. TypeOK'
  <2>1. DriverTypeOK'
    BY <1>1, TypeParts DEF IInv, DriverTypeOK, AfterOpCond
  <2>2. AnswerTypeOK' /\ hears' \in Hearings
    BY <1>1, TypeParts DEF IInv, AnswerTypeOK
  <2> QED BY <1>1, <2>1, <2>2, TypeNext DEF IInv
<1>3. LoopBounded' /\ AppSeen' /\ NoResultYet'
  BY <1>1 DEF LoopBounded, AppSeen, NoResultYet
<1>4. CleanResponse'
  BY <1>1 DEF IInv, CleanResponse
<1>5. CardKnown'
  <2>1. CASE Trusted'
    <3>1. Trusted
      BY <1>1, <2>1 DEF Trusted
    <3>2. cardReady /\ ("hc" \in resp0 <=> card \in HcCards)
      BY <1>1, <3>1 DEF IInv, CardKnown
    <3> QED BY <1>1, <3>2 DEF CardKnown
  <2>2. CASE ~Trusted'
    BY <2>2 DEF CardKnown
  <2> QED BY <2>1, <2>2
<1> QED BY <1>2, <1>3, <1>4, <1>5 DEF IInv

\* CMD58 need not be answered: then RESP0 holds what ACMD41 has left there, the
\* OCR of the same card.
LEMMA ReadOcrInv == IInv /\ ReadOcr => IInv'
<1> SUFFICES ASSUME IInv, ReadOcr PROVE IInv'
  OBVIOUS
<1>1. PICK ret \in Results :
        /\ Transact("cmd58", ret)
        /\ pc' = IF ret = "Ok" THEN "cmd7" ELSE "failed"
        /\ ocr' = IF ret = "Ok" THEN OcrRead(resp0') ELSE ocr
  BY DEF ReadOcr
<1>2. pc = "cmd58" /\ UNCHANGED <<round, tries, errs, res>>
  BY DEF ReadOcr, OpCondVars
<1>3. /\ card' = card /\ hears' \in Hearings /\ AnswerTypeOK' /\ CleanResponse'
      /\ same' = same /\ (cardReady => cardReady') /\ (~noisy' => ~noisy)
      /\ ~noisy' /\ resp0' # resp0 => resp0' = Answer("cmd58")
  BY <1>1, TransactKeeps DEF IInv, Sent
<1>4. pc' \in {"cmd7", "failed"} /\ (pc' = "cmd7" => ocr' = resp0')
  BY <1>1 DEF OcrRead
<1>5. ocr' \subseteq Bits
  BY <1>1, <1>3 DEF OcrRead, IInv, TypeOK, AnswerTypeOK
<1>6. TypeOK'
  <2>1. DriverTypeOK'
    BY <1>2, <1>4, <1>5, TypeParts DEF IInv, DriverTypeOK, AfterOpCond
  <2> QED BY <1>3, <2>1, TypeNext DEF IInv
<1>7. LoopBounded' /\ AppSeen' /\ NoResultYet'
  BY <1>4 DEF LoopBounded, AppSeen, NoResultYet
<1>8. CardKnown'
  <2>1. CASE Trusted' /\ pc' = "cmd7"
    <3>1. Trusted /\ ~noisy'
      BY <1>2, <1>3, <2>1 DEF Trusted
    <3>2. cardReady /\ ("hc" \in resp0 <=> card \in HcCards)
      BY <1>2, <3>1 DEF IInv, CardKnown, AfterOpCond
    <3>3. cardReady'
      BY <1>3, <3>2
    <3>4. Answer("cmd58") = Ocr(cardReady')
      BY DEF Answer
    <3>5. "hc" \in Ocr(cardReady') <=> card \in HcCards
      BY <3>3 DEF Ocr
    <3>6. "hc" \in resp0' <=> card \in HcCards
      BY <1>3, <3>1, <3>2, <3>4, <3>5
    <3> QED BY <1>3, <1>4, <2>1, <3>3, <3>6 DEF CardKnown
  <2>2. CASE ~Trusted' \/ pc' = "failed"
    BY <2>2 DEF CardKnown, AfterOpCond
  <2> QED BY <1>4, <2>1, <2>2
<1> QED BY <1>3, <1>6, <1>7, <1>8 DEF IInv

\* The three commands that follow do not change what init knows.
LEMMA SelectedInv == IInv /\ (SelectCard \/ ReadSectors \/ SendStatus) => IInv'
<1> SUFFICES ASSUME IInv, SelectCard \/ ReadSectors \/ SendStatus PROVE IInv'
  OBVIOUS
<1>1. PICK cmd \in {"cmd7", "cmd17", "cmd13"}, ret \in Results : Transact(cmd, ret)
  BY DEF SelectCard, ReadSectors, SendStatus
<1>2. /\ UNCHANGED <<ocr, round, tries, errs, res>>
      /\ \/ pc = "cmd7" /\ pc' \in {"cmd17", "failed"}
         \/ pc = "cmd17" /\ pc' \in {"cmd13", "cmd13Failed"}
         \/ pc \in {"cmd13", "cmd13Failed"} /\ pc' \in {"initialized", "failed"}
  BY DEF SelectCard, ReadSectors, SendStatus, OpCondVars
<1>3. /\ card' = card /\ hears' \in Hearings /\ AnswerTypeOK' /\ CleanResponse'
      /\ same' = same /\ (cardReady => cardReady') /\ (~noisy' => ~noisy)
  BY <1>1, TransactKeeps DEF IInv, Sent
<1>4. TypeOK'
  <2>1. DriverTypeOK'
    BY <1>2, TypeParts DEF IInv, DriverTypeOK, AfterOpCond
  <2> QED BY <1>3, <2>1, TypeNext DEF IInv
<1>5. LoopBounded' /\ AppSeen' /\ NoResultYet'
  BY <1>2 DEF LoopBounded, AppSeen, NoResultYet
<1>6. CardKnown'
  <2>1. CASE Trusted' /\ pc' \in AfterOpCond
    <3>1. Trusted
      BY <1>2, <1>3, <2>1 DEF Trusted
    <3>2. /\ pc' \in {"cmd17", "cmd13"} /\ pc \in {"cmd7", "cmd17"}
      BY <1>2, <2>1 DEF AfterOpCond
    <3>3. cardReady /\ ("hc" \in ocr <=> card \in HcCards)
      BY <3>1, <3>2 DEF IInv, CardKnown, AfterOpCond
    <3> QED BY <1>2, <1>3, <3>2, <3>3 DEF CardKnown
  <2>2. CASE ~Trusted' \/ pc' \notin AfterOpCond
    BY <1>2, <2>2 DEF CardKnown, AfterOpCond
  <2> QED BY <2>1, <2>2
<1> QED BY <1>3, <1>4, <1>5, <1>6 DEF IInv

\* main's loop calls init again.
LEMMA RetryInv == IInv /\ Retry => IInv'
<1> SUFFICES ASSUME IInv, Retry PROVE IInv'
  OBVIOUS
<1>1. /\ pc = "failed" /\ pc' = "cmd0"
      /\ UNCHANGED <<ocr, round, tries, errs, res, hears, card, resp0, garbled,
                     noisy, cardReady, cardApp, same>>
  BY DEF Retry, OpCondVars, hwVars, answerVars
<1>2. TypeOK'
  BY <1>1 DEF IInv, TypeOK
<1>3. LoopBounded' /\ AppSeen' /\ NoResultYet' /\ CardKnown'
  BY <1>1 DEF LoopBounded, AppSeen, NoResultYet, CardKnown, AfterOpCond
<1>4. CleanResponse'
  BY <1>1 DEF IInv, CleanResponse
<1> QED BY <1>2, <1>3, <1>4 DEF IInv

\* Another card is not trusted: it is not the one that got CMD0.
LEMMA CardChangeInv == IInv /\ CardChange => IInv'
<1> SUFFICES ASSUME IInv, CardChange PROVE IInv'
  OBVIOUS
<1>1. /\ UNCHANGED <<pc, ocr, round, tries, errs, res, hears, resp0, garbled, noisy>>
      /\ cardReady' = FALSE /\ cardApp' = FALSE /\ same' = FALSE
  BY DEF CardChange, driverVars
<1>2. card' \in Cards \cup {None}
  BY DEF CardChange
<1>3. TypeOK'
  BY <1>1, <1>2 DEF IInv, TypeOK
<1>4. LoopBounded' /\ CleanResponse' /\ AppSeen' /\ NoResultYet'
  BY <1>1 DEF IInv, LoopBounded, CleanResponse, AppSeen, NoResultYet
<1>5. CardKnown'
  BY <1>1 DEF CardKnown, Trusted
<1> QED BY <1>3, <1>4, <1>5 DEF IInv

\* A program that has ended has nothing to keep but its types.
LEMMA HandlerPanicsInv == IInv /\ HandlerPanics => IInv'
<1> SUFFICES ASSUME IInv, HandlerPanics PROVE IInv'
  OBVIOUS
<1>1. /\ pc' = "panicked"
      /\ UNCHANGED <<ocr, round, tries, errs, res, hears, card, resp0, garbled,
                     noisy, cardReady, cardApp, same>>
  BY DEF HandlerPanics, OpCondVars, hwVars, answerVars
<1>2. TypeOK'
  BY <1>1 DEF IInv, TypeOK
<1>3. LoopBounded' /\ AppSeen' /\ NoResultYet' /\ CardKnown'
  BY <1>1 DEF LoopBounded, AppSeen, NoResultYet, CardKnown, AfterOpCond
<1>4. CleanResponse'
  BY <1>1 DEF IInv, CleanResponse
<1> QED BY <1>2, <1>3, <1>4 DEF IInv

\* Every step keeps the invariant.
LEMMA NextIInv == IInv /\ [Next]_vars => IInv'
<1> SUFFICES ASSUME IInv, [Next]_vars PROVE IInv'
  OBVIOUS
<1>1. CASE Driver
  BY <1>1, GoIdleInv, SendIfCondInv, OpCondSetupInv, SendAppCmdInv, SendOpCondInv,
     OpCondCleanupInv, ReadOcrInv, SelectedInv, RetryInv DEF Driver
<1>2. CASE CardChange
  BY <1>2, CardChangeInv
<1>3. CASE HandlerPanics
  BY <1>3, HandlerPanicsInv
<1>4. CASE UNCHANGED vars
  <2>1. UNCHANGED <<pc, ocr, round, tries, errs, res, hears, card, resp0, garbled,
                    noisy, cardReady, cardApp, same>>
    BY <1>4 DEF vars, driverVars, hwVars, answerVars
  <2>2. TypeOK'
    BY <2>1 DEF IInv, TypeOK
  <2> QED BY <2>1, <2>2 DEF IInv, LoopBounded, CleanResponse, AppSeen, NoResultYet,
                            CardKnown, Trusted
<1> QED BY <1>1, <1>2, <1>3, <1>4 DEF Next

\* In every reachable state the loop counters, the response register and what the
\* driver has concluded of the card agree with the card and with each other.
THEOREM InvariantHolds == Spec => []IInv
  BY InitIInv, NextIInv, PTL DEF Spec

-----------------------------------------------------------------------------
(* What follows from it.                                                   *)

\* Every variable keeps to its type, and the counters of cmd_send_op_cond to
\* their limits.
THEOREM TypeCorrect == Spec => []TypeOK
<1>1. IInv => TypeOK
  BY DEF IInv
<1> QED BY <1>1, InvariantHolds, PTL

\* What the driver takes for a ready card is one, unless a response was garbled,
\* though it looks at RESP0 without asking whether the card has answered.
THEOREM OpCondReadyHolds == Spec => []OpCondReady
<1>1. IInv => OpCondReady
  BY DEF IInv, CardKnown, Trusted, OpCondReady
<1> QED BY <1>1, InvariantHolds, PTL

\* The read goes to the address the card understands.
THEOREM AddressingMatchesHolds == Spec => []AddressingMatches
<1>1. IInv => AddressingMatches
  BY DEF IInv, CardKnown, Trusted, AddressingMatches
<1> QED BY <1>1, InvariantHolds, PTL
=============================================================================
