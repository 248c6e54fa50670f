---------------------------- MODULE CommandPromise --------------------------
(***************************************************************************)
(* What a caller of SdmmcCard::do_transaction may rely on for one command, *)
(* and must put up with.  CommandService is a whole service that keeps the *)
(* promise and Transaction implements it; CardInit brings a card up with   *)
(* commands of which it knows nothing else.                                *)
(***************************************************************************)

Results == {"Ok", "Timeout", "NotFound"}
Hearings == {"all", "stale", "none"}

\* Results of a call: do_transaction returned ret, with SdmmcCmd::err set iff
\* failed; withData iff the command had a buffer.  What the driver heard of the
\* controller before the call is before, and after it after: all, only a stale
\* "command done" of an earlier command that is still in the queue, or none.
\*   - A refused command leaves everything as it was.
\*   - A timeout may be that of start_cmd, or that of the event loop, after which
\*     nothing is heard any more but what has been queued until then.
\*   - A command ends with "command done", its own or the stale one, which then is
\*     used up: a driver that hears nothing never says Ok.  An Ok of its own leaves
\*     the driver so exactly if a command with data has failed.
Promise(withData, ret, failed, before, after) ==
  \/ ret = "NotFound" /\ ~failed /\ after = before
  \/ /\ ret = "Timeout" /\ ~failed
     /\ (before = "stale" => after # "all") /\ (before = "none" => after = "none")
  \/ /\ ret = "Ok" /\ before = "all"
     /\ after = IF failed /\ withData THEN "none" ELSE "all"
  \/ ret = "Ok" /\ before = "stale" /\ after = "none"
=============================================================================
