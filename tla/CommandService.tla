---------------------------- MODULE CommandService --------------------------
(***************************************************************************)
(* What SdmmcCard::do_transaction is for, without registers, events or an  *)
(* interrupt handler: one command at a time, carried out at most once,     *)
(* with a reply that is true of it.  Transaction implements it as long as  *)
(* an idle controller takes commands.                                      *)
(***************************************************************************)
EXTENDS CommandPromise

CONSTANTS
  Cmds,      \* kinds of commands
  DataCmds,  \* those with a data buffer
  None       \* no command, no reply

VARIABLES
  call,    \* the command that has been called for, None between calls
  ran,     \* what the controller has done of it: "not", "running" or "done"
  ret,     \* the reply to the last call, None before it is given
  failed,  \* ... and whether it came with an error of the command
  hears    \* what is heard of the controller; as it was when the last call returned

service == <<call, ran, ret, failed, hears>>

Init == call = None /\ ran = "not" /\ ret = None /\ failed = FALSE /\ hears = "all"

Call ==
  /\ call = None /\ ret = None
  /\ call' \in Cmds
  /\ UNCHANGED <<ran, ret, failed, hears>>

\* The controller begins the command and ends it.
Run ==
  /\ call # None
  /\ \/ ran = "not" /\ ran' = "running"
     \/ ran = "running" /\ ran' = "done"
  /\ UNCHANGED <<call, ret, failed, hears>>

\* A refused command has not been run.  A command that is reported to have been
\* carried out has been, unless a stale "command done" says so; but even then it
\* has been begun.
Truthful(r, f) ==
  /\ r = "NotFound" => ran = "not"
  /\ r = "Ok" => ran # "not"
  /\ r = "Ok" /\ ~f => ran = "done" \/ hears = "stale"

Reply ==
  /\ call # None
  /\ \E r \in Results, f \in BOOLEAN :
       /\ Truthful(r, f)
       /\ ret' = r /\ failed' = f
       /\ Promise(call \in DataCmds, r, f, hears, hears')
  /\ hears' \in Hearings
  /\ call' = None /\ ran' = "not"

\* The caller takes the reply.
Accept ==
  /\ ret # None
  /\ ret' = None /\ failed' = FALSE
  /\ UNCHANGED <<call, ran, hears>>

Next == Call \/ Run \/ Reply \/ Accept

Spec == Init /\ [][Next]_service
=============================================================================
