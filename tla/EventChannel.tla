---------------------------- MODULE EventChannel ----------------------------
(***************************************************************************)
(* What the driver's interrupt path promises to the thread, without        *)
(* registers and without a handler: every interrupt raised after the       *)
(* channel has been opened is reported, in the order of the reports, until *)
(* the channel breaks because nobody reads it.  HostInit implements it.    *)
(***************************************************************************)
EXTENDS Naturals, Sequences

CONSTANTS
  Interrupts,  \* the interrupts that are enabled
  Cap          \* how many reports may wait to be read

VARIABLES
  open,     \* interrupts count from now on
  owed,     \* interrupts raised and not reported since
  reports,  \* reports not read yet, oldest first
  broken    \* a report was lost, there will be no more

channel == <<open, owed, reports, broken>>

Init == open = FALSE /\ owed = {} /\ reports = <<>> /\ broken = FALSE

\* What was raised earlier is forgotten.
Open ==
  /\ ~open /\ open' = TRUE
  /\ owed' = {} /\ UNCHANGED <<reports, broken>>

Raise ==
  /\ open
  /\ \E raised \in SUBSET Interrupts : owed' = owed \cup raised
  /\ UNCHANGED <<open, reports, broken>>

\* A report holds only what is owed.  What was raised again while the report
\* was being made is owed still.
Report ==
  /\ open /\ ~broken /\ Len(reports) < Cap
  /\ \E reported \in (SUBSET owed) \ {{}} : \E again \in SUBSET reported :
       /\ reports' = Append(reports, reported)
       /\ owed' = (owed \ reported) \cup again
  /\ UNCHANGED <<open, broken>>

Read ==
  /\ open /\ reports # <<>>
  /\ reports' = Tail(reports)
  /\ UNCHANGED <<open, owed, broken>>

\* Before it is opened the channel breaks when the opening fails, later when
\* there is no room for a report.
Break ==
  /\ open => Len(reports) = Cap /\ owed # {}
  /\ broken' = TRUE
  /\ owed' \in SUBSET owed
  /\ UNCHANGED <<open, reports>>

\* Nothing survives: neither reports nor what is owed.
Close ==
  /\ open' = FALSE /\ owed' = {} /\ reports' = <<>> /\ broken' = FALSE

Next == Open \/ Raise \/ Report \/ Read \/ Break \/ Close

\* No report is made up, lost or out of order ...
SafeSpec == Init /\ [][Next]_channel

\* ... and nothing stays unreported for ever.
Spec == SafeSpec /\ WF_channel(Report)
=============================================================================
