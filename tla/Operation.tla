------------------------------ MODULE Operation ------------------------------
(***************************************************************************)
(* core.Operation: the retry allowance and the delivery facts of one       *)
(* TikTok operation, shared by every goroutine that works for it, and the  *)
(* progress events it streams to the caller.  Each operator is one critical*)
(* section of Operation.mu, the event it emits included; the caller adds   *)
(* the rest of its step.                                                   *)
(***************************************************************************)
EXTENDS Naturals, Sequences

MaxAttempts == 3

VARIABLES
  attempt,
  facts,    \* the flags that are set: subset of Facts
  ended,    \* the operation's context: budget spent, caller gone, or a write failed
  events    \* the lines the caller received, <<type, attempt>>

opVars == <<attempt, facts, ended, events>>

\* started: a Telegram request was invoked; possible: a delivery may have become
\* irreversible; terminal: Finish was called.
Facts == {"started", "possible", "confirmed", "rejected", "terminal"}

\* The caller may continue an operation at a later attempt; Observe reports it.
OperationInit ==
  /\ attempt \in 1..MaxAttempts
  /\ facts = {} /\ ended = FALSE
  /\ events = <<<<"attempt", attempt>>>>

\* emit: a line that cannot be written ends the operation's context.
Emit(type, n) ==
  \/ events' = Append(events, <<type, n>>) /\ UNCHANGED ended
  \/ events' = events /\ ended' = TRUE

Mark(set) == facts' = facts \cup set /\ UNCHANGED <<attempt, ended, events>>

\* AllowRetry grants one of the retries that all stages share.
MutantMayRetry == ~ended /\ facts \cap {"terminal", "possible"} = {} /\ attempt <= MaxAttempts
MayRetry == ~ended /\ facts \cap {"terminal", "possible"} = {} /\ attempt < MaxAttempts
AllowRetry ==
  /\ MayRetry
  /\ attempt' = attempt + 1
  /\ Emit("attempt", attempt + 1)
  /\ UNCHANGED facts

MutantBeforeDeliveryCommit ==
  /\ ~ended /\ "terminal" \notin facts
  /\ facts' = facts \cup {"possible"}
  /\ Emit("delivery_commit", attempt)
  /\ UNCHANGED attempt
\* BeforeDeliveryCommit returns nil only if its event was written.
BeforeDeliveryCommit ==
  /\ ~ended /\ "terminal" \notin facts
  /\ facts' = (facts \cup {"possible"}) \ {"rejected"}
  /\ Emit("delivery_commit", attempt)
  /\ UNCHANGED attempt

MarkDeliveryStarted == Mark({"started"})
MarkDeliveryConfirmed == Mark({"possible", "confirmed"})
MarkDeliveryRejected == Mark({"rejected"})

\* Finish, and the terminal line written after it.
Finish ==
  /\ "terminal" \notin facts
  /\ facts' = facts \cup {"terminal"}
  /\ Emit("terminal", attempt)
  /\ UNCHANGED attempt

EndContext ==
  /\ ~ended /\ "terminal" \notin facts
  /\ ended' = TRUE
  /\ UNCHANGED <<attempt, facts, events>>
=============================================================================
