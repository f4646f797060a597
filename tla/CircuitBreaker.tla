--------------------------- MODULE CircuitBreaker ---------------------------
(***************************************************************************)
(* The circuit breaker every command to crm-media goes through.            *)
(*                                                                         *)
(*   src/shared/circuit-breaker.ts        SimpleCircuitBreaker             *)
(*   src/shared/media-command-client.ts   sendMediaCommand                 *)
(*                                                                         *)
(* Each method runs to its end without an await, but many commands are in  *)
(* flight at once: an answer is recorded in the state the breaker has when *)
(* it arrives, not in the one its command was sent in.  Failures and       *)
(* successes are counted; that the oldest leave the window is a step of    *)
(* its own, since only checkFailureRate looks at the counts.               *)
(***************************************************************************)
EXTENDS Integers

CONSTANTS
  Command,      \* commands that may be in flight at once
  MinRequests,  \* outcomes in the window below which the rate is not judged
  MetricCap     \* bound: outcomes kept in the window

ASSUME BreakerAssumption ==
  /\ MinRequests \in Nat \ {0}
  /\ MetricCap \in Nat

VARIABLES
  breaker,      \* state, outcomes in the window, cooldownMs over or not
  command,      \* the commands
  weighed       \* history: outcomes recorded since the breaker last closed (an
                \* answer that does not match the schema is recorded twice),
                \* counted up to MinRequests

breakerVars == <<breaker, command, weighed>>

BreakerInit ==
  /\ breaker = [state |-> "CLOSED", failures |-> 0, successes |-> 0, cooled |-> FALSE]
  /\ command = [c \in Command |-> "idle"]
  /\ weighed = 0

TransitionTo(b, newState) == [b EXCEPT !.state = newState, !.cooled = FALSE]

-----------------------------------------------------------------------------
(* The methods.                                                            *)

Allows(b) == b.state # "OPEN" \/ b.cooled

CheckCall(b) == IF b.state = "OPEN" THEN TransitionTo(b, "HALF_OPEN") ELSE b

\* Faulty variant: a success closes the breaker whatever its state.
RecordSuccessAlways(b) ==
  CASE b.state # "CLOSED" -> [TransitionTo(b, "CLOSED") EXCEPT !.failures = 0, !.successes = 0]
    [] OTHER -> [b EXCEPT !.successes = @ + 1]

\* Faulty variant: closing keeps the outcomes that opened the breaker.
RecordSuccessKeeps(b) ==
  CASE b.state = "HALF_OPEN" -> TransitionTo(b, "CLOSED")
    [] b.state = "CLOSED" -> [b EXCEPT !.successes = @ + 1]
    [] OTHER -> b

RecordSuccess(b) ==
  CASE b.state = "HALF_OPEN" -> [TransitionTo(b, "CLOSED") EXCEPT !.failures = 0, !.successes = 0]
    [] b.state = "CLOSED" -> [b EXCEPT !.successes = @ + 1]
    [] OTHER -> b

\* thresholdRate is one half.
RateExceeded(b) ==
  /\ b.failures + b.successes >= MinRequests
  /\ 2 * b.failures >= b.failures + b.successes

CheckFailureRate(b) ==
  IF b.state = "HALF_OPEN" \/ RateExceeded(b) THEN TransitionTo(b, "OPEN") ELSE b

RecordFailure(b) ==
  IF b.state = "OPEN" THEN b ELSE CheckFailureRate([b EXCEPT !.failures = @ + 1])

-----------------------------------------------------------------------------
(* sendMediaCommand.                                                       *)

\* While the breaker is open the command is refused with 503 and nothing changes.
SendMediaCommand(c) ==
  /\ command[c] = "idle" /\ Allows(breaker)
  /\ breaker' = CheckCall(breaker)
  /\ command' = [command EXCEPT ![c] = "sent"]
  /\ UNCHANGED weighed

\* How a command ends: an answer below 500, an answer of 500 or more (or no answer
\* in time), an answer that does not match the schema, whose failure the catch
\* records again, or a command that could not be signed, outside the try.
Outcome == {"success", "failure", "malformed", "unsigned"}

Recorded(b, outcome) ==
  CASE outcome = "success" -> RecordSuccess(b)
    [] outcome = "failure" -> RecordFailure(b)
    [] outcome = "malformed" -> RecordFailure(RecordFailure(b))
    [] outcome = "unsigned" -> b

Weight(outcome) ==
  CASE outcome = "malformed" -> 2 [] outcome = "unsigned" -> 0 [] OTHER -> 1

Capped(n) == IF n > MinRequests THEN MinRequests ELSE n

Answer(c, outcome) ==
  /\ command[c] = "sent"
  /\ breaker.failures + breaker.successes < MetricCap
  /\ breaker' = Recorded(breaker, outcome)
  /\ command' = [command EXCEPT ![c] = "idle"]
  /\ weighed' = IF breaker'.state = "CLOSED" /\ breaker.state # "CLOSED" THEN 0
                ELSE Capped(weighed + Weight(outcome))

-----------------------------------------------------------------------------
(* Time.                                                                   *)

CooldownElapses ==
  /\ breaker.state = "OPEN" /\ ~ breaker.cooled
  /\ breaker' = [breaker EXCEPT !.cooled = TRUE]
  /\ UNCHANGED <<command, weighed>>

\* cleanOldMetrics drops what has left the window.
CleanOldMetrics ==
  \E f \in 0..breaker.failures, s \in 0..breaker.successes :
    /\ f + s < breaker.failures + breaker.successes
    /\ breaker' = [breaker EXCEPT !.failures = f, !.successes = s]
    /\ UNCHANGED <<command, weighed>>

BreakerNext ==
  \/ \E c \in Command : SendMediaCommand(c)
  \/ \E c \in Command, outcome \in Outcome : Answer(c, outcome)
  \/ CooldownElapses
  \/ CleanOldMetrics

BreakerSpec == BreakerInit /\ [][BreakerNext]_breakerVars

-----------------------------------------------------------------------------
(* Properties.                                                             *)

BreakerTypeOK ==
  /\ breaker \in [state : {"CLOSED", "OPEN", "HALF_OPEN"}, failures : 0..MetricCap + 1,
                  successes : 0..MetricCap + 1, cooled : BOOLEAN]
  /\ command \in [Command -> {"idle", "sent"}]
  /\ weighed \in 0..MinRequests

\* Once the breaker has opened, no answer, however late and whatever it says of
\* crm-media, closes it or lets a command through before cooldownMs is over:
\* commands sent earlier keep being answered all that time.
CooldownHolds ==
  [][breaker.state = "OPEN" /\ ~ breaker.cooled =>
       /\ breaker'.state = "OPEN"
       /\ \A c \in Command : command'[c] = "sent" => command[c] = "sent"]_breakerVars

\* A closed breaker opens only on outcomes recorded since it closed: what opened it
\* last time, and the failed probes of the half-open state, are not counted again.
\* An answer that does not match the schema weighs two.
OpensOnOwnEvidence ==
  [][breaker.state = "CLOSED" /\ breaker'.state = "OPEN" => weighed' >= MinRequests]_breakerVars

=============================================================================
