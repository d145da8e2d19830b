------------------------------ MODULE SshRetry ------------------------------
(***************************************************************************)
(* RunCommandOnNodeWithRetry (shared/ssh.go): a command is run on a node   *)
(* up to Attempts times, a ticker paces the attempts and the deadline of a *)
(* context bounds them all.  Time is counted from the call.  With go 1.23  *)
(* (go.mod) Reset discards a tick that has not been received.              *)
(***************************************************************************)
EXTENDS Integers

CONSTANTS
    AttemptCounts,  \* values of cfg.Attempts
    Delays,         \* values of cfg.Delay
    Durations       \* how long RunCommandOnNode may take: it has no limit of its own

ASSUME SshRetryConstants ==
    /\ AttemptCounts \subseteq Nat \ {0}
    /\ Delays \subseteq Nat \ {0}
    /\ Durations \subseteq Nat

VARIABLES
    attempts, delay,  \* cfg.Attempts and cfg.Delay, with a DelayMultiplier of 1
    stage,    \* "run", "select", or how the call ended: "ok", "failed", "timeout"
    attempt,  \* the current attempt
    now,      \* time since the call
    tick,     \* when the ticker fires next
    busy      \* history: time spent in the command

retryVars == <<attempts, delay, stage, attempt, now, tick, busy>>

\* mutant: every attempt may take a second delay
TotalDoubled == 2 * attempts * delay

\* The deadline of the context.
Total == (attempts - 1) * delay

RetryInit ==
    /\ attempts \in AttemptCounts /\ delay \in Delays
    /\ stage = "run" /\ attempt = 1
    /\ now = 0 /\ tick = delay /\ busy = 0

\* mutant: a tick that fired during the command is kept, as before go 1.23
ResetKeepsTick(end) == IF end >= tick THEN end ELSE end + delay

\* mutant: the time to the next tick has the wrong sign
ResetBackwards(end) == end - delay

\* ticker.Reset at time end.
Reset(end) == end + delay

\* RunCommandOnNode, and fatalSSHError for its error.
RunAttempt ==
    /\ stage = "run"
    /\ \E d \in Durations :
          /\ now' = now + d
          /\ busy' = busy + d
    /\ \/ stage' = "ok" /\ UNCHANGED tick
       \/ stage' = "failed" /\ UNCHANGED tick
       \/ attempt < attempts /\ stage' = "select" /\ tick' = Reset(now')
    /\ UNCHANGED <<attempts, delay, attempt>>

\* mutant: only the ticker is waited for
TickOnly ==
    /\ stage = "select"
    /\ now' = tick
    /\ stage' = "run"
    /\ attempt' = attempt + 1
    /\ UNCHANGED <<attempts, delay, tick, busy>>

\* The ticker fires before the deadline, or together with it.
Tick ==
    /\ stage = "select"
    /\ tick <= Total
    /\ now' = tick
    /\ stage' = "run"
    /\ attempt' = attempt + 1
    /\ UNCHANGED <<attempts, delay, tick, busy>>

\* The context is done before the ticker fires, or together with it.
Timeout ==
    /\ stage = "select"
    /\ Total <= tick
    /\ now' = IF now < Total THEN Total ELSE now
    /\ stage' = "timeout"
    /\ UNCHANGED <<attempts, delay, attempt, tick, busy>>

RetryEnded == stage \in {"ok", "failed", "timeout"} /\ UNCHANGED retryVars

RetryNext == RunAttempt \/ Tick \/ Timeout \/ RetryEnded

RetrySpec == RetryInit /\ [][RetryNext]_retryVars

-----------------------------------------------------------------------------
(* Properties *)

RetryTypeOK ==
    /\ attempts \in AttemptCounts /\ delay \in Delays
    /\ stage \in {"run", "select", "ok", "failed", "timeout"}
    /\ attempt \in 1..attempts
    /\ now \in Nat /\ tick \in Nat /\ busy \in Nat

\* A full delay passes between the end of an attempt and the next one, however long the
\* attempts take: the node is never asked twice in a row.
RetriesAreSpaced == now >= (attempt - 1) * delay + busy

\* No attempt begins after the deadline, and the call ends no later than one command
\* after it.
StartsInTime ==
    /\ stage = "run" => now <= Total
    /\ stage # "timeout" /\ now > Total => \E d \in Durations : now <= Total + d

\* The deadline leaves no time for the commands: the last attempt is only made when all
\* the attempts before it took no time.
LastAttemptIsLost == stage = "run" /\ attempt = attempts => busy = 0

\* Ticker, reset and deadline together keep the attempts apart and in time, whether the
\* commands are shorter or longer than the delay.
RetriesAreTimed == RetriesAreSpaced /\ StartsInTime /\ LastAttemptIsLost
=============================================================================
