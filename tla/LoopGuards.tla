----------------------------- MODULE LoopGuards -----------------------------
(***************************************************************************)
(* What keeps the agent loop from going in circles: the counters of failed *)
(* and repeated tool calls, the detector of cycles, the allowances of tool *)
(* calls and prompt tokens, and the way a call takes through hooks and     *)
(* executor to the result that feeds them.  A call is told apart by its    *)
(* signature (name and arguments).  The counters belong to the agent and   *)
(* outlive a run; the flags belong to the run.                             *)
(***************************************************************************)
EXTENDS Integers, Sequences, FiniteSets

CONSTANTS Signatures,   \* calls the model may make
          MaxFailures,  \* _max_identical_failures
          MaxSuccesses, \* _max_identical_successes
          MaxCycles,    \* _max_call_cycles
          MaxToolCalls, MaxPromptTokens,   \* the allowances; a response counts as one token
          MaxIterations, MaxRuns, MaxBatch \* bounds: loop limit, runs, calls in one response

CycleWindow == 4

VARIABLES at,         \* where the loop is
          iteration, run, used, tokens,
          batch,      \* the calls of the response still to be executed
          offered,    \* the request carries the tools
          failures, repeats,       \* counters per signature, saturated at their limits
          recent, cycles, cycling, \* _call_sequence, _cycles, _cycling
          repeatDetected, repeatedSuccess,
          streak,     \* history: failed executions of a call in this run since any success
          circled     \* history: the request being made answers a cycle just noticed

loopVars == <<at, iteration, run, used, tokens, batch, offered, failures, repeats,
              recent, cycles, cycling, repeatDetected, repeatedSuccess, streak, circled>>
counters == <<failures, repeats, recent, cycles, cycling>>
flags == <<repeatDetected, repeatedSuccess>>

Zero == [s \in Signatures |-> 0]
Bump(f, s, limit) == [f EXCEPT ![s] = IF @ < limit THEN @ + 1 ELSE @]

Init == /\ at = "idle" /\ iteration = 0 /\ run = 0 /\ used = 0 /\ tokens = 0
        /\ batch = <<>> /\ offered = TRUE
        /\ failures = Zero /\ repeats = Zero /\ recent = <<>> /\ cycles = 0 /\ cycling = FALSE
        /\ repeatDetected = FALSE /\ repeatedSuccess = FALSE
        /\ streak = Zero /\ circled = FALSE

-----------------------------------------------------------------------------
\* A run has flags and allowances of its own, and inherits the counters.
StartRun ==
    /\ at = "idle" /\ run < MaxRuns /\ run' = run + 1
    /\ at' = "ask" /\ iteration' = 0 /\ used' = 0 /\ tokens' = 0
    /\ offered' = TRUE /\ repeatDetected' = FALSE /\ repeatedSuccess' = FALSE
    /\ streak' = Zero /\ circled' = FALSE
    /\ UNCHANGED <<batch, counters>>

BudgetExceeded == tokens >= MaxPromptTokens

\* The loop limit blocks the run, the token allowance ends it with a message.
GivesUp == /\ at = "ask" /\ (iteration = MaxIterations \/ BudgetExceeded)
           /\ at' = "idle"
           /\ UNCHANGED <<iteration, run, used, tokens, batch, offered, counters, flags, streak, circled>>

Asks == at = "ask" /\ iteration < MaxIterations /\ ~BudgetExceeded /\ iteration' = iteration + 1

\* A response without calls is an answer: taken, or turned down and asked again.
Answer ==
    /\ Asks /\ tokens' = tokens + 1
    /\ at' \in {"idle", "ask"} /\ circled' = FALSE
    /\ UNCHANGED <<run, used, batch, offered, counters, flags, streak>>

ResetRepeats == /\ failures' = Zero /\ repeats' = Zero
                /\ recent' = <<>> /\ cycles' = 0 /\ cycling' = FALSE

\* The failing call is asked for once more: refused, and a final answer drawn.
Refuse ==
    /\ Asks /\ repeatDetected /\ failures # Zero
    /\ tokens' = tokens + 2
    /\ at' = "idle" /\ offered' = FALSE
    /\ repeatDetected' = FALSE /\ repeatedSuccess' = FALSE
    /\ ResetRepeats
    /\ UNCHANGED <<run, used, batch, streak, circled>>

\* A response with calls: a noticed cycle withdraws the tools and is consumed.
Respond ==
    /\ Asks /\ ~(repeatDetected /\ failures # Zero)
    /\ tokens' = tokens + 1
    /\ offered' = (offered /\ ~cycling) /\ circled' = cycling
    /\ cycling' = FALSE
    /\ \E n \in 1..MaxBatch : batch' \in [1..n -> Signatures]
    /\ at' = "batch"
    /\ UNCHANGED <<run, used, failures, repeats, recent, cycles, flags, streak>>

-----------------------------------------------------------------------------
\* MutantNoteFailedCall: the limit is overlooked when it is reached.
MutantNoteFailedCall(s) ==
    /\ failures' = Bump(failures, s, MaxFailures)
    /\ repeatDetected' = (repeatDetected \/ failures[s] > MaxFailures)

NoteFailedCall(s) ==
    /\ failures' = Bump(failures, s, MaxFailures)
    /\ repeatDetected' = (repeatDetected \/ failures'[s] >= MaxFailures)

NoteRepeatCall(s) ==
    /\ repeats' = Bump(repeats, s, MaxSuccesses)
    /\ repeatedSuccess' = (repeatedSuccess \/ repeats'[s] >= MaxSuccesses)

\* The last calls that succeeded: A, B, A adds a cycle, anything else ends them.
NoteCallSequence(s) ==
    LET seen == Append(recent, s)
        n == Len(seen) IN
    /\ recent' = IF n > CycleWindow THEN Tail(seen) ELSE seen
    /\ cycles' = CASE n < 3 -> cycles
                   [] n >= 3 /\ seen[n] = seen[n - 2] /\ seen[n] # seen[n - 1] ->
                        IF cycles < MaxCycles THEN cycles + 1 ELSE cycles
                   [] OTHER -> 0
    /\ cycling' = IF n < 3 THEN cycling ELSE cycles' >= MaxCycles

Took == /\ at = "batch" /\ used < MaxToolCalls /\ used' = used + 1
        /\ batch' = Tail(batch)
        /\ at' = IF Len(batch) = 1 THEN "ask" ELSE "batch"
        /\ UNCHANGED <<iteration, run, tokens, offered, circled>>

\* Denied by a hook, unknown, not permitted, with bad arguments, timed out or
\* raised: every one of them reaches the loop as an error.
CallFails ==
    /\ Took
    /\ NoteFailedCall(Head(batch))
    /\ streak' = [streak EXCEPT ![Head(batch)] = @ + 1]
    /\ UNCHANGED <<repeats, repeatedSuccess, recent, cycles, cycling>>

\* What the handler returned, cut to its limits, is a success: an error it
\* returned as a value too, as text.
CallSucceeds ==
    /\ Took
    /\ failures' = Zero /\ repeatDetected' = FALSE
    /\ NoteRepeatCall(Head(batch)) /\ NoteCallSequence(Head(batch))
    /\ streak' = Zero

\* One call over the allowance blocks the run.
OverAllowance == /\ at = "batch" /\ used = MaxToolCalls
                 /\ at' = "idle" /\ batch' = <<>>
                 /\ UNCHANGED <<iteration, run, used, tokens, offered, counters, flags, streak, circled>>

Next == StartRun \/ GivesUp \/ Answer \/ Refuse \/ Respond \/ CallFails \/ CallSucceeds \/ OverAllowance

Spec == Init /\ [][Next]_loopVars

-----------------------------------------------------------------------------
\* However the model insists, within one run an identical call that keeps
\* failing while nothing else succeeds is executed at most until the end of the
\* response in which the limit was reached, and calls are refused only while some
\* call is at its limit (_note_failed_call, the refusal).
HopelessCallStops ==
    /\ \A s \in Signatures : streak[s] <= MaxFailures - 1 + MaxBatch
    /\ repeatDetected => \E s \in Signatures : failures[s] = MaxFailures

\* "Left set, it would withdraw tools again on every later turn of this run,
\* including after the model had moved on to different work" (_cycling is
\* consumed): a request goes out without tools only right after the cycle.
ToolsComeBack == at = "ask" /\ ~offered => circled
=============================================================================
