--------------------------- MODULE ToolExecution ---------------------------
(***************************************************************************)
(* The execution of one tool (rex/tools/execution.py): the checks before   *)
(* it, the table that answers a repeated mutation, the handler in a thread *)
(* of its own that the caller polls, abandons at its deadline or when its  *)
(* turn is cancelled, the one retry of a read, the independent verifier,   *)
(* and what is reported.                                                   *)
(*                                                                         *)
(* A call is one execute().  An abandoned handler goes on running: a       *)
(* thread cannot be stopped, so its write may land after the answer.       *)
(***************************************************************************)
EXTENDS Naturals, FiniteSets

CONSTANTS
    Calls,          \* the calls of execute()
    Keys,           \* dedupe_key: user, tool and request_id
    Args,           \* _fingerprint(args)
    Workloads,      \* what the calls may ask for, all together
    Mutations,      \* the keys of tools that mutate
    Verifiable,     \* the keys of tools with a verifier
    Sensitive,      \* the keys of tools of risk "sensitive"
    NoVerdict       \* nothing is recorded

Requests == [key : Keys, args : Args]

ASSUME ToolAssumption ==
    /\ Workloads \subseteq [Calls -> Requests]
    /\ Mutations \subseteq Keys
    /\ Verifiable \subseteq Keys
    /\ Sensitive \subseteq Keys

ToolOutcomes == {"completed", "verified", "attempted_unverified",
             "confirmation_required", "denied", "failed", "unavailable"}

\* ToolOutcome as recorded: the outcome and the arguments it is about.
Verdicts == [args : Args, outcome : ToolOutcomes]

ASSUME NoVerdictAssumption == NoVerdict \notin Verdicts

\* How a handler ends: with a result, with one that says it failed or wants
\* a confirmation, with a plain or a transient error, with one flagged
\* outcome_unknown, or with a TimeoutError of its own.
Ends == {"ok", "refused", "asks", "raised", "transient", "unknown", "stall"}

VARIABLES
    asked,      \* what each call asks for; it never changes
    stage,      \* where each call is
    tries,      \* the handlers it has submitted
    handler,    \* its last handler: none, running, or how it ended
    wrote,      \* the calls whose handler has written
    cancelled,  \* the calls whose turn is cancelled
    results,    \* _dedupe_results
    reply,      \* what the caller was told, "cancelled" for TurnCancelledError
    company     \* history: the calls of its key that were under way when a
                \* call was admitted

toolState == <<stage, tries, handler, wrote, cancelled, results, reply, company>>
toolVars == <<asked, toolState>>

KeyOf(c) == asked[c].key
ArgsOf(c) == asked[c].args

(* Every variable has its type.                                            *)
ToolTypeOK ==
    /\ asked \in Workloads
    /\ stage \in [Calls -> {"idle", "admitted", "running", "verifying", "done"}]
    /\ tries \in [Calls -> 0..2]
    /\ handler \in [Calls -> Ends \cup {"none", "running"}]
    /\ wrote \subseteq Calls
    /\ cancelled \subseteq Calls
    /\ results \in [Keys -> Verdicts \cup {NoVerdict}]
    /\ reply \in [Calls -> ToolOutcomes \cup {"none", "cancelled"}]
    /\ company \in [Calls -> SUBSET Calls]

ToolInit ==
    /\ asked \in Workloads
    /\ stage = [c \in Calls |-> "idle"]
    /\ tries = [c \in Calls |-> 0]
    /\ handler = [c \in Calls |-> "none"]
    /\ wrote = {}
    /\ cancelled = {}
    /\ results = [k \in Keys |-> NoVerdict]
    /\ reply = [c \in Calls |-> "none"]
    /\ company = [c \in Calls |-> {}]

-----------------------------------------------------------------------------
Mutates(c) == KeyOf(c) \in Mutations
UnderWay(c) == stage[c] \in {"admitted", "running", "verifying"}

\* Calls of one key that were under way at the same time.
Met(c, d) == c \in company[d] \/ d \in company[c]

Finish(c, outcome) ==
    /\ stage' = [stage EXCEPT ![c] = "done"]
    /\ reply' = [reply EXCEPT ![c] = outcome]

\* Only mutations have an entry in the table.
Record(c, outcome) ==
    results' = IF Mutates(c)
               THEN [results EXCEPT ![KeyOf(c)] = [args |-> ArgsOf(c), outcome |-> outcome]]
               ELSE results

\* Mutant of Interrupted: An interrupted mutation is not recorded.
InterruptedUnrecorded(c, readOutcome) ==
    /\ Finish(c, IF Mutates(c) THEN "attempted_unverified" ELSE readOutcome)
    /\ UNCHANGED results

\* Mutant of Interrupted: An interrupted mutation is reported as a failure.
InterruptedFailed(c, readOutcome) == Finish(c, readOutcome) /\ Record(c, readOutcome)

\* cancelled_mutation_result(), or the timeout after a possible write.
Interrupted(c, readOutcome) ==
    LET outcome == IF Mutates(c) THEN "attempted_unverified" ELSE readOutcome
    IN  Finish(c, outcome) /\ Record(c, outcome)

\* The outcomes of the checks that precede execution: configuration; then
\* arguments, identity, permissions and prohibition; then confirmation.
Refusals(c) ==
    {"unavailable", "denied"} \cup
    (IF KeyOf(c) \in Sensitive THEN {"confirmation_required"} ELSE {})

-----------------------------------------------------------------------------
(* The caller.                                                             *)

\* Nothing keeps two calls of one key apart.
Begins(c) ==
    /\ stage[c] = "idle"
    /\ UNCHANGED <<tries, handler, wrote, cancelled, results>>

\* raise_if_cancelled() at the head of execute().
BeginCancelled(c) ==
    /\ Begins(c) /\ c \in cancelled
    /\ Finish(c, "cancelled")
    /\ UNCHANGED company

Refuse(c) ==
    /\ Begins(c)
    /\ c \notin cancelled
    /\ \E outcome \in Refusals(c) : Finish(c, outcome)
    /\ UNCHANGED company

\* What the table has to say of a mutation that was asked for before.
Prior(c) ==
    IF results[KeyOf(c)].args = ArgsOf(c) THEN results[KeyOf(c)].outcome ELSE "denied"

\* Mutant of Known: what could not be verified may be tried again.
KnownSettled(c) ==
    /\ Mutates(c) /\ results[KeyOf(c)] # NoVerdict
    /\ results[KeyOf(c)].outcome # "attempted_unverified"

Known(c) == Mutates(c) /\ results[KeyOf(c)] # NoVerdict

Replay(c) ==
    /\ Begins(c)
    /\ c \notin cancelled
    /\ Known(c)
    /\ Finish(c, Prior(c))
    /\ UNCHANGED company

Admit(c) ==
    /\ Begins(c)
    /\ c \notin cancelled
    /\ ~Known(c)
    /\ stage' = [stage EXCEPT ![c] = "admitted"]
    /\ company' = [company EXCEPT ![c] = {d \in Calls : UnderWay(d) /\ KeyOf(d) = KeyOf(c)}]
    /\ UNCHANGED reply

\* The head of the attempt loop: the lock of the table is long released.
LaunchCancelled(c) ==
    /\ stage[c] = "admitted"
    /\ c \in cancelled
    /\ Finish(c, "cancelled")
    /\ UNCHANGED <<tries, handler, wrote, cancelled, results, company>>

Launch(c) ==
    /\ stage[c] = "admitted"
    /\ c \notin cancelled
    /\ stage' = [stage EXCEPT ![c] = "running"]
    /\ tries' = [tries EXCEPT ![c] = @ + 1]
    /\ handler' = [handler EXCEPT ![c] = "running"]
    /\ UNCHANGED <<wrote, cancelled, results, reply, company>>

SeeCancel(c) ==
    /\ stage[c] = "running"
    /\ c \in cancelled
    /\ Interrupted(c, "cancelled")
    /\ UNCHANGED <<tries, handler, wrote, cancelled, company>>

\* Mutant of TimeOut: The caller waits for its handler, whatever the time.
TimeOutOfEnded(c) ==
    /\ stage[c] = "running"
    /\ handler[c] # "running"
    /\ Interrupted(c, "failed")
    /\ UNCHANGED <<tries, handler, wrote, cancelled, company>>

\* The deadline may pass before the caller looks at a handler that has ended.
TimeOut(c) ==
    /\ stage[c] = "running"
    /\ Interrupted(c, "failed")
    /\ UNCHANGED <<tries, handler, wrote, cancelled, company>>

\* The poll returns what the handler returned or raised.  A TimeoutError of
\* the handler is not told from the poll's own (they are one class since
\* Python 3.11), so it is polled again until the deadline.
Collects(c, ends) ==
    /\ stage[c] = "running"
    /\ c \notin cancelled
    /\ handler[c] \in ends
    /\ UNCHANGED <<tries, handler, wrote, cancelled, company>>

CollectNormalized(c) ==
    LET outcome == IF handler[c] = "refused" THEN "failed" ELSE "confirmation_required"
    IN  /\ Collects(c, {"refused", "asks"})
        /\ Finish(c, outcome)
        /\ Record(c, outcome)

CollectRead(c) ==
    /\ Collects(c, {"ok"})
    /\ ~Mutates(c)
    /\ Finish(c, "completed")
    /\ UNCHANGED results

CollectUnverified(c) ==
    /\ Collects(c, {"ok", "unknown"})
    /\ Mutates(c)
    /\ KeyOf(c) \notin Verifiable
    /\ Finish(c, "attempted_unverified")
    /\ Record(c, "attempted_unverified")

CollectToVerify(c) ==
    /\ Collects(c, {"ok", "unknown"})
    /\ Mutates(c)
    /\ KeyOf(c) \in Verifiable
    /\ stage' = [stage EXCEPT ![c] = "verifying"]
    /\ UNCHANGED <<results, reply>>

\* A plain error is a failure and is not recorded: a repetition runs again.
CollectError(c) ==
    /\ Collects(c, {"raised", "transient"})
    /\ handler[c] = "transient" => tries[c] = 2
    /\ Finish(c, "failed")
    /\ UNCHANGED results

Retry(c) ==
    /\ Collects(c, {"transient"})
    /\ tries[c] = 1
    /\ stage' = [stage EXCEPT ![c] = "admitted"]
    /\ UNCHANGED <<results, reply>>

\* The verifier looks at the world: it sees only what somebody wrote.  One
\* that raises, or looks too early, verifies nothing.
Shows(c) == \E d \in wrote : ArgsOf(d) = ArgsOf(c)

\* Mutant of Verify: A verifier that raises counts as one that verified.
VerifyAnything(c) ==
    /\ stage[c] = "verifying"
    /\ \E seen \in {Shows(c), TRUE} :
         LET outcome == IF seen THEN "verified" ELSE "attempted_unverified"
         IN  Finish(c, outcome) /\ Record(c, outcome)
    /\ UNCHANGED <<tries, handler, wrote, cancelled, company>>

Verify(c) ==
    /\ stage[c] = "verifying"
    /\ \E seen \in {Shows(c), FALSE} :
         LET outcome == IF seen THEN "verified" ELSE "attempted_unverified"
         IN  Finish(c, outcome) /\ Record(c, outcome)
    /\ UNCHANGED <<tries, handler, wrote, cancelled, company>>

-----------------------------------------------------------------------------
(* The handler's thread, and the cancellation of the turn.                 *)

Write(c) ==
    /\ handler[c] = "running"
    /\ Mutates(c)
    /\ c \notin wrote
    /\ wrote' = wrote \cup {c}
    /\ UNCHANGED <<stage, tries, handler, cancelled, results, reply, company>>

\* A handler whose result says that it failed, or wants a confirmation first,
\* has written nothing; one that raises may have, whatever it raises.
MayEnd(c, end) ==
    /\ end = "transient" => ~Mutates(c)
    /\ end = "unknown" => Mutates(c)
    /\ end \in {"refused", "asks"} => c \notin wrote

End(c) ==
    /\ handler[c] = "running"
    /\ \E end \in Ends :
         /\ MayEnd(c, end)
         /\ handler' = [handler EXCEPT ![c] = end]
    /\ UNCHANGED <<stage, tries, wrote, cancelled, results, reply, company>>

Cancel(c) ==
    /\ stage[c] # "done"
    /\ c \notin cancelled
    /\ cancelled' = cancelled \cup {c}
    /\ UNCHANGED <<stage, tries, handler, wrote, results, reply, company>>

-----------------------------------------------------------------------------
Checks(c) == BeginCancelled(c) \/ Refuse(c) \/ Replay(c) \/ Admit(c)

Collect(c) ==
    \/ CollectNormalized(c) \/ CollectRead(c) \/ CollectUnverified(c)
    \/ CollectToVerify(c) \/ CollectError(c) \/ Retry(c)

Poll(c) == SeeCancel(c) \/ TimeOut(c) \/ Collect(c)

Attempt(c) == LaunchCancelled(c) \/ Launch(c)

Step(c) ==
    \/ Checks(c) \/ Attempt(c) \/ Poll(c) \/ Verify(c)
    \/ Write(c) \/ End(c) \/ Cancel(c)

ToolNext == (\E c \in Calls : Step(c)) /\ UNCHANGED asked

ToolSpec == ToolInit /\ [][ToolNext]_toolVars

\* The caller's thread runs and its clock reaches the deadline; a verifier
\* returns.  Nothing is assumed of handlers, which may run for ever.
ToolFairSpec ==
    /\ ToolSpec
    /\ \A c \in Calls :
         /\ WF_toolVars(Attempt(c) /\ UNCHANGED asked)
         /\ WF_toolVars(Poll(c) /\ UNCHANGED asked)
         /\ WF_toolVars(Verify(c) /\ UNCHANGED asked)

-----------------------------------------------------------------------------
(* Properties.                                                             *)

\* A plain error was reported as a failure: nothing is recorded of the call.
Misreported(c) == handler[c] = "raised" /\ reply[c] = "failed"

\* However often a request is repeated, and whatever became of the calls
\* before, handlers that were abandoned included, what it asks for is written
\* a second time only by a call that was under way together with the first,
\* or because one of the two raised a plain error.
RewritesHaveCause ==
    \A c, d \in wrote :
        KeyOf(c) = KeyOf(d) /\ c # d => Met(c, d) \/ Misreported(c) \/ Misreported(d)

\* No failure is made up: a mutation reported as failed, denied or in need of
\* a confirmation has written nothing and never will, unless its own handler
\* raised a plain error after it wrote.
FailureIsTheHandlers ==
    \A c \in Calls :
        (Mutates(c) /\ reply[c] \in ToolOutcomes \ {"verified", "attempted_unverified"})
        => handler[c] # "running" /\ (c \in wrote => handler[c] = "raised")

\* What docs/tool-execution-contract.md says: duplicate requests of mutations
\* are not executed.  Two calls that overlap both are.
AtMostOneWrite ==
    \A c, d \in wrote : KeyOf(c) = KeyOf(d) => c = d

\* What the production readiness specification says: after a mutation whose
\* transport was lost an unknown outcome is never reported as a failure.  A
\* handler's plain error is, though the handler has written.
FailureIsHonest ==
    \A c \in Calls :
        (Mutates(c) /\ reply[c] \in ToolOutcomes \ {"verified", "attempted_unverified"})
        => c \notin wrote /\ handler[c] # "running"

\* Success is reported of a mutation only if somebody did write it, to the
\* caller that is answered from the table too.
VerifiedIsTrue ==
    \A c \in Calls : (Mutates(c) /\ reply[c] \in {"completed", "verified"}) => Shows(c)

\* What was recorded of a request is revised only by a call of it that was
\* under way together with another one.
RevisedInCompany ==
    [][\A k \in Keys : results[k] # NoVerdict /\ results'[k] # results[k]
          => \E c, d \in Calls : KeyOf(c) = k /\ UnderWay(c) /\ ~UnderWay(c)' /\ Met(c, d)]_toolVars

\* Every call is answered, even if its handler hangs: again and again none is
\* under way.
Answered == []<>(\A c \in Calls : stage[c] \in {"idle", "done"})
=============================================================================
