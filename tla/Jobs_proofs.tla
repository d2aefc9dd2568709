----------------------------- MODULE Jobs_proofs ------------------------------
(***************************************************************************)
(* Proofs about what is done for the user in threads and processes he does *)
(* not wait for: ToolExecution, ServiceSupervisor with its scheduler and   *)
(* reminders, and FollowUps, which share no state.                         *)
(*                                                                         *)
(* ToolExecution: for any calls, tools and workload, overlapping calls of a *)
(* request and handlers that raise after they wrote included.  Success is   *)
(* only reported of what was written; a second write, a failure that is     *)
(* reported of a write and a verdict that is revised have a cause, which is *)
(* one of those two.                                                        *)
(*                                                                         *)
(* ServiceSupervisor: for any jobs, threads and reminders.  While a single *)
(* thread is in the reminder callback, a reminder that is pending has been *)
(* notified once per crash at most.                                        *)
(*                                                                         *)
(* FollowUps: for any sources and sessions.  As long as no process has      *)
(* erased what another saved, the file knows what the user was asked about.*)
(***************************************************************************)
EXTENDS ToolExecution, ServiceSupervisor, FollowUps, TLAPS

-----------------------------------------------------------------------------
(* ToolExecution.                                                           *)

-----------------------------------------------------------------------------
(* The forms of a step.  A call ends with an answer alone, or concludes a  *)
(* mutation with an answer that is recorded; the other steps end no call.  *)

SameDeeds == UNCHANGED <<asked, tries, handler, wrote, cancelled, company>>

Answers(c) ==
    /\ SameDeeds
    /\ results' = results
    /\ \E o \in ToolOutcomes \cup {"cancelled"} :
         /\ Finish(c, o)
         /\ \/ stage[c] \in {"idle", "admitted"} /\ o \in Refusals(c) \cup {"cancelled"}
            \/ stage[c] = "idle" /\ Known(c) /\ o = Prior(c)
            \/ stage[c] = "running" /\ ~Mutates(c)
            \/ stage[c] = "running" /\ o = "failed" /\ handler[c] \in {"raised", "transient"}

Concludes(c) ==
    /\ SameDeeds
    /\ Mutates(c)
    /\ stage[c] \in {"running", "verifying"}
    /\ \E o \in ToolOutcomes :
         /\ Finish(c, o)
         /\ Record(c, o)
         /\ \/ o = "attempted_unverified"
            \/ o \in {"failed", "confirmation_required"} /\ handler[c] \in {"refused", "asks"}
            \/ o = "verified" /\ Shows(c)

LEMMA RecordOfRead ==
    ASSUME NEW c, NEW o, ~Mutates(c), Record(c, o)
    PROVE  results' = results
BY DEF Record

\* Types, how many handlers a call may have submitted, and that only the
\* outcome of a mutation is verified.
TypeInv ==
    /\ ToolTypeOK
    /\ \A c \in Calls : /\ stage[c] \in {"idle", "admitted"} => tries[c] <= 1
                        /\ stage[c] = "verifying" => Mutates(c)

\* An interrupted call answers or concludes.
LEMMA Interruption ==
    ASSUME NEW c \in Calls, NEW o \in {"cancelled", "failed"}, stage[c] = "running",
           Interrupted(c, o), SameDeeds
    PROVE  Answers(c) \/ Concludes(c)
<1>0. "attempted_unverified" \in ToolOutcomes /\ "failed" \in ToolOutcomes
  BY DEF ToolOutcomes
<1>1. CASE Mutates(c)
  <2>1. Finish(c, "attempted_unverified") /\ Record(c, "attempted_unverified")
    BY <1>1 DEF Interrupted
  <2> QED
    BY <1>0, <1>1, <2>1 DEF Concludes
<1>2. CASE ~Mutates(c)
  <2>1. Finish(c, o) /\ results' = results
    BY <1>2 DEF Interrupted, Record
  <2> QED
    BY <1>0, <1>2, <2>1 DEF Answers
<1> QED
  BY <1>1, <1>2

LEMMA Forms ==
    ASSUME TypeInv, NEW c \in Calls, Step(c), UNCHANGED asked
    PROVE  \/ Answers(c) \/ Concludes(c)
           \/ Admit(c) \/ Retry(c) \/ CollectToVerify(c) \/ Launch(c)
           \/ Write(c) \/ End(c) \/ Cancel(c)
<1>0. {"failed", "completed", "attempted_unverified", "confirmation_required", "verified",
       "unavailable", "denied"} = ToolOutcomes
  BY DEF ToolOutcomes
<1>1. CASE BeginCancelled(c) \/ LaunchCancelled(c)
  <2>1. /\ Finish(c, "cancelled") /\ SameDeeds /\ results' = results
        /\ stage[c] \in {"idle", "admitted"}
    BY <1>1 DEF BeginCancelled, LaunchCancelled, Begins, SameDeeds
  <2> QED
    BY <2>1 DEF Answers
<1>2. CASE Refuse(c)
  <2>1. PICK o \in Refusals(c) : Finish(c, o)
    BY <1>2 DEF Refuse
  <2>2. o \in ToolOutcomes
    BY <2>1, <1>0 DEF Refusals
  <2>3. SameDeeds /\ results' = results /\ stage[c] = "idle"
    BY <1>2 DEF Refuse, Begins, SameDeeds
  <2> QED
    BY <2>1, <2>2, <2>3 DEF Answers
<1>3. CASE Replay(c)
  <2>1. Known(c) /\ Finish(c, Prior(c)) /\ stage[c] = "idle" /\ SameDeeds /\ results' = results
    BY <1>3 DEF Replay, Begins, SameDeeds
  <2>2. KeyOf(c) \in Keys
    BY ToolAssumption DEF TypeInv, ToolTypeOK, Requests, KeyOf
  <2>3. results[KeyOf(c)] \in Verdicts
    BY <2>1, <2>2 DEF Known, TypeInv, ToolTypeOK
  <2>4. Prior(c) \in ToolOutcomes
    BY <2>3, <1>0 DEF Prior, Verdicts
  <2> QED
    BY <2>1, <2>4 DEF Answers
<1>4. CASE SeeCancel(c)
  <2>1. stage[c] = "running" /\ Interrupted(c, "cancelled") /\ SameDeeds
    BY <1>4 DEF SeeCancel, SameDeeds
  <2> QED
    BY <2>1, Interruption
<1>5. CASE TimeOut(c)
  <2>1. stage[c] = "running" /\ Interrupted(c, "failed") /\ SameDeeds
    BY <1>5 DEF TimeOut, SameDeeds
  <2> QED
    BY <2>1, Interruption
<1>6. CASE CollectNormalized(c)
  <2>1. PICK o \in {"failed", "confirmation_required"} : Finish(c, o) /\ Record(c, o)
    BY <1>6 DEF CollectNormalized
  <2>2. stage[c] = "running" /\ handler[c] \in {"refused", "asks"} /\ SameDeeds
    BY <1>6 DEF CollectNormalized, Collects, SameDeeds
  <2>3. CASE Mutates(c)
    BY <2>1, <2>2, <2>3, <1>0 DEF Concludes
  <2>4. CASE ~Mutates(c)
    BY <2>1, <2>2, <2>4, <1>0, RecordOfRead DEF Answers
  <2> QED
    BY <2>3, <2>4
<1>7. CASE CollectRead(c)
  <2>1. stage[c] = "running" /\ ~Mutates(c) /\ Finish(c, "completed") /\ SameDeeds /\ results' = results
    BY <1>7 DEF CollectRead, Collects, SameDeeds
  <2> QED
    BY <2>1, <1>0 DEF Answers
<1>8. CASE CollectUnverified(c)
  <2>1. /\ stage[c] = "running" /\ Mutates(c) /\ SameDeeds
        /\ Finish(c, "attempted_unverified") /\ Record(c, "attempted_unverified")
    BY <1>8 DEF CollectUnverified, Collects, SameDeeds
  <2> QED
    BY <2>1, <1>0 DEF Concludes
<1>9. CASE CollectError(c)
  <2>1. /\ stage[c] = "running" /\ handler[c] \in {"raised", "transient"}
        /\ Finish(c, "failed") /\ SameDeeds /\ results' = results
    BY <1>9 DEF CollectError, Collects, SameDeeds
  <2> QED
    BY <2>1, <1>0 DEF Answers
<1>10. CASE Verify(c)
  <2>1. stage[c] = "verifying" /\ SameDeeds
    BY <1>10 DEF Verify, SameDeeds
  <2>2. PICK seen \in {Shows(c), FALSE} :
           LET outcome == IF seen THEN "verified" ELSE "attempted_unverified"
           IN  Finish(c, outcome) /\ Record(c, outcome)
    BY <1>10 DEF Verify
  <2>3. Mutates(c)
    BY <2>1 DEF TypeInv
  <2>4. CASE seen
    BY <2>1, <2>2, <2>3, <2>4, <1>0 DEF Concludes
  <2>5. CASE ~seen
    BY <2>1, <2>2, <2>3, <2>5, <1>0 DEF Concludes
  <2> QED
    BY <2>2, <2>4, <2>5
<1> QED
  BY <1>1, <1>2, <1>3, <1>4, <1>5, <1>6, <1>7, <1>8, <1>9, <1>10
     DEF Step, Checks, Attempt, Poll, Collect

-----------------------------------------------------------------------------
(* Types.                                                                  *)

LEMMA AskedTypes ==
    ASSUME asked \in Workloads, NEW c \in Calls
    PROVE  asked[c] \in Requests /\ KeyOf(c) \in Keys /\ ArgsOf(c) \in Args
<1>1. asked[c] \in Requests
  BY ToolAssumption
<1> QED
  BY <1>1 DEF Requests, KeyOf, ArgsOf

LEMMA FinishTypes ==
    ASSUME ToolTypeOK, NEW c \in Calls,
           NEW o \in ToolOutcomes \cup {"cancelled"}, Finish(c, o)
    PROVE  /\ stage' \in [Calls -> {"idle", "admitted", "running", "verifying", "done"}]
           /\ reply' \in [Calls -> ToolOutcomes \cup {"none", "cancelled"}]
           /\ stage'[c] = "done"
           /\ \A d \in Calls \ {c} : stage'[d] = stage[d] /\ reply'[d] = reply[d]
BY DEF ToolTypeOK, Finish

LEMMA RecordTypes ==
    ASSUME ToolTypeOK, NEW c \in Calls, NEW o \in ToolOutcomes, Record(c, o)
    PROVE  results' \in [Keys -> Verdicts \cup {NoVerdict}]
<1>1. [args |-> ArgsOf(c), outcome |-> o] \in Verdicts
  BY AskedTypes DEF ToolTypeOK, Verdicts
<1> QED
  BY <1>1 DEF ToolTypeOK, Record

LEMMA TypeStep == TypeInv /\ [ToolNext]_toolVars => TypeInv'
<1> SUFFICES ASSUME TypeInv, [ToolNext]_toolVars PROVE TypeInv'
  OBVIOUS
<1> USE DEF TypeInv
<1>1. CASE UNCHANGED toolVars
  BY <1>1 DEF toolVars, toolState, ToolTypeOK, Mutates, KeyOf
<1>2. CASE ToolNext
  <2>1. PICK c \in Calls : Step(c) /\ UNCHANGED asked
    BY <1>2 DEF ToolNext
  <2>0. \A d \in Calls : Mutates(d)' = Mutates(d)
    BY <2>1 DEF Mutates, KeyOf
  <2>2. CASE Answers(c)
    <3>1. PICK o \in ToolOutcomes \cup {"cancelled"} : Finish(c, o)
      BY <2>2 DEF Answers
    <3>2. SameDeeds /\ results' = results
      BY <2>2 DEF Answers
    <3>3. ToolTypeOK'
      BY <3>1, <3>2, FinishTypes DEF ToolTypeOK, SameDeeds
    <3> QED
      BY <2>0, <3>1, <3>2, <3>3, FinishTypes DEF SameDeeds
  <2>3. CASE Concludes(c)
    <3>1. PICK o \in ToolOutcomes : Finish(c, o) /\ Record(c, o)
      BY <2>3 DEF Concludes
    <3>2. SameDeeds
      BY <2>3 DEF Concludes
    <3>3. ToolTypeOK'
      BY <3>1, <3>2, FinishTypes, RecordTypes DEF ToolTypeOK, SameDeeds
    <3> QED
      BY <2>0, <3>1, <3>2, <3>3, FinishTypes DEF SameDeeds
  <2>4. CASE Admit(c)
    BY <2>0, <2>1, <2>4 DEF Admit, Begins, ToolTypeOK
  <2>5. CASE Retry(c)
    BY <2>0, <2>1, <2>5 DEF Retry, Collects, ToolTypeOK
  <2>6. CASE CollectToVerify(c)
    BY <2>0, <2>1, <2>6 DEF CollectToVerify, Collects, ToolTypeOK
  <2>7. CASE Launch(c)
    <3>1. tries[c] + 1 \in 0..2
      BY <2>7 DEF Launch, ToolTypeOK
    <3> QED
      BY <2>0, <2>1, <2>7, <3>1 DEF Launch, ToolTypeOK
  <2>8. CASE Write(c)
    BY <2>0, <2>1, <2>8 DEF Write, ToolTypeOK
  <2>9. CASE End(c)
    BY <2>0, <2>1, <2>9 DEF End, ToolTypeOK
  <2>10. CASE Cancel(c)
    BY <2>0, <2>1, <2>10 DEF Cancel, ToolTypeOK
  <2> QED
    BY <2>1, <2>2, <2>3, <2>4, <2>5, <2>6, <2>7, <2>8, <2>9, <2>10, Forms
<1> QED
  BY <1>1, <1>2

LEMMA TypeInit == ToolInit => TypeInv
BY DEF ToolInit, TypeInv, ToolTypeOK

\* Every variable keeps its type; in particular no call submits a third
\* handler.
THEOREM ToolTypesHold == ToolSpec => []ToolTypeOK
<1>1. TypeInv => ToolTypeOK
  BY DEF TypeInv
<1> QED
  BY <1>1, TypeInit, TypeStep, PTL DEF ToolSpec

-----------------------------------------------------------------------------
(* Success is reported only of what was written.                           *)

Successes == {"completed", "verified"}

TableTrue ==
    \A k \in Mutations : (results[k] # NoVerdict /\ results[k].outcome \in Successes)
                         => \E d \in wrote : ArgsOf(d) = results[k].args

Truth == TypeInv /\ TableTrue /\ VerifiedIsTrue

LEMMA NoSuccess ==
    /\ Successes \cap {"attempted_unverified", "confirmation_required", "denied", "failed",
                       "unavailable", "cancelled", "none"} = {}
    /\ Successes \subseteq ToolOutcomes
BY DEF Successes, ToolOutcomes

LEMMA TruthStep == Truth /\ [ToolNext]_toolVars => Truth'
<1> SUFFICES ASSUME Truth, [ToolNext]_toolVars PROVE TableTrue' /\ VerifiedIsTrue'
  BY TypeStep DEF Truth
<1> USE DEF Truth
<1>1. CASE UNCHANGED toolVars
  BY <1>1 DEF toolVars, toolState, TableTrue, VerifiedIsTrue, Mutates, Shows, KeyOf, ArgsOf
<1>2. CASE ToolNext
  <2>1. PICK c \in Calls : Step(c) /\ UNCHANGED asked
    BY <1>2 DEF ToolNext
  <2>2. /\ \A d : Mutates(d)' = Mutates(d) /\ KeyOf(d)' = KeyOf(d) /\ ArgsOf(d)' = ArgsOf(d)
        /\ asked \in Workloads
    BY <2>1 DEF Mutates, KeyOf, ArgsOf, TypeInv, ToolTypeOK
  <2>3. CASE Answers(c)
    <3>1. PICK o \in ToolOutcomes \cup {"cancelled"} :
            /\ Finish(c, o)
            /\ \/ stage[c] \in {"idle", "admitted"} /\ o \in Refusals(c) \cup {"cancelled"}
               \/ stage[c] = "idle" /\ Known(c) /\ o = Prior(c)
               \/ stage[c] = "running" /\ ~Mutates(c)
               \/ stage[c] = "running" /\ o = "failed" /\ handler[c] \in {"raised", "transient"}
      BY <2>3 DEF Answers
    <3>2. SameDeeds /\ results' = results
      BY <2>3 DEF Answers
    <3>3. TableTrue'
      BY <2>2, <3>2 DEF TableTrue, SameDeeds
    <3>4. (Mutates(c) /\ o \in Successes) => Shows(c)
      <4> SUFFICES ASSUME Mutates(c), o \in Successes PROVE Shows(c)
        OBVIOUS
      <4>1. Known(c) /\ o = Prior(c)
        BY <3>1, NoSuccess DEF Refusals
      <4>2. results[KeyOf(c)].args = ArgsOf(c) /\ results[KeyOf(c)].outcome = o
        BY <4>1, NoSuccess DEF Prior
      <4> QED
        BY <4>1, <4>2 DEF Known, Mutates, TableTrue, Shows
    <3>5. \A d \in Calls : Shows(d)' = Shows(d)
      BY <2>2, <3>2 DEF Shows, SameDeeds
    <3>6. reply'[c] = o /\ \A d \in Calls \ {c} : reply'[d] = reply[d]
      BY <3>1 DEF Finish, TypeInv, ToolTypeOK
    <3>7. VerifiedIsTrue'
      BY <2>2, <3>4, <3>5, <3>6 DEF VerifiedIsTrue, Successes
    <3> QED
      BY <3>3, <3>7
  <2>4. CASE Concludes(c)
    <3>1. PICK o \in ToolOutcomes :
            /\ Finish(c, o)
            /\ Record(c, o)
            /\ \/ o = "attempted_unverified"
               \/ o \in {"failed", "confirmation_required"} /\ handler[c] \in {"refused", "asks"}
               \/ o = "verified" /\ Shows(c)
      BY <2>4 DEF Concludes
    <3>2. SameDeeds /\ Mutates(c)
      BY <2>4 DEF Concludes
    <3>3. o \in Successes => Shows(c)
      BY <3>1, NoSuccess
    <3>4. \A d \in Calls : Shows(d)' = Shows(d)
      BY <2>2, <3>2 DEF Shows, SameDeeds
    <3>5. reply'[c] = o /\ \A d \in Calls \ {c} : reply'[d] = reply[d]
      BY <3>1 DEF Finish, TypeInv, ToolTypeOK
    <3>6. results' = [results EXCEPT ![KeyOf(c)] = [args |-> ArgsOf(c), outcome |-> o]]
      BY <3>1, <3>2 DEF Record
    <3>7. TableTrue'
      <4> SUFFICES ASSUME NEW k \in Mutations, results'[k] # NoVerdict, results'[k].outcome \in Successes
                   PROVE  \E d \in wrote : ArgsOf(d) = results'[k].args
        BY <2>2, <3>2 DEF TableTrue, SameDeeds
      <4>0. k \in Keys /\ results \in [Keys -> Verdicts \cup {NoVerdict}]
        BY ToolAssumption DEF TypeInv, ToolTypeOK
      <4>1. CASE k = KeyOf(c)
        BY <3>3, <3>6, <4>0, <4>1 DEF Shows
      <4>2. CASE k # KeyOf(c)
        BY <3>6, <4>0, <4>2 DEF TableTrue
      <4> QED
        BY <4>1, <4>2
    <3>8. VerifiedIsTrue'
      BY <2>2, <3>3, <3>4, <3>5 DEF VerifiedIsTrue, Successes
    <3> QED
      BY <3>7, <3>8
  <2>5. CASE \/ Admit(c) \/ Retry(c) \/ CollectToVerify(c) \/ Launch(c) \/ End(c) \/ Cancel(c)
    <3>1. UNCHANGED <<results, reply, wrote>>
      BY <2>5 DEF Admit, Begins, Retry, CollectToVerify, Collects, Launch, End, Cancel
    <3> QED
      BY <2>2, <3>1 DEF TableTrue, VerifiedIsTrue, Shows
  <2>6. CASE Write(c)
    <3>1. UNCHANGED <<results, reply>> /\ wrote \subseteq wrote'
      BY <2>6 DEF Write
    <3>2. \A d \in Calls : Shows(d) => Shows(d)'
      BY <2>2, <3>1 DEF Shows
    <3>3. TableTrue'
      BY <2>2, <3>1 DEF TableTrue
    <3>4. VerifiedIsTrue'
      BY <2>2, <3>1, <3>2 DEF VerifiedIsTrue
    <3> QED
      BY <3>3, <3>4
  <2> QED
    BY <2>1, <2>3, <2>4, <2>5, <2>6, Forms
<1> QED
  BY <1>1, <1>2

LEMMA TruthInit == ToolInit => Truth
<1> SUFFICES ASSUME ToolInit PROVE TableTrue /\ VerifiedIsTrue
  BY TypeInit DEF Truth
<1>1. TableTrue
  BY ToolAssumption DEF ToolInit, TableTrue
<1>2. VerifiedIsTrue
  BY DEF ToolInit, VerifiedIsTrue
<1> QED
  BY <1>1, <1>2

\* A mutation is reported as verified, or completed, only if somebody wrote
\* what it asks for; so is one that is answered from the table.
THEOREM SuccessIsTrue == ToolSpec => []VerifiedIsTrue
<1>1. Truth => VerifiedIsTrue
  BY DEF Truth
<1> QED
  BY <1>1, TruthInit, TruthStep, PTL DEF ToolSpec

-----------------------------------------------------------------------------
(* Once: what a call under way knows of the other calls of its request.    *)
(* RewritesHaveCause alone is not inductive: a call that is about to       *)
(* launch must know that a handler that has written or still may, one that *)
(* was abandoned included, belongs to a call it was under way with         *)
(* (Together), or left a verdict behind, with which no call would have     *)
(* been admitted, or raised a plain error (Settled).                       *)

MayWrite(c) == handler[c] = "running" \/ c \in wrote

\* Two calls of one request.
Twins(c, d) == c # d /\ KeyOf(c) = KeyOf(d)

Together == \A c, d \in Calls : UnderWay(c) /\ UnderWay(d) /\ Twins(c, d) => Met(c, d)

Accompanied ==
    \A c \in Calls : (Mutates(c) /\ UnderWay(c) /\ results[KeyOf(c)] # NoVerdict)
                     => \E d \in Calls : Met(c, d)

Settled ==
    \A c \in Calls : (Mutates(c) /\ MayWrite(c) /\ ~UnderWay(c))
                     => results[KeyOf(c)] # NoVerdict \/ Misreported(c)

\* What a handler that has not started, or says that it failed, has written,
\* and that a call that is not admitted has met nobody.
HandlerClean ==
    \A c \in Calls :
        /\ stage[c] \in {"idle", "admitted"} /\ Mutates(c) => ~MayWrite(c)
        /\ handler[c] \in {"refused", "asks"} => c \notin wrote
        /\ handler[c] = "transient" => ~Mutates(c)
        /\ c \in wrote => Mutates(c)
        /\ stage[c] = "idle" => company[c] = {}

\* Of two calls of a request one writes after the other may have for a cause.
Caused ==
    \A c, d \in Calls :
        (Mutates(c) /\ Twins(c, d) /\ MayWrite(c) /\ (MayWrite(d) \/ UnderWay(d)))
        => Met(c, d) \/ Misreported(c) \/ Misreported(d)

\* FailureIsTheHandlers, and that only a call that is over has a reply.
Honest ==
    \A c \in Calls :
        /\ reply[c] # "none" => stage[c] = "done"
        /\ (Mutates(c) /\ reply[c] \in ToolOutcomes \ {"verified", "attempted_unverified"})
           => handler[c] # "running" /\ (c \in wrote => handler[c] = "raised")

Once == /\ TypeInv /\ Together /\ Accompanied /\ Settled
        /\ HandlerClean /\ Caused /\ Honest

\* What a step adds to the types.
OnceKept == /\ Together' /\ Accompanied' /\ Settled'
            /\ HandlerClean' /\ Caused' /\ Honest'

\* A step under which a recorded verdict is revised only as it may be.
Revises ==
    \A k \in Keys : results[k] # NoVerdict /\ results'[k] # results[k]
        => \E c, d \in Calls : KeyOf(c) = k /\ UnderWay(c) /\ ~UnderWay(c)' /\ Met(c, d)

LEMMA OnceInit == ToolInit => Once
<1> SUFFICES ASSUME ToolInit PROVE Once
  OBVIOUS
<1>1. \A c \in Calls : ~UnderWay(c) /\ ~MayWrite(c) /\ handler[c] = "none" /\ reply[c] = "none"
  BY DEF ToolInit, UnderWay, MayWrite
<1>2. wrote = {} /\ \A c \in Calls : company[c] = {}
  BY DEF ToolInit
<1>3. "none" \notin ToolOutcomes
  BY DEF ToolOutcomes
<1> QED
  BY <1>1, <1>2, <1>3, TypeInit
     DEF Once, Together, Accompanied, Settled, HandlerClean, Caused, Honest

\* A step that only ends a call.
LEMMA OnceAnswers ==
    ASSUME Once, NEW c \in Calls, Answers(c)
    PROVE  OnceKept
<1> USE DEF Once
<1>1. PICK o \in ToolOutcomes \cup {"cancelled"} :
        /\ Finish(c, o)
        /\ \/ stage[c] \in {"idle", "admitted"} /\ o \in Refusals(c) \cup {"cancelled"}
           \/ stage[c] = "idle" /\ Known(c) /\ o = Prior(c)
           \/ stage[c] = "running" /\ ~Mutates(c)
           \/ stage[c] = "running" /\ o = "failed" /\ handler[c] \in {"raised", "transient"}
  BY DEF Answers
<1>2. /\ UNCHANGED <<results, wrote, handler, company>>
      /\ \A d : Mutates(d)' = Mutates(d) /\ KeyOf(d)' = KeyOf(d) /\ MayWrite(d)' = MayWrite(d)
      /\ \A d, e : Twins(d, e)' = Twins(d, e) /\ Met(d, e)' = Met(d, e)
  BY DEF Answers, SameDeeds, Mutates, KeyOf, MayWrite, Twins, Met
<1>3. /\ stage'[c] = "done" /\ reply'[c] = o
      /\ \A d \in Calls \ {c} : stage'[d] = stage[d] /\ reply'[d] = reply[d]
  BY <1>1 DEF Finish, TypeInv, ToolTypeOK
<1>4. \A d \in Calls : UnderWay(d)' => UnderWay(d) /\ d # c
  BY <1>3 DEF UnderWay
<1>5. Mutates(c) => ~MayWrite(c) \/ Misreported(c)'
  BY <1>1, <1>2, <1>3 DEF HandlerClean, Misreported
<1>6. \A d \in Calls : Misreported(d) => Misreported(d)'
  <2>1. reply[c] = "none"
    BY <1>1 DEF Honest
  <2> QED
    BY <1>2, <1>3, <2>1 DEF Misreported
<1>7. Together'
  BY <1>2, <1>4 DEF Together
<1>8. Accompanied'
  BY <1>2, <1>4 DEF Accompanied
<1>9. Settled'
  BY <1>2, <1>3, <1>5, <1>6 DEF Settled, UnderWay
<1>10. HandlerClean'
  BY <1>2, <1>3 DEF HandlerClean
<1>11. Caused'
  BY <1>2, <1>4, <1>6 DEF Caused
<1>12. Honest'
  <2>1. Mutates(c) => handler[c] # "running" /\ (c \in wrote => handler[c] = "raised")
    BY <1>1 DEF HandlerClean, MayWrite
  <2> QED
    BY <1>2, <1>3, <2>1 DEF Honest
<1> QED
  BY <1>7, <1>8, <1>9, <1>10, <1>11, <1>12 DEF OnceKept

\* A step that ends a mutation with a recorded verdict.
LEMMA OnceConcludes ==
    ASSUME Once, NEW c \in Calls, Concludes(c)
    PROVE  OnceKept /\ Revises
<1> USE DEF Once
<1>1. PICK o \in ToolOutcomes :
        /\ Finish(c, o)
        /\ Record(c, o)
        /\ \/ o = "attempted_unverified"
           \/ o \in {"failed", "confirmation_required"} /\ handler[c] \in {"refused", "asks"}
           \/ o = "verified" /\ Shows(c)
  BY DEF Concludes
<1>2. /\ UNCHANGED <<wrote, handler, company>> /\ Mutates(c)
      /\ stage[c] \in {"running", "verifying"}
      /\ \A d : Mutates(d)' = Mutates(d) /\ KeyOf(d)' = KeyOf(d) /\ MayWrite(d)' = MayWrite(d)
      /\ \A d, e : Twins(d, e)' = Twins(d, e) /\ Met(d, e)' = Met(d, e)
  BY DEF Concludes, SameDeeds, Mutates, KeyOf, MayWrite, Twins, Met
<1>3. /\ stage'[c] = "done" /\ reply'[c] = o
      /\ \A d \in Calls \ {c} : stage'[d] = stage[d] /\ reply'[d] = reply[d]
  BY <1>1 DEF Finish, TypeInv, ToolTypeOK
<1>4. /\ UnderWay(c) /\ ~UnderWay(c)'
      /\ \A d \in Calls : UnderWay(d)' => UnderWay(d) /\ d # c
  BY <1>2, <1>3 DEF UnderWay
<1>5. \A d \in Calls : Misreported(d) => Misreported(d)'
  <2>1. reply[c] = "none"
    BY <1>2 DEF Honest
  <2> QED
    BY <1>2, <1>3, <2>1 DEF Misreported
<1>6. /\ results' = [results EXCEPT ![KeyOf(c)] = [args |-> ArgsOf(c), outcome |-> o]]
      /\ KeyOf(c) \in Keys /\ results \in [Keys -> Verdicts \cup {NoVerdict}]
      /\ [args |-> ArgsOf(c), outcome |-> o] \in Verdicts
  BY <1>1, <1>2, AskedTypes DEF Record, TypeInv, ToolTypeOK, Verdicts
<1>7. /\ results'[KeyOf(c)] # NoVerdict
      /\ \A k \in Keys : k # KeyOf(c) => results'[k] = results[k]
  BY <1>6, NoVerdictAssumption
<1>8. \A d \in Calls : KeyOf(d) \in Keys
  BY AskedTypes DEF TypeInv, ToolTypeOK
<1>9. Together'
  BY <1>2, <1>4 DEF Together
<1>10. Accompanied'
  <2> SUFFICES ASSUME NEW d \in Calls, UnderWay(d)', Mutates(d), results'[KeyOf(d)] # NoVerdict
               PROVE  \E e \in Calls : Met(d, e)
    BY <1>2 DEF Accompanied
  <2>1. CASE KeyOf(d) = KeyOf(c)
    BY <1>4, <2>1 DEF Together, Twins
  <2>2. CASE KeyOf(d) # KeyOf(c)
    BY <1>4, <1>7, <1>8, <2>2 DEF Accompanied
  <2> QED
    BY <2>1, <2>2
<1>11. Settled'
  <2> SUFFICES ASSUME NEW d \in Calls, Mutates(d), MayWrite(d), ~UnderWay(d)'
               PROVE  results'[KeyOf(d)] # NoVerdict \/ Misreported(d)'
    BY <1>2 DEF Settled
  <2>1. CASE KeyOf(d) = KeyOf(c)
    BY <1>7, <2>1
  <2>2. CASE KeyOf(d) # KeyOf(c)
    <3>1. d # c /\ ~UnderWay(d)
      BY <1>3, <2>2 DEF UnderWay
    <3> QED
      BY <1>5, <1>7, <1>8, <2>2, <3>1 DEF Settled
  <2> QED
    BY <2>1, <2>2
<1>12. HandlerClean'
  BY <1>2, <1>3 DEF HandlerClean
<1>13. Caused'
  BY <1>2, <1>4, <1>5 DEF Caused
<1>14. Honest'
  <2>1. o \in ToolOutcomes \ {"verified", "attempted_unverified"}
        => handler[c] # "running" /\ c \notin wrote
    BY <1>1 DEF HandlerClean
  <2> QED
    BY <1>2, <1>3, <2>1 DEF Honest
<1>15. Revises
  <2> SUFFICES ASSUME NEW k \in Keys, results[k] # NoVerdict, results'[k] # results[k]
               PROVE  \E d \in Calls : KeyOf(c) = k /\ Met(c, d)
    BY <1>4 DEF Revises
  <2>1. k = KeyOf(c)
    BY <1>7
  <2> QED
    BY <1>2, <1>4, <2>1 DEF Accompanied
<1> QED
  BY <1>9, <1>10, <1>11, <1>12, <1>13, <1>14, <1>15 DEF OnceKept

\* A call is admitted: it meets those that are under way, and the others of
\* its request have left nothing behind that still may write.
LEMMA OnceAdmit ==
    ASSUME Once, NEW c \in Calls, Admit(c), UNCHANGED asked
    PROVE  OnceKept
<1> USE DEF Once
<1>1. /\ UNCHANGED <<results, wrote, handler, reply>>
      /\ stage[c] = "idle" /\ stage'[c] = "admitted"
      /\ \A d \in Calls \ {c} : stage'[d] = stage[d]
      /\ Mutates(c) => results[KeyOf(c)] = NoVerdict
  BY DEF Admit, Begins, Known, TypeInv, ToolTypeOK
<1>2. /\ company'[c] = {d \in Calls : UnderWay(d) /\ KeyOf(d) = KeyOf(c)}
      /\ \A d \in Calls \ {c} : company'[d] = company[d]
      /\ company[c] = {}
  BY <1>1 DEF Admit, TypeInv, ToolTypeOK, HandlerClean
<1>3. \A d : /\ Mutates(d)' = Mutates(d) /\ KeyOf(d)' = KeyOf(d)
             /\ MayWrite(d)' = MayWrite(d) /\ Misreported(d)' = Misreported(d)
  BY <1>1 DEF Mutates, KeyOf, MayWrite, Misreported
<1>4. /\ \A d \in Calls \ {c} : UnderWay(d)' = UnderWay(d)
      /\ ~UnderWay(c)
  BY <1>1 DEF UnderWay
<1>5. \A d, e \in Calls : Met(d, e) => Met(d, e)'
  BY <1>2 DEF Met
<1>6. \A d \in Calls : UnderWay(d) /\ KeyOf(d) = KeyOf(c) => Met(c, d)' /\ Met(d, c)'
  BY <1>2 DEF Met
<1>7. \A d, e : Twins(d, e)' = Twins(d, e)
  BY <1>3 DEF Twins
<1>8. Together'
  BY <1>4, <1>5, <1>6, <1>7 DEF Together, Twins
<1>9. Accompanied'
  BY <1>1, <1>3, <1>4, <1>5 DEF Accompanied
<1>10. Settled'
  BY <1>1, <1>3, <1>4 DEF Settled, HandlerClean
<1>11. HandlerClean'
  BY <1>1, <1>2, <1>3 DEF HandlerClean
<1>12. \A d \in Calls : Mutates(d) /\ Twins(d, c) /\ MayWrite(d)
                        => (Met(d, c)' /\ Met(c, d)') \/ Misreported(d)
  <2> SUFFICES ASSUME NEW d \in Calls, Mutates(d), Twins(d, c), MayWrite(d), ~UnderWay(d)
               PROVE  Misreported(d)
    BY <1>6 DEF Twins
  <2>1. results[KeyOf(d)] = NoVerdict
    BY <1>1 DEF Twins, Mutates
  <2> QED
    BY <2>1 DEF Settled
<1>13. ~(Mutates(c) /\ MayWrite(c))
  BY <1>1 DEF HandlerClean
<1>14. Caused'
  <2> SUFFICES ASSUME NEW d \in Calls, NEW e \in Calls, Mutates(d), Twins(d, e), MayWrite(d),
                      MayWrite(e) \/ UnderWay(e)'
               PROVE  Met(d, e)' \/ Misreported(d) \/ Misreported(e)
    BY <1>3, <1>7 DEF Caused
  <2>1. d # c
    BY <1>13
  <2>2. CASE e = c
    BY <1>12, <2>2
  <2>3. CASE e # c
    BY <1>4, <1>5, <2>3 DEF Caused
  <2> QED
    BY <2>2, <2>3
<1>15. Honest'
  BY <1>1, <1>3 DEF Honest
<1> QED
  BY <1>8, <1>9, <1>10, <1>11, <1>14, <1>15 DEF OnceKept

\* A handler is submitted: its call was under way before.
LEMMA OnceLaunch ==
    ASSUME Once, NEW c \in Calls, Launch(c), UNCHANGED asked
    PROVE  OnceKept
<1> USE DEF Once
<1>1. /\ UNCHANGED <<results, wrote, reply, company>> /\ stage[c] = "admitted"
      /\ stage'[c] = "running" /\ handler'[c] = "running"
      /\ \A d \in Calls \ {c} : stage'[d] = stage[d] /\ handler'[d] = handler[d]
  BY DEF Launch, TypeInv, ToolTypeOK
<1>2. /\ \A d : Mutates(d)' = Mutates(d) /\ KeyOf(d)' = KeyOf(d)
      /\ \A d, e : Twins(d, e)' = Twins(d, e) /\ Met(d, e)' = Met(d, e)
  BY <1>1 DEF Mutates, KeyOf, Twins, Met
<1>3. \A d \in Calls : /\ UnderWay(d)' = UnderWay(d)
                       /\ d # c => MayWrite(d)' = MayWrite(d)
  BY <1>1 DEF UnderWay, MayWrite
<1>4. UnderWay(c)
  BY <1>1 DEF UnderWay
<1>5. reply[c] = "none"
  BY <1>1 DEF Honest
<1>6. \A d \in Calls : Misreported(d)' = Misreported(d)
  BY <1>1, <1>5 DEF Misreported
<1>7. Together'
  BY <1>2, <1>3 DEF Together
<1>8. Accompanied'
  BY <1>1, <1>2, <1>3 DEF Accompanied
<1>9. Settled'
  BY <1>1, <1>2, <1>3, <1>4, <1>6 DEF Settled
<1>10. HandlerClean'
  BY <1>1, <1>2, <1>3 DEF HandlerClean
<1>11. Caused'
  <2> SUFFICES ASSUME NEW d \in Calls, NEW e \in Calls, Mutates(d), Twins(d, e), MayWrite(d)',
                      MayWrite(e)' \/ UnderWay(e)
               PROVE  Met(d, e) \/ Misreported(d) \/ Misreported(e)
    BY <1>2, <1>3, <1>6 DEF Caused
  <2>1. CASE d # c
    BY <1>3, <1>4, <2>1 DEF Caused
  <2>2. CASE d = c /\ MayWrite(e)
    <3>1. Mutates(e) /\ Twins(e, d)
      BY DEF Twins, Mutates
    <3>2. Met(e, d) \/ Misreported(d) \/ Misreported(e)
      BY <1>4, <2>2, <3>1 DEF Caused
    <3> QED
      BY <3>2 DEF Met
  <2>3. CASE d = c /\ UnderWay(e)
    BY <1>4, <2>3 DEF Together
  <2> QED
    BY <1>3, <2>1, <2>2, <2>3 DEF Twins
<1>12. Honest'
  <2>1. "none" \notin ToolOutcomes
    BY DEF ToolOutcomes
  <2> QED
    BY <1>1, <1>2, <1>3, <1>5, <2>1 DEF Honest
<1> QED
  BY <1>7, <1>8, <1>9, <1>10, <1>11, <1>12 DEF OnceKept

\* A step of a handler's thread, or a cancellation: no call moves.
LEMMA OnceHandler ==
    ASSUME Once, NEW c \in Calls, Write(c) \/ End(c) \/ Cancel(c), UNCHANGED asked
    PROVE  OnceKept
<1> USE DEF Once
<1>1. UNCHANGED <<stage, results, reply, company>>
  BY DEF Write, End, Cancel
<1>2. /\ \A d : Mutates(d)' = Mutates(d) /\ KeyOf(d)' = KeyOf(d)
      /\ \A d, e : Twins(d, e)' = Twins(d, e) /\ Met(d, e)' = Met(d, e)
  BY <1>1 DEF Mutates, KeyOf, Twins, Met
<1>3. /\ \A d \in Calls : MayWrite(d)' => MayWrite(d)
      /\ \A d : UnderWay(d)' = UnderWay(d)
  <2>1. CASE Write(c)
    BY <1>1, <2>1 DEF Write, MayWrite, UnderWay
  <2>2. CASE End(c)
    <3>1. \A d \in Calls : handler'[d] = "running" => handler[d] = "running"
      BY <2>2 DEF End, TypeInv, ToolTypeOK
    <3> QED
      BY <1>1, <2>2, <3>1 DEF End, MayWrite, UnderWay
  <2>3. CASE Cancel(c)
    BY <1>1, <2>3 DEF Cancel, MayWrite, UnderWay
  <2> QED
    BY <2>1, <2>2, <2>3
<1>4. \A d \in Calls : Misreported(d) => Misreported(d)'
  <2>1. \A d \in Calls : handler[d] = "raised" => handler'[d] = "raised"
    BY DEF Write, End, Cancel, TypeInv, ToolTypeOK
  <2> QED
    BY <1>1, <2>1 DEF Misreported
<1>5. Together' /\ Accompanied'
  BY <1>1, <1>2, <1>3 DEF Together, Accompanied
<1>6. Settled'
  BY <1>1, <1>2, <1>3, <1>4 DEF Settled
<1>7. Caused'
  BY <1>2, <1>3, <1>4 DEF Caused
<1>8. HandlerClean' /\ Honest'
  <2>1. CASE Write(c)
    BY <1>1, <1>2, <1>3, <2>1 DEF Write, HandlerClean, Honest
  <2>2. CASE End(c)
    <3>1. PICK end \in Ends : MayEnd(c, end) /\ handler' = [handler EXCEPT ![c] = end]
      BY <2>2 DEF End
    <3>2. /\ wrote' = wrote /\ handler[c] = "running" /\ handler'[c] = end
          /\ \A d \in Calls \ {c} : handler'[d] = handler[d]
      BY <2>2, <3>1 DEF End, TypeInv, ToolTypeOK
    <3>3. /\ end \in {"refused", "asks"} => c \notin wrote
          /\ end = "transient" => ~Mutates(c)
          /\ end # "running"
      BY <3>1 DEF MayEnd, Ends
    <3>4. HandlerClean'
      BY <1>1, <1>2, <1>3, <3>2, <3>3 DEF HandlerClean
    <3>5. Honest'
      BY <1>1, <1>2, <3>2, <3>3 DEF Honest
    <3> QED
      BY <3>4, <3>5
  <2>3. CASE Cancel(c)
    BY <1>1, <1>2, <1>3, <2>3 DEF Cancel, HandlerClean, Honest
  <2> QED
    BY <2>1, <2>2, <2>3
<1> QED
  BY <1>5, <1>6, <1>7, <1>8 DEF OnceKept

LEMMA OnceStep == Once /\ [ToolNext]_toolVars => Once' /\ [Revises]_toolVars
<1> SUFFICES ASSUME Once, [ToolNext]_toolVars
             PROVE  OnceKept /\ Revises
  BY TypeStep DEF Once, OnceKept
<1> USE DEF Once
<1>1. CASE UNCHANGED toolVars
  BY <1>1 DEF toolVars, toolState, OnceKept, Together, Accompanied, Settled, HandlerClean,
              Caused, Honest, UnderWay, Mutates, MayWrite, KeyOf, Twins, Met, Misreported, Revises
<1>2. CASE ToolNext
  <2>1. PICK c \in Calls : Step(c) /\ UNCHANGED asked
    BY <1>2 DEF ToolNext
  <2>3. CASE Answers(c)
    <3>1. results' = results
      BY <2>3 DEF Answers
    <3> QED
      BY <2>3, <3>1, OnceAnswers DEF Revises
  <2>4. CASE Concludes(c)
    BY <2>4, OnceConcludes
  <2>5. CASE Admit(c)
    <3>1. results' = results
      BY <2>5 DEF Admit, Begins
    <3> QED
      BY <2>1, <2>5, <3>1, OnceAdmit DEF Revises
  <2>6. CASE Launch(c)
    <3>1. results' = results
      BY <2>6 DEF Launch
    <3> QED
      BY <2>1, <2>6, <3>1, OnceLaunch DEF Revises
  <2>7. CASE Retry(c) \/ CollectToVerify(c)
    <3>1. /\ UNCHANGED <<results, wrote, handler, reply, company>>
          /\ stage[c] = "running"
          /\ stage'[c] \in {"admitted", "verifying"}
          /\ \A d \in Calls \ {c} : stage'[d] = stage[d]
      BY <2>7 DEF Retry, CollectToVerify, Collects, TypeInv, ToolTypeOK
    <3>2. stage'[c] = "admitted" => ~Mutates(c)
      BY <2>7 DEF Retry, CollectToVerify, Collects, TypeInv, ToolTypeOK, HandlerClean
    <3>3. /\ \A d : /\ Mutates(d)' = Mutates(d) /\ KeyOf(d)' = KeyOf(d)
                    /\ MayWrite(d)' = MayWrite(d) /\ Misreported(d)' = Misreported(d)
          /\ \A d, e : Twins(d, e)' = Twins(d, e) /\ Met(d, e)' = Met(d, e)
      BY <2>1, <3>1 DEF Mutates, KeyOf, MayWrite, Misreported, Twins, Met
    <3>4. \A d \in Calls : UnderWay(d)' = UnderWay(d)
      BY <3>1 DEF UnderWay
    <3>5. Together' /\ Accompanied' /\ Settled' /\ Caused'
      BY <3>1, <3>3, <3>4 DEF Together, Accompanied, Settled, Caused
    <3>6. HandlerClean'
      BY <3>1, <3>2, <3>3 DEF HandlerClean
    <3>7. Honest'
      BY <3>1, <3>3 DEF Honest
    <3> QED
      BY <3>1, <3>5, <3>6, <3>7 DEF OnceKept, Revises
  <2>8. CASE Write(c) \/ End(c) \/ Cancel(c)
    <3>1. results' = results
      BY <2>8 DEF Write, End, Cancel
    <3> QED
      BY <2>1, <2>8, <3>1, OnceHandler DEF Revises
  <2> QED
    BY <2>1, <2>3, <2>4, <2>5, <2>6, <2>7, <2>8, Forms
<1> QED
  BY <1>1, <1>2

\* Whatever is retried, abandoned, cancelled or of unknown outcome, what a
\* request asks for is written again only by a call that was under way with
\* the one that wrote it, or after one of the two raised a plain error.
THEOREM SecondWritesHaveCause == ToolSpec => []RewritesHaveCause
<1>1. Once => RewritesHaveCause
  BY DEF Once, HandlerClean, Caused, MayWrite, Twins, RewritesHaveCause, TypeInv, ToolTypeOK
<1> QED
  BY <1>1, OnceInit, OnceStep, PTL DEF ToolSpec

\* A mutation is reported to have failed, or not to have been attempted, only
\* if it has written nothing and never will, or if its handler said so.
THEOREM FailuresAreTheHandlers == ToolSpec => []FailureIsTheHandlers
<1>1. Once => FailureIsTheHandlers
  BY DEF Once, Honest, FailureIsTheHandlers
<1> QED
  BY <1>1, OnceInit, OnceStep, PTL DEF ToolSpec

\* A recorded verdict is revised only by a call that was under way together
\* with another call of its request.
THEOREM VerdictsStand == ToolSpec => RevisedInCompany
<1>1. [Revises]_toolVars =>
        [\A k \in Keys : results[k] # NoVerdict /\ results'[k] # results[k]
            => \E c, d \in Calls : KeyOf(c) = k /\ UnderWay(c) /\ ~UnderWay(c)' /\ Met(c, d)]_toolVars
  BY DEF Revises
<1> QED
  BY <1>1, OnceInit, OnceStep, PTL DEF ToolSpec, RevisedInCompany

-----------------------------------------------------------------------------
(* The scheduler: what its threads hold.                                     *)

ThreadRow == [pc: {"idle", "dead", "scan", "enter", "call", "fire", "finish", "write"},
              left: SUBSET Jobs, job: Jobs \cup {Absent}, live: BOOLEAN, slot: Nat,
              forced: BOOLEAN, payload: JobTables \cup {Absent}]

SchedTypes ==
    /\ jobs \in JobTables /\ jobsFile \in JobTables /\ callbacks \subseteq Jobs
    /\ running \in BOOLEAN /\ loop \in [Threads -> ThreadRow] /\ crashes \in Nat

\* A thread in run_job has a job, a live one is the table's, and what is to be
\* written has been taken.
Holds(x, table) ==
    /\ x.pc \in {"enter", "call", "fire", "finish"} => x.job # Absent
    /\ x.live => x.pc \in {"call", "fire", "finish"} /\ table[x.job] # Absent
    /\ x.pc = "write" => x.payload # Absent

SchedInv == SchedTypes /\ \A t \in Threads : Holds(loop[t], jobs)

\* The reminder callback is neither entered nor left.
SameFires == \A t \in Threads : loop'[t].pc = "fire" <=> loop[t].pc = "fire"

LEMMA AbsentIs ==
    /\ Absent \notin Jobs /\ Absent \notin JobRow /\ Absent \notin JobTables
    /\ Interval \in Nat /\ 0 \in Nat /\ SetupJobs \subseteq Jobs
  BY SchedulerAssumption, AbsentAssumption

LEMMA RowIs ==
    ASSUME SchedInv, NEW t \in Threads
    PROVE  /\ loop \in [Threads -> ThreadRow] /\ loop[t] \in ThreadRow
           /\ loop[t].left \subseteq Jobs /\ loop[t].job \in Jobs \cup {Absent}
           /\ loop[t].live \in BOOLEAN /\ loop[t].slot \in Nat
           /\ loop[t].payload \in JobTables \cup {Absent}
           /\ Holds(loop[t], jobs)
<1>1. loop \in [Threads -> ThreadRow] /\ loop[t] \in ThreadRow
  BY DEF SchedInv, SchedTypes
<1> QED
  BY <1>1 DEF SchedInv, ThreadRow

LEMMA IdleIs ==
    /\ Idle \in ThreadRow /\ Idle.pc = "idle" /\ Idle.live = FALSE
    /\ Dead \in ThreadRow /\ Dead.pc = "dead" /\ Dead.live = FALSE
  BY AbsentIs DEF Idle, Dead, ThreadRow

\* A step of one thread that leaves the jobs of the table in it.
LEMMA OneRow ==
    ASSUME SchedInv, NEW t \in Threads, NEW x \in ThreadRow, loop' = [loop EXCEPT ![t] = x],
           jobs' \in JobTables, \A j \in Jobs : jobs[j] # Absent => jobs'[j] # Absent,
           jobsFile' \in JobTables, callbacks' \subseteq Jobs, running' = running, crashes' = crashes,
           Holds(x, jobs'), x.pc = "fire" <=> loop[t].pc = "fire"
    PROVE  SchedInv' /\ SameFires
<1>1. SchedTypes
  BY DEF SchedInv
<1>2. SchedTypes'
  BY <1>1 DEF SchedTypes
<1>3. ASSUME NEW u \in Threads
      PROVE  Holds(loop'[u], jobs') /\ (loop'[u].pc = "fire" <=> loop[u].pc = "fire")
  <2>1. CASE u = t
    BY <1>1, <2>1 DEF SchedTypes
  <2>2. CASE u # t
    <3>1. loop'[u] = loop[u]
      BY <1>1, <2>2 DEF SchedTypes
    <3>2. Holds(loop[u], jobs) /\ loop[u].job \in Jobs \cup {Absent}
      BY RowIs
    <3> QED
      BY <3>1, <3>2 DEF Holds
  <2> QED
    BY <2>1, <2>2
<1> QED
  BY <1>2, <1>3 DEF SchedInv, SameFires

\* The same, of a thread whose place is all that changes.
LEMMA Goes ==
    ASSUME SchedInv, NEW t \in Threads,
           NEW p \in {"idle", "scan", "call", "finish", "fire"}, Goto(t, p),
           p \in {"call", "fire", "finish"} => loop[t].pc \in {"call", "fire", "finish"},
           p \in {"idle", "scan"} => ~loop[t].live,
           UNCHANGED <<jobs, jobsFile, callbacks, running, crashes>>
    PROVE  /\ SchedInv' /\ loop'[t].pc = p
           /\ \A u \in Threads : u # t => loop'[u].pc = loop[u].pc
<1>1. SchedTypes /\ loop \in [Threads -> ThreadRow]
  BY DEF SchedInv, SchedTypes
<1>2. PICK x \in ThreadRow : x = [loop[t] EXCEPT !.pc = p]
  BY RowIs DEF ThreadRow
<1>3. x.pc = p /\ x.job = loop[t].job /\ x.live = loop[t].live
  BY <1>2, RowIs DEF ThreadRow
<1>4. loop' = [loop EXCEPT ![t] = x]
  BY <1>1, <1>2 DEF Goto
<1>5. Holds(x, jobs)
  BY <1>3, RowIs DEF Holds
<1>6. SchedTypes'
  BY <1>1, <1>4 DEF SchedTypes
<1>7. \A u \in Threads : Holds(loop'[u], jobs')
  BY <1>1, <1>4, <1>5, RowIs
<1> QED
  BY <1>1, <1>3, <1>4, <1>6, <1>7 DEF SchedInv

LEMMA BackIs ==
    ASSUME NEW t, NEW left
    PROVE  Back(t, left) \in {"idle", "scan"}
  BY DEF Back

Quietly == SchedInv' /\ SameFires /\ running' = running /\ crashes' = crashes

LEMMA EndLoopIs ==
    ASSUME SchedInv, NEW t \in Threads, EndLoop(t) PROVE Quietly
<1>1. /\ loop' = [loop EXCEPT ![t] = Dead] /\ loop[t].pc = "idle"
      /\ UNCHANGED <<jobs, jobsFile, callbacks, running, edits, crashes>>
  BY DEF EndLoop, At
<1>2. Holds(Dead, jobs)
  BY IdleIs DEF Holds
<1> QED
  BY <1>1, <1>2, IdleIs, OneRow DEF SchedInv, SchedTypes, Quietly

LEMMA SnapshotIs ==
    ASSUME SchedInv, NEW t \in Threads, Snapshot(t) PROVE Quietly
<1>1. PICK x \in ThreadRow :
        x = [Idle EXCEPT !.pc = "scan", !.left = {j \in Jobs : jobs[j] # Absent}]
  BY AbsentIs DEF Idle, ThreadRow
<1>2. x.pc = "scan" /\ x.live = FALSE
  BY <1>1 DEF Idle
<1>3. /\ loop' = [loop EXCEPT ![t] = x] /\ loop[t].pc = "idle"
      /\ UNCHANGED <<jobs, jobsFile, callbacks, running, edits, crashes>>
  BY <1>1 DEF Snapshot, At
<1>4. Holds(x, jobs)
  BY <1>2 DEF Holds
<1> QED
  BY <1>2, <1>3, <1>4, OneRow DEF SchedInv, SchedTypes, Quietly

LEMMA ConsiderIs ==
    ASSUME SchedInv, NEW t \in Threads, NEW j \in Jobs, Consider(t, j) PROVE Quietly
<1> DEFINE p == IF Due(j) THEN "enter" ELSE Back(t, loop[t].left \ {j})
           h == IF Due(j) THEN j ELSE Absent
<1>1. p \in {"enter", "idle", "scan"} /\ h \in Jobs \cup {Absent} /\ (p = "enter" => h # Absent)
  BY BackIs, AbsentIs
<1>2. loop[t].pc = "scan" /\ UNCHANGED <<jobs, jobsFile, callbacks, running, edits, crashes>>
  BY DEF Consider, At
<1>3. loop' = [loop EXCEPT ![t].left = @ \ {j}, ![t].job = h, ![t].pc = p]
  BY DEF Consider
<1> HIDE DEF p, h
<1>4. PICK x \in ThreadRow : x = [loop[t] EXCEPT !.left = @ \ {j}, !.job = h, !.pc = p]
  BY <1>1, RowIs DEF ThreadRow
<1>5. x.pc = p /\ x.job = h /\ x.live = loop[t].live
  BY <1>4, RowIs DEF ThreadRow
<1>6. loop' = [loop EXCEPT ![t] = x]
  BY <1>3, <1>4, RowIs
<1>7. Holds(x, jobs)
  BY <1>1, <1>2, <1>5, RowIs DEF Holds
<1> QED
  BY <1>1, <1>2, <1>5, <1>6, <1>7, OneRow DEF SchedInv, SchedTypes, Quietly

LEMMA EnterIs ==
    ASSUME SchedInv, NEW t \in Threads, Enter(t) PROVE Quietly
<1>1. /\ loop[t].pc = "enter" /\ loop[t].job \in Jobs /\ ~loop[t].live
      /\ UNCHANGED <<jobs, jobsFile, callbacks, running, edits, crashes>>
  BY RowIs DEF Enter, At, Holds
<1>2. CASE Refused(t, loop[t].job)
  <2>5. Back(t, loop[t].left) \in {"idle", "scan"}
    BY BackIs
  <2>1. PICK x \in ThreadRow : x = [loop[t] EXCEPT !.pc = Back(t, loop[t].left), !.job = Absent]
    BY <2>5, RowIs DEF ThreadRow
  <2>2. x.pc \in {"idle", "scan"} /\ x.live = loop[t].live
    BY <2>1, <2>5, RowIs DEF ThreadRow
  <2>3. loop' = [loop EXCEPT ![t] = x]
    BY <1>2, <2>1, RowIs DEF Enter
  <2>4. Holds(x, jobs)
    BY <1>1, <2>2 DEF Holds
  <2> QED
    BY <1>1, <2>2, <2>3, <2>4, OneRow DEF SchedInv, SchedTypes, Quietly
<1>3. CASE ~Refused(t, loop[t].job)
  <2>1. jobs[loop[t].job] # Absent /\ jobs[loop[t].job] \in JobRow
    BY <1>1, <1>3 DEF Refused, SchedInv, SchedTypes, JobTables
  <2>2. jobs[loop[t].job].wait \in Nat
    BY <2>1 DEF JobRow
  <2>3. PICK x \in ThreadRow :
          x = [loop[t] EXCEPT !.pc = "call", !.slot = jobs[loop[t].job].wait, !.live = TRUE]
    BY <2>2, RowIs DEF ThreadRow
  <2>4. x.pc = "call" /\ x.live = TRUE /\ x.job = loop[t].job
    BY <2>3, RowIs DEF ThreadRow
  <2>5. loop' = [loop EXCEPT ![t] = x]
    BY <1>3, <2>3, RowIs DEF Enter
  <2>6. Holds(x, jobs)
    BY <1>1, <2>1, <2>4, AbsentIs DEF Holds
  <2> QED
    BY <1>1, <2>4, <2>5, <2>6, OneRow DEF SchedInv, SchedTypes, Quietly
<1> QED
  BY <1>2, <1>3

LEMMA CallIs ==
    ASSUME SchedInv, NEW t \in Threads, Call(t) PROVE Quietly
<1>1. /\ loop[t].pc = "call" /\ Goto(t, "finish")
      /\ UNCHANGED <<jobs, jobsFile, callbacks, running, edits, crashes>>
  BY DEF Call, At
<1>2. /\ SchedInv' /\ loop'[t].pc = "finish"
      /\ \A u \in Threads : u # t => loop'[u].pc = loop[u].pc
  BY <1>1, Goes
<1> QED
  BY <1>1, <1>2 DEF Quietly, SameFires

\* A change of the table and the payload of the save that follows it.
LEMMA ChangeIs ==
    ASSUME SchedInv, NEW t \in Threads, loop[t].pc # "fire",
           NEW threads \in [Threads -> ThreadRow], NEW table \in JobTables, Change(t, threads, table),
           \A u \in Threads : threads[u].pc = loop[u].pc /\ (u # t => Holds(threads[u], table)),
           jobsFile' \in JobTables, callbacks' \subseteq Jobs, UNCHANGED <<running, crashes>>
    PROVE  Quietly
<1>1. PICK x \in ThreadRow :
        x = [Idle EXCEPT !.pc = "write", !.left = loop[t].left, !.payload = table]
  BY RowIs, AbsentIs DEF Idle, ThreadRow
<1>2. x.pc = "write" /\ x.live = FALSE /\ x.payload = table
  BY <1>1 DEF Idle
<1>3. jobs' = table /\ loop' = [threads EXCEPT ![t] = x]
  BY <1>1 DEF Change
<1>4. SchedTypes'
  BY <1>3 DEF SchedInv, SchedTypes
<1>5. \A u \in Threads : /\ Holds(loop'[u], jobs')
                         /\ loop'[u].pc = "fire" <=> loop[u].pc = "fire"
  BY <1>2, <1>3, AbsentIs DEF Holds
<1> QED
  BY <1>4, <1>5 DEF SchedInv, SameFires, Quietly

LEMMA FinishJobIs ==
    ASSUME SchedInv, NEW t \in Threads, FinishJob(t) PROVE Quietly
<1> DEFINE j == loop[t].job
<1>1. /\ loop[t].pc = "finish" /\ j \in Jobs /\ Change(t, loop, Counted(t, j))
      /\ UNCHANGED <<jobsFile, callbacks, running, edits, crashes>>
  BY RowIs DEF FinishJob, At, Holds
<1>2. jobs \in JobTables /\ loop \in [Threads -> ThreadRow]
  BY DEF SchedInv, SchedTypes
<1>3. /\ Counted(t, j) \in JobTables
      /\ \A i \in Jobs : jobs[i] # Absent => Counted(t, j)[i] # Absent
  <2>1. CASE ~loop[t].live
    BY <1>2, <2>1 DEF Counted
  <2>2. CASE loop[t].live
    <3>1. jobs[j] # Absent /\ jobs[j] \in JobRow
      BY <1>1, <1>2, <2>2, RowIs DEF Holds, JobTables
    <3>2. Following(loop[t].slot) \in Nat
      BY RowIs, AbsentIs DEF Following
    <3>3. PICK y \in JobRow : y = [jobs[j] EXCEPT !.wait = Following(loop[t].slot)]
      BY <3>1, <3>2 DEF JobRow
    <3>4. Counted(t, j) = [jobs EXCEPT ![j] = y]
      BY <1>1, <1>2, <2>2, <3>3 DEF Counted, JobTables
    <3>5. y # Absent
      BY AbsentIs
    <3> QED
      BY <1>1, <1>2, <3>4, <3>5 DEF JobTables
  <2> QED
    BY <2>1, <2>2
<1>4. \A u \in Threads : Holds(loop[u], Counted(t, j))
  BY <1>3, RowIs DEF Holds
<1> HIDE DEF j
<1> QED
  BY <1>1, <1>2, <1>3, <1>4, ChangeIs DEF SchedInv, SchedTypes

LEMMA WriteFileIs ==
    ASSUME SchedInv, NEW t \in Threads, WriteFile(t) PROVE Quietly
<1>1. /\ loop[t].pc = "write" /\ jobsFile' = loop[t].payload
      /\ loop' = [loop EXCEPT ![t].pc = Back(t, loop[t].left), ![t].payload = Absent]
      /\ UNCHANGED <<jobs, callbacks, running, edits, crashes>>
  BY DEF WriteFile, At
<1>2. loop[t].payload \in JobTables /\ ~loop[t].live
  BY <1>1, RowIs DEF Holds
<1>3. PICK x \in ThreadRow : x = [loop[t] EXCEPT !.pc = Back(t, loop[t].left), !.payload = Absent]
  <2>1. loop[t] \in ThreadRow /\ Back(t, loop[t].left) \in {"idle", "scan"}
    BY RowIs, BackIs
  <2> QED
    BY <2>1 DEF ThreadRow
<1>4. x.pc \in {"idle", "scan"} /\ x.live = loop[t].live
  BY <1>3, RowIs, BackIs DEF ThreadRow
<1>5. loop' = [loop EXCEPT ![t] = x]
  BY <1>1, <1>3, RowIs
<1>6. Holds(x, jobs)
  BY <1>2, <1>4 DEF Holds
<1> QED
  BY <1>1, <1>2, <1>4, <1>5, <1>6, OneRow DEF SchedInv, SchedTypes, Quietly

LEMMA SchedStepIs ==
    ASSUME SchedInv, NEW t \in Threads, SchedStep(t) \/ CallOther(t) PROVE Quietly
  BY EndLoopIs, SnapshotIs, ConsiderIs, EnterIs, CallIs, FinishJobIs, WriteFileIs
     DEF SchedStep, CallOther

LEMMA DetachedIs ==
    ASSUME SchedInv, NEW j \in Jobs,
           NEW table \in JobTables, \A i \in Jobs \ {j} : table[i] = jobs[i]
    PROVE  /\ Detached(j) \in [Threads -> ThreadRow]
           /\ \A u \in Threads : Detached(j)[u].pc = loop[u].pc /\ Holds(Detached(j)[u], table)
<1>1. ASSUME NEW u \in Threads
      PROVE  /\ Detached(j)[u] \in ThreadRow
             /\ Detached(j)[u].pc = loop[u].pc /\ Holds(Detached(j)[u], table)
  <2>1. CASE loop[u].job = j
    <3>1. PICK x \in ThreadRow : x = [loop[u] EXCEPT !.live = FALSE]
      BY RowIs DEF ThreadRow
    <3>2. /\ x.pc = loop[u].pc /\ x.live = FALSE /\ x.job = loop[u].job
          /\ x.payload = loop[u].payload
      BY <3>1, RowIs DEF ThreadRow
    <3>3. Detached(j)[u] = x
      BY <2>1, <3>1 DEF Detached
    <3> QED
      BY <3>2, <3>3, RowIs DEF Holds
  <2>2. CASE loop[u].job # j
    <3>1. Detached(j)[u] = loop[u]
      BY <2>2 DEF Detached
    <3>2. loop[u].live => loop[u].job \in Jobs \ {j}
      BY <2>2, RowIs DEF Holds
    <3> QED
      BY <3>1, <3>2, RowIs DEF Holds
  <2> QED
    BY <2>1, <2>2
<1> QED
  BY <1>1 DEF Detached

\* register_callback and add_job, remove_job.
LEMMA PutJobIs ==
    ASSUME SchedInv, NEW c \in Callers, Calling(c), NEW j \in Jobs, NEW new \in JobRow \cup {Absent},
           Change(c, Detached(j), [jobs EXCEPT ![j] = new]),
           callbacks' \subseteq Jobs, UNCHANGED <<jobsFile, running, crashes>>
    PROVE  Quietly
<1>1. c \in Threads /\ loop[c].pc = "idle"
  BY DEF Threads, Calling, At
<1>2. jobs \in JobTables /\ jobsFile \in JobTables
  BY DEF SchedInv, SchedTypes
<1>3. PICK table \in JobTables : table = [jobs EXCEPT ![j] = new] /\ \A i \in Jobs \ {j} : table[i] = jobs[i]
  BY <1>2 DEF JobTables
<1>4. Change(c, Detached(j), table)
  BY <1>3
<1>5. /\ Detached(j) \in [Threads -> ThreadRow]
      /\ \A u \in Threads : Detached(j)[u].pc = loop[u].pc /\ Holds(Detached(j)[u], table)
  BY <1>3, DetachedIs
<1> QED
  BY <1>1, <1>2, <1>4, <1>5, ChangeIs

LEMMA ChangeJobIs ==
    ASSUME SchedInv, ChangeJob PROVE Quietly
<1>1. PICK c \in Callers, j \in Jobs : RemoveJob(c, j) \/ UpdateJob(c, j) \/ RunByHand(c, j)
  BY DEF ChangeJob
<1>2. c \in Threads /\ jobs \in JobTables /\ jobsFile \in JobTables /\ callbacks \subseteq Jobs
      /\ loop \in [Threads -> ThreadRow]
  BY DEF Threads, SchedInv, SchedTypes
<1>3. CASE RemoveJob(c, j)
  BY <1>2, <1>3, PutJobIs DEF RemoveJob
<1>4. CASE UpdateJob(c, j)
  <2>1. PICK new \in Updates(jobs[j]) : Change(c, loop, [jobs EXCEPT ![j] = new])
    BY <1>4 DEF UpdateJob
  <2>2. jobs[j] # Absent /\ jobs[j] \in JobRow /\ UNCHANGED <<jobsFile, callbacks, running, crashes>>
        /\ loop[c].pc = "idle"
    BY <1>2, <1>4 DEF UpdateJob, JobTables, Calling, At
  <2>3. new \in JobRow
    BY <2>2, AbsentIs DEF Updates, JobRow
  <2>4. new # Absent
    BY <2>3, AbsentIs
  <2>5. PICK table \in JobTables : /\ table = [jobs EXCEPT ![j] = new]
                                   /\ \A i \in Jobs : jobs[i] # Absent => table[i] # Absent
    <3>1. [jobs EXCEPT ![j] = new] \in JobTables
      BY <1>2, <2>3 DEF JobTables
    <3>2. \A i \in Jobs : [jobs EXCEPT ![j] = new][i] = IF i = j THEN new ELSE jobs[i]
      BY <1>2 DEF JobTables
    <3> QED
      BY <2>4, <3>1, <3>2
  <2>6. \A u \in Threads : Holds(loop[u], table)
    BY <2>5, RowIs DEF Holds
  <2>7. Change(c, loop, table)
    BY <2>1, <2>5
  <2> QED
    BY <1>2, <2>2, <2>5, <2>6, <2>7, ChangeIs
<1>5. CASE RunByHand(c, j)
  <2>1. PICK x \in ThreadRow : x = [Idle EXCEPT !.pc = "enter", !.job = j, !.forced = TRUE]
    BY AbsentIs DEF Idle, ThreadRow
  <2>2. x.pc = "enter" /\ x.job = j /\ x.live = FALSE
    BY <2>1 DEF Idle
  <2>3. /\ loop' = [loop EXCEPT ![c] = x] /\ loop[c].pc = "idle"
        /\ UNCHANGED <<jobs, jobsFile, callbacks, running, crashes>>
    BY <1>5, <2>1 DEF RunByHand, Calling, At
  <2>4. Holds(x, jobs)
    BY <2>2, AbsentIs DEF Holds
  <2> QED
    BY <1>2, <2>2, <2>3, <2>4, OneRow DEF Quietly
<1> QED
  BY <1>1, <1>3, <1>4, <1>5

\* start() revives a dead thread, or does nothing.
LEMMA StartLoopIs ==
    ASSUME SchedInv, StartLoop, UNCHANGED schedRest
    PROVE  SchedInv' /\ SameFires /\ crashes' = crashes
<1>1. UNCHANGED <<jobs, jobsFile, callbacks, edits, crashes>>
  BY DEF schedRest
<1>2. CASE running
  <2>1. UNCHANGED <<running, loop>>
    BY <1>2 DEF StartLoop
  <2> QED
    BY <1>1, <2>1 DEF SchedInv, SchedTypes, SameFires
<1>3. CASE ~running
  <2>1. PICK t \in Loops \ LiveLoops : loop' = [loop EXCEPT ![t] = Idle]
    <3>1. Loops # LiveLoops /\ loop' = [loop EXCEPT ![CHOOSE t \in Loops \ LiveLoops : TRUE] = Idle]
      BY <1>3 DEF StartLoop
    <3>2. \E t \in Loops \ LiveLoops : TRUE
      BY <3>1 DEF LiveLoops
    <3>3. (CHOOSE t \in Loops \ LiveLoops : TRUE) \in Loops \ LiveLoops
      BY <3>2
    <3> QED
      BY <3>1, <3>3
  <2>2. t \in Threads /\ loop[t].pc = "dead" /\ running' = TRUE
    BY <1>3 DEF Threads, LiveLoops, StartLoop
  <2>3. SchedTypes'
    BY <1>1, <2>1, <2>2, IdleIs DEF SchedInv, SchedTypes
  <2>4. \A u \in Threads : /\ Holds(loop'[u], jobs')
                           /\ loop'[u].pc = "fire" <=> loop[u].pc = "fire"
    <3>1. Holds(Idle, jobs)
      BY IdleIs DEF Holds
    <3>2. ASSUME NEW u \in Threads
          PROVE  /\ Holds(loop'[u], jobs')
                 /\ loop'[u].pc = "fire" <=> loop[u].pc = "fire"
      <4>1. CASE u = t
        BY <1>1, <2>1, <2>2, <3>1, <4>1, RowIs, IdleIs
      <4>2. CASE u # t
        BY <1>1, <2>1, <4>2, RowIs
      <4> QED
        BY <4>1, <4>2
    <3> QED
      BY <3>2
  <2> QED
    BY <1>1, <2>3, <2>4 DEF SchedInv, SameFires
<1> QED
  BY <1>2, <1>3

LEMMA LowerIs == \A n \in Nat : Lower(n) \in Nat
  BY DEF Lower

LEMMA OlderIs ==
    ASSUME NEW table \in JobTables
    PROVE  /\ Older(table) \in JobTables
           /\ \A j \in Jobs : Older(table)[j] = Absent <=> table[j] = Absent
<1>1. ASSUME NEW j \in Jobs
      PROVE  /\ Older(table)[j] \in JobRow \cup {Absent}
             /\ Older(table)[j] = Absent <=> table[j] = Absent
  <2>1. CASE table[j] = Absent
    BY <2>1 DEF Older
  <2>2. CASE table[j] # Absent
    <3>1. table[j] \in JobRow /\ table[j].wait \in Nat
      BY <2>2 DEF JobTables, JobRow
    <3>2. PICK y \in JobRow : y = [table[j] EXCEPT !.wait = Lower(@)]
      BY <3>1, LowerIs DEF JobRow
    <3>3. Older(table)[j] = y
      BY <2>2, <3>2 DEF Older
    <3> QED
      BY <2>2, <3>3, AbsentIs
  <2> QED
    BY <2>1, <2>2
<1> QED
  BY <1>1 DEF Older, JobTables

LEMMA SchedTickIs ==
    ASSUME SchedInv, SchedTick, UNCHANGED <<callbacks, running, crashes>> PROVE Quietly
<1>1. jobs \in JobTables /\ jobsFile \in JobTables /\ callbacks \subseteq Jobs
  BY DEF SchedInv, SchedTypes
<1>2. /\ jobs' \in JobTables /\ jobsFile' \in JobTables
      /\ \A j \in Jobs : jobs'[j] = Absent <=> jobs[j] = Absent
  BY <1>1, OlderIs DEF SchedTick
<1>3. ASSUME NEW t \in Threads
      PROVE  /\ loop'[t] \in ThreadRow /\ Holds(loop'[t], jobs') /\ loop'[t].pc = loop[t].pc
  <2>1. PICK s \in Nat : s = Lower(loop[t].slot)
    BY RowIs, LowerIs
  <2>2. PICK p \in JobTables \cup {Absent} :
          /\ p = (IF loop[t].payload = Absent THEN Absent ELSE Older(loop[t].payload))
          /\ p = Absent <=> loop[t].payload = Absent
    <3>1. CASE loop[t].payload = Absent
      BY <3>1
    <3>2. CASE loop[t].payload # Absent
      <4>1. Older(loop[t].payload) \in JobTables
        BY <3>2, RowIs, OlderIs
      <4> QED
        BY <3>2, <4>1, AbsentIs
    <3> QED
      BY <3>1, <3>2
  <2>3. PICK x \in ThreadRow : x = [loop[t] EXCEPT !.slot = s, !.payload = p]
    BY RowIs DEF ThreadRow
  <2>4. x.pc = loop[t].pc /\ x.live = loop[t].live /\ x.job = loop[t].job /\ x.payload = p
    BY <2>3, RowIs DEF ThreadRow
  <2>5. loop'[t] = x
    BY <2>1, <2>2, <2>3, RowIs DEF SchedTick, ThreadRow
  <2>6. Holds(x, jobs')
    BY <1>2, <2>2, <2>4, RowIs DEF Holds
  <2> QED
    BY <2>4, <2>5, <2>6
<1>4. loop' \in [Threads -> ThreadRow]
  <2>1. loop' = [t \in Threads |-> loop'[t]]
    BY DEF SchedTick
  <2> QED
    BY <1>3, <2>1
<1>5. SchedTypes'
  BY <1>1, <1>2, <1>4 DEF SchedInv, SchedTypes
<1> QED
  BY <1>3, <1>5 DEF SchedInv, SameFires, Quietly

LEMMA NewJobIs == NewJob \in JobRow /\ NewJob # Absent
<1>1. NewJob \in JobRow
  BY AbsentIs DEF NewJob, JobRow
<1> QED
  BY <1>1, AbsentIs

\* The threads of a program that starts.
LEMMA FreshThreads ==
    ASSUME jobs' \in JobTables, jobsFile' \in JobTables, callbacks' = SetupJobs,
           running' = FALSE, crashes' \in Nat,
           loop' = [t \in Threads |-> IF t \in Loops THEN Dead ELSE Idle]
    PROVE  SchedInv' /\ \A t \in Threads : loop'[t].pc # "fire"
<1>1. \A t \in Threads : loop'[t] \in {Idle, Dead}
  OBVIOUS
<1>2. loop' \in [Threads -> ThreadRow]
  BY <1>1, IdleIs
<1>3. SchedTypes'
  BY <1>2, AbsentIs DEF SchedTypes
<1>4. \A t \in Threads : Holds(loop'[t], jobs')
  BY <1>1, IdleIs DEF Holds
<1> QED
  BY <1>1, <1>3, <1>4, IdleIs DEF SchedInv

LEMMA SchedRestartIs ==
    ASSUME SchedInv, SchedRestart
    PROVE  /\ SchedInv' /\ running' = FALSE /\ crashes' = crashes + 1
           /\ \A t \in Threads : loop'[t].pc # "fire"
<1>1. Loaded \in JobTables
  BY NewJobIs DEF SchedInv, SchedTypes, Loaded, JobTables
<1>2. crashes \in Nat /\ crashes' = crashes + 1 /\ crashes' \in Nat
  BY DEF SchedInv, SchedTypes, SchedRestart
<1>3. /\ jobs' \in JobTables /\ jobsFile' \in JobTables /\ callbacks' = SetupJobs
      /\ running' = FALSE
      /\ loop' = [t \in Threads |-> IF t \in Loops THEN Dead ELSE Idle]
  BY <1>1 DEF SchedRestart
<1> QED
  BY <1>2, <1>3, FreshThreads

LEMMA SchedInitial ==
    ASSUME SchedInit
    PROVE  SchedInv /\ running = FALSE /\ \A t \in Threads : loop[t].pc # "fire"
<1>1. \A t \in Threads : loop[t] \in {Idle, Dead}
  BY DEF SchedInit
<1>2. loop \in [Threads -> ThreadRow]
  BY <1>1, IdleIs DEF SchedInit
<1>3. jobs \in JobTables /\ jobsFile \in JobTables
  BY NewJobIs DEF SchedInit, JobTables
<1>4. SchedTypes
  BY <1>2, <1>3, AbsentIs DEF SchedInit, SchedTypes
<1>5. \A t \in Threads : Holds(loop[t], jobs)
  BY <1>1, IdleIs DEF Holds
<1> QED
  BY <1>1, <1>4, <1>5, IdleIs DEF SchedInv, SchedInit

-----------------------------------------------------------------------------
(* The reminders: what has been notified, and of which the callback still    *)
(* has to say so.                                                            *)

FiringRow == [left: SUBSET ReminderIds, on: ReminderIds \cup {Absent}]

RemTypes ==
    /\ reminder \in [ReminderIds -> ReminderRow \cup {Absent}] /\ ensured \in BOOLEAN
    /\ firing \in [Threads -> FiringRow] /\ notified \in [ReminderIds -> Nat] /\ met \in BOOLEAN

\* A thread looks only at what was created, and holds one only in the callback.
Looks ==
    \A t \in Threads :
        /\ \A r \in firing[t].left : reminder[r] # Absent
        /\ firing[t].on # Absent => loop[t].pc = "fire" /\ reminder[firing[t].on] # Absent

Alone == \A t, u \in Threads : loop[t].pc = "fire" /\ loop[u].pc = "fire" => t = u

\* A reminder that is pending, and that no thread has just notified, may be
\* notified again; as often as that happened, the program crashed in between.
Told(r) ==
    IF reminder[r] = Absent THEN notified[r] = 0
    ELSE IF reminder[r].status = "pending" /\ \A t \in Threads : firing[t].on # r
         THEN notified[r] <= crashes
         ELSE notified[r] <= 1 + crashes

RemInv == RemTypes /\ Looks /\ (~met => Alone /\ \A r \in ReminderIds : Told(r))

LEMMA RemindersAre ==
    ASSUME RemInv
    PROVE  /\ Absent \notin ReminderIds /\ Absent \notin ReminderRow
           /\ \A t \in Threads : /\ firing[t] \in FiringRow /\ firing[t].left \subseteq ReminderIds
                                 /\ firing[t].on \in ReminderIds \cup {Absent}
           /\ \A r \in ReminderIds : /\ notified[r] \in Nat
                                     /\ reminder[r] # Absent => reminder[r] \in ReminderRow
  BY RemindersAssumption DEF RemInv, RemTypes, FiringRow

LEMMA NoFiringIs == NoFiring \in FiringRow /\ NoFiring.on = Absent /\ NoFiring.left = {}
  BY DEF NoFiring, FiringRow

\* One field of a record is written.
LEMMA ReminderDueIn ==
    ASSUME NEW y \in ReminderRow, NEW n \in 0..1
    PROVE  /\ [y EXCEPT !.in = n] \in ReminderRow
           /\ [y EXCEPT !.in = n].status = y.status
<1>1. [y EXCEPT !.in = n] \in ReminderRow
  BY SMTT(30) DEF ReminderRow
<1>2. [y EXCEPT !.in = n].status = y.status
  BY DEF ReminderRow
<1> QED
  BY <1>1, <1>2

LEMMA ReminderFired ==
    ASSUME NEW y \in ReminderRow
    PROVE  /\ [y EXCEPT !.status = "fired"] \in ReminderRow
           /\ [y EXCEPT !.status = "fired"].status = "fired"
<1>1. [y EXCEPT !.status = "fired"] \in ReminderRow
  BY DEF ReminderRow
<1>2. [y EXCEPT !.status = "fired"].status = "fired"
  BY DEF ReminderRow
<1> QED
  BY <1>1, <1>2

LEMMA FiringLeft ==
    ASSUME NEW f \in FiringRow, NEW left \in SUBSET ReminderIds
    PROVE  /\ [f EXCEPT !.left = left] \in FiringRow
           /\ [f EXCEPT !.left = left].left = left
           /\ [f EXCEPT !.left = left].on = f.on
  BY DEF FiringRow

LEMMA FiringOn ==
    ASSUME NEW f \in FiringRow, NEW on \in ReminderIds \cup {Absent}
    PROVE  /\ [f EXCEPT !.on = on] \in FiringRow
           /\ [f EXCEPT !.on = on].left = f.left
           /\ [f EXCEPT !.on = on].on = on
  BY DEF FiringRow

\* The steps of the scheduler's threads.
LEMMA RemindersRest ==
    ASSUME RemInv, SameFires, crashes' = crashes, UNCHANGED remVars PROVE RemInv'
<1>1. UNCHANGED <<reminder, ensured, firing, notified, met>>
  BY DEF remVars
<1>2. Looks'
  BY <1>1 DEF RemInv, Looks, SameFires
<1>3. Alone => Alone'
  BY DEF Alone, SameFires
<1>4. \A r \in ReminderIds : Told(r) => Told(r)'
  BY <1>1 DEF Told
<1> QED
  BY <1>1, <1>2, <1>3, <1>4 DEF RemInv, RemTypes

\* A reminder is created or changed: none becomes pending again.
LEMMA ReminderPut ==
    ASSUME RemInv, crashes \in Nat, SameFires, crashes' = crashes, UNCHANGED <<firing, notified, met>>,
           ensured' \in BOOLEAN, NEW r \in ReminderIds, NEW x \in ReminderRow,
           reminder' = [reminder EXCEPT ![r] = x],
           \/ reminder[r] = Absent
           \/ reminder[r] # Absent /\ (x.status = "pending" => reminder[r].status = "pending")
    PROVE  RemInv'
<1>1. x # Absent /\ reminder \in [ReminderIds -> ReminderRow \cup {Absent}]
  BY RemindersAre DEF RemInv, RemTypes
<1>2. \A z \in ReminderIds : reminder'[z] = IF z = r THEN x ELSE reminder[z]
  BY <1>1
<1>3. RemTypes'
  BY <1>1 DEF RemInv, RemTypes
<1>4. \A z \in ReminderIds : reminder[z] # Absent => reminder'[z] # Absent
  BY <1>1, <1>2
<1>5. Looks'
  BY <1>4, RemindersAre DEF RemInv, Looks, SameFires
<1>6. ASSUME ~met', NEW z \in ReminderIds PROVE Told(z)'
  <2>1. Told(z) /\ notified[z] \in Nat
    BY <1>6, RemindersAre DEF RemInv
  <2>2. CASE z # r
    BY <1>2, <2>1, <2>2 DEF Told
  <2>3. CASE z = r
    <3>1. reminder'[r] = x
      BY <1>2
    <3> QED
      BY <1>1, <2>1, <2>3, <3>1 DEF Told
  <2> QED
    BY <2>2, <2>3
<1>7. Alone => Alone'
  BY DEF Alone, SameFires
<1> QED
  BY <1>3, <1>5, <1>6, <1>7 DEF RemInv

LEMMA CreateReminderIs ==
    ASSUME SchedInv, RemInv, NEW c \in Callers, NEW r \in ReminderIds, CreateReminder(c, r)
    PROVE  SchedInv' /\ RemInv' /\ running' = running
<1>1. Check \in Jobs /\ crashes \in Nat
  BY RemindersAssumption DEF SchedInv, SchedTypes
<1>2. Calling(c) /\ reminder[r] = Absent /\ ensured' = TRUE
      /\ UNCHANGED <<jobsFile, running, crashes, firing, notified, met>>
  BY DEF CreateReminder
<1>3. Quietly
  <2>1. CASE ensured \/ jobs[Check] # Absent
    <3>1. UNCHANGED <<jobs, callbacks, loop>>
      BY <2>1 DEF CreateReminder
    <3> QED
      BY <1>2, <3>1 DEF Quietly, SameFires, SchedInv, SchedTypes
  <2>2. CASE ~(ensured \/ jobs[Check] # Absent)
    <3>1. callbacks' = callbacks \cup {Check} /\ Change(c, Detached(Check), [jobs EXCEPT ![Check] = NewJob])
      BY <2>2 DEF CreateReminder, AddJob
    <3>2. callbacks' \subseteq Jobs
      BY <1>1, <3>1 DEF SchedInv, SchedTypes
    <3> QED
      BY <1>1, <1>2, <3>1, <3>2, NewJobIs, PutJobIs
  <2> QED
    BY <2>1, <2>2
<1>4. PICK in \in 0..1 : reminder' = [reminder EXCEPT ![r] = NewReminder(in)]
  BY DEF CreateReminder
<1>5. NewReminder(in) \in ReminderRow
  BY DEF NewReminder, ReminderRow
<1> QED
  BY <1>1, <1>2, <1>3, <1>4, <1>5, ReminderPut DEF Quietly

LEMMA ChangeReminderIs ==
    ASSUME SchedInv, RemInv, NEW c \in Callers, NEW r \in ReminderIds, ChangeReminder(c, r)
    PROVE  SchedInv' /\ RemInv' /\ running' = running
<1>1. /\ reminder[r] # Absent
      /\ UNCHANGED <<jobs, jobsFile, callbacks, running, loop, crashes, ensured, firing, notified, met>>
  BY DEF ChangeReminder, Kept
<1>2. SchedInv' /\ SameFires /\ crashes \in Nat
  BY <1>1 DEF SchedInv, SchedTypes, SameFires
<1>3. reminder[r] \in ReminderRow /\ ensured' \in BOOLEAN
  BY <1>1, RemindersAre DEF RemInv, RemTypes
<1>4. PICK x \in ReminderRow :
        /\ reminder' = [reminder EXCEPT ![r] = x]
        /\ x.status = "pending" => reminder[r].status = "pending"
  <2>1. CASE \E s \in {"done", "canceled"} : reminder' = [reminder EXCEPT ![r].status = s]
    <3>1. PICK s \in {"done", "canceled"} : reminder' = [reminder EXCEPT ![r].status = s]
      BY <2>1
    <3>2. PICK x \in ReminderRow : x = [reminder[r] EXCEPT !.status = s]
      BY <1>3 DEF ReminderRow
    <3>3. x.status = s
      BY <1>3, <3>2 DEF ReminderRow
    <3>4. reminder' = [reminder EXCEPT ![r] = x]
      BY <3>1, <3>2
    <3> QED
      BY <3>3, <3>4
  <2>2. CASE reminder' = [reminder EXCEPT ![r].gone = TRUE]
    <3>1. PICK x \in ReminderRow : x = [reminder[r] EXCEPT !.gone = TRUE]
      BY <1>3 DEF ReminderRow
    <3>2. x.status = reminder[r].status
      BY <1>3, <3>1 DEF ReminderRow
    <3> QED
      BY <2>2, <3>1, <3>2
  <2>3. CASE reminder' = [reminder EXCEPT ![r].in = 1]
    <3>1. 1 \in 0..1 /\ reminder[r] \in ReminderRow
      BY <1>3
    <3>2. /\ [reminder[r] EXCEPT !.in = 1] \in ReminderRow
          /\ [reminder[r] EXCEPT !.in = 1].status = reminder[r].status
      BY <3>1, ReminderDueIn
    <3> QED
      BY <2>3, <3>2
  <2> QED
    BY <2>1, <2>2, <2>3 DEF ChangeReminder
<1> QED
  BY <1>1, <1>2, <1>3, <1>4, ReminderPut

LEMMA FireBeginIs ==
    ASSUME SchedInv, RemInv, NEW t \in Threads, FireBegin(t)
    PROVE  SchedInv' /\ RemInv' /\ running' = running
<1>1. /\ loop[t].pc = "call" /\ Goto(t, "fire")
      /\ firing' = [firing EXCEPT ![t].left = {r \in ReminderIds : Kept(r)}]
      /\ met' = (met \/ \E u \in Threads \ {t} : loop[u].pc = "fire")
      /\ UNCHANGED <<jobs, jobsFile, callbacks, running, edits, crashes, reminder, ensured, notified>>
  BY DEF FireBegin, At, sched
<1>2. /\ SchedInv' /\ loop'[t].pc = "fire"
      /\ \A u \in Threads : u # t => loop'[u].pc = loop[u].pc
  BY <1>1, Goes
<1>3. PICK x \in FiringRow : /\ x = [firing[t] EXCEPT !.left = {r \in ReminderIds : Kept(r)}]
                             /\ x.left = {r \in ReminderIds : Kept(r)} /\ x.on = firing[t].on
  <2> DEFINE left == {r \in ReminderIds : Kept(r)}
  <2>1. left \in SUBSET ReminderIds /\ firing[t] \in FiringRow
    BY RemindersAre
  <2> HIDE DEF left
  <2>2. /\ [firing[t] EXCEPT !.left = left] \in FiringRow
        /\ [firing[t] EXCEPT !.left = left].left = left
        /\ [firing[t] EXCEPT !.left = left].on = firing[t].on
    BY <2>1, FiringLeft
  <2> QED
    BY <2>2 DEF left
<1>4. firing[t].on = Absent
  BY <1>1 DEF RemInv, Looks
<1>5. firing' = [firing EXCEPT ![t] = x]
  BY <1>1, <1>3
<1>6. \A u \in Threads : /\ firing'[u].on = firing[u].on
                         /\ firing'[u] = IF u = t THEN x ELSE firing[u]
  BY <1>3, <1>5 DEF RemInv, RemTypes
<1>7. RemTypes'
  BY <1>1, <1>5 DEF RemInv, RemTypes
<1>8. Looks'
  <2> SUFFICES ASSUME NEW u \in Threads
               PROVE  /\ \A r \in firing'[u].left : reminder'[r] # Absent
                      /\ firing'[u].on # Absent => loop'[u].pc = "fire" /\ reminder'[firing'[u].on] # Absent
    BY DEF Looks
  <2>1. CASE u = t
    BY <1>1, <1>3, <1>4, <1>6, <2>1 DEF Kept
  <2>2. CASE u # t
    BY <1>1, <1>2, <1>6, <2>2 DEF RemInv, Looks
  <2> QED
    BY <2>1, <2>2
<1>9. ~met' => Alone'
  BY <1>1, <1>2 DEF Alone
<1>10. \A r \in ReminderIds : Told(r) => Told(r)'
  BY <1>1, <1>6 DEF Told
<1>11. ~met' => ~met
  BY <1>1
<1> QED
  BY <1>1, <1>2, <1>7, <1>8, <1>9, <1>10, <1>11 DEF RemInv

LEMMA FireOneIs ==
    ASSUME SchedInv, RemInv, NEW t \in Threads, NEW r \in ReminderIds, FireOne(t, r)
    PROVE  SchedInv' /\ RemInv' /\ running' = running
<1>1. /\ loop[t].pc = "fire" /\ firing[t].on = Absent /\ r \in firing[t].left
      /\ firing' = [firing EXCEPT ![t].left = @ \ {r}, ![t].on = IF RemDue(r) THEN r ELSE Absent]
      /\ notified' = IF RemDue(r) THEN [notified EXCEPT ![r] = @ + 1] ELSE notified
      /\ UNCHANGED <<jobs, jobsFile, callbacks, running, edits, crashes, loop, reminder, ensured, met>>
  BY DEF FireOne, At, sched
<1>2. SchedInv' /\ crashes \in Nat
  BY <1>1 DEF SchedInv, SchedTypes
<1>3. PICK x \in FiringRow :
        /\ x = [[firing[t] EXCEPT !.left = @ \ {r}] EXCEPT !.on = IF RemDue(r) THEN r ELSE Absent]
        /\ x.left = firing[t].left \ {r} /\ x.on = IF RemDue(r) THEN r ELSE Absent
  <2> DEFINE left == firing[t].left \ {r}
             on == IF RemDue(r) THEN r ELSE Absent
             y == [firing[t] EXCEPT !.left = left]
  <2>1. left \in SUBSET ReminderIds /\ on \in ReminderIds \cup {Absent} /\ firing[t] \in FiringRow
    BY RemindersAre
  <2> HIDE DEF left, on
  <2>2. y \in FiringRow /\ y.left = left
    BY <2>1, FiringLeft
  <2> HIDE DEF y
  <2>3. /\ [y EXCEPT !.on = on] \in FiringRow
        /\ [y EXCEPT !.on = on].left = left /\ [y EXCEPT !.on = on].on = on
    BY <2>1, <2>2, FiringOn
  <2> QED
    BY <2>3 DEF y, left, on
<1>4. firing' = [firing EXCEPT ![t] = x]
  <2>1. firing[t] \in FiringRow /\ firing \in [Threads -> FiringRow]
    BY RemindersAre DEF RemInv, RemTypes
  <2> QED
    BY <1>1, <1>3, <2>1 DEF FiringRow
<1>5. \A u \in Threads : firing'[u] = IF u = t THEN x ELSE firing[u]
  BY <1>4 DEF RemInv, RemTypes
<1>6. \A z \in ReminderIds : /\ notified'[z] = IF z = r /\ RemDue(r) THEN notified[z] + 1 ELSE notified[z]
                             /\ notified'[z] \in Nat
  BY <1>1, RemindersAre DEF RemInv, RemTypes
<1>7. RemTypes'
  <2>1. notified' \in [ReminderIds -> Nat]
    BY <1>1, RemindersAre DEF RemInv, RemTypes
  <2> QED
    BY <1>1, <1>4, <2>1 DEF RemInv, RemTypes
<1>8. Looks'
  <2>1. reminder[r] # Absent
    BY <1>1 DEF RemInv, Looks
  <2> SUFFICES ASSUME NEW u \in Threads
               PROVE  /\ \A z \in firing'[u].left : reminder'[z] # Absent
                      /\ firing'[u].on # Absent => loop'[u].pc = "fire" /\ reminder'[firing'[u].on] # Absent
    BY DEF Looks
  <2>2. CASE u = t
    BY <1>1, <1>3, <1>5, <2>1, <2>2 DEF RemInv, Looks
  <2>3. CASE u # t
    BY <1>1, <1>5, <2>3 DEF RemInv, Looks
  <2> QED
    BY <2>2, <2>3
<1>9. ASSUME ~met' PROVE Alone' /\ \A z \in ReminderIds : Told(z)'
  <2>1. Alone /\ Alone'
    BY <1>1, <1>9 DEF RemInv, Alone
  <2>2. \A u \in Threads : firing[u].on = Absent
    BY <1>1, <2>1 DEF RemInv, Looks, Alone
  <2>3. ASSUME NEW z \in ReminderIds PROVE Told(z)'
    <3>1. Told(z) /\ notified[z] \in Nat /\ z # Absent
      BY <1>1, <1>9, RemindersAre DEF RemInv
    <3>2. CASE z = r /\ RemDue(r)
      <4>1. reminder[r] # Absent /\ reminder[r].status = "pending"
        BY <1>1, <3>2 DEF RemDue, RemInv, Looks
      <4>2. notified[r] <= crashes
        BY <2>2, <3>1, <3>2, <4>1 DEF Told
      <4>3. firing'[t].on = r /\ notified'[r] = notified[r] + 1
        BY <1>3, <1>5, <1>6, <3>2
      <4>4. notified'[r] <= 1 + crashes
        BY <1>2, <3>1, <3>2, <4>2, <4>3
      <4> QED
        BY <1>1, <3>2, <4>1, <4>3, <4>4 DEF Told
    <3>3. CASE ~(z = r /\ RemDue(r))
      <4>1. notified'[z] = notified[z]
        BY <1>6, <3>3
      <4>2. x.on # z
        BY <1>3, <3>1, <3>3
      <4>3. \A u \in Threads : firing'[u].on # z
        BY <1>5, <2>2, <3>1, <4>2
      <4> QED
        BY <1>1, <2>2, <3>1, <4>1, <4>3 DEF Told
    <3> QED
      BY <3>2, <3>3
  <2> QED
    BY <2>1, <2>3
<1> QED
  BY <1>1, <1>2, <1>7, <1>8, <1>9 DEF RemInv

LEMMA FireMarkIs ==
    ASSUME SchedInv, RemInv, NEW t \in Threads, FireMark(t)
    PROVE  SchedInv' /\ RemInv' /\ running' = running
<1> DEFINE r == firing[t].on
<1>1. /\ loop[t].pc = "fire" /\ r \in ReminderIds /\ r # Absent
      /\ reminder' = [reminder EXCEPT ![r].status = "fired"]
      /\ firing' = [firing EXCEPT ![t].on = Absent]
      /\ UNCHANGED <<jobs, jobsFile, callbacks, running, edits, crashes, loop, ensured, notified, met>>
  BY RemindersAre DEF FireMark, At, sched
<1>2. SchedInv' /\ crashes \in Nat
  BY <1>1 DEF SchedInv, SchedTypes
<1>3. reminder[r] # Absent /\ reminder[r] \in ReminderRow
  BY <1>1, RemindersAre DEF RemInv, Looks
<1>4. PICK y \in ReminderRow : y = [reminder[r] EXCEPT !.status = "fired"] /\ y.status = "fired"
  BY <1>3, ReminderFired
<1>5. PICK x \in FiringRow : /\ x = [firing[t] EXCEPT !.on = Absent]
                             /\ x.left = firing[t].left /\ x.on = Absent
  <2>1. firing[t] \in FiringRow /\ Absent \in ReminderIds \cup {Absent}
    BY RemindersAre
  <2> QED
    BY <2>1, FiringOn
<1>6. reminder' = [reminder EXCEPT ![r] = y] /\ firing' = [firing EXCEPT ![t] = x]
  BY <1>1, <1>4, <1>5
<1> HIDE DEF r
<1>7. /\ \A z \in ReminderIds : reminder'[z] = IF z = r THEN y ELSE reminder[z]
      /\ \A u \in Threads : firing'[u] = IF u = t THEN x ELSE firing[u]
  BY <1>6 DEF RemInv, RemTypes
<1>8. RemTypes'
  BY <1>1, <1>6 DEF RemInv, RemTypes
<1>9. \A z \in ReminderIds : reminder[z] # Absent => reminder'[z] # Absent
  BY <1>7, RemindersAre
<1>10. Looks'
  <2> SUFFICES ASSUME NEW u \in Threads
               PROVE  /\ \A z \in firing'[u].left : reminder'[z] # Absent
                      /\ firing'[u].on # Absent => loop'[u].pc = "fire" /\ reminder'[firing'[u].on] # Absent
    BY DEF Looks
  <2>1. /\ firing'[u].left = firing[u].left /\ firing'[u].on \in {firing[u].on, Absent}
    BY <1>5, <1>7
  <2>2. /\ firing[u].left \subseteq ReminderIds /\ firing[u].on \in ReminderIds \cup {Absent}
        /\ \A z \in firing[u].left : reminder[z] # Absent
        /\ firing[u].on # Absent => loop[u].pc = "fire" /\ reminder[firing[u].on] # Absent
    BY RemindersAre DEF RemInv, Looks
  <2> QED
    BY <1>1, <1>9, <2>1, <2>2
<1>11. ASSUME ~met', NEW z \in ReminderIds PROVE Told(z)'
  <2>1. Told(z) /\ notified[z] \in Nat
    BY <1>1, <1>11, RemindersAre DEF RemInv
  <2>2. CASE z = r
    <3>1. notified[z] <= 1 + crashes
      BY <1>2, <1>3, <2>1, <2>2 DEF Told
    <3>2. reminder'[z] = y /\ y # Absent /\ y.status # "pending"
      BY <1>4, <1>7, <2>2, RemindersAre
    <3> QED
      BY <1>1, <3>1, <3>2 DEF Told
  <2>3. CASE z # r
    <3>1. \A u \in Threads : firing'[u].on = z <=> firing[u].on = z
      BY <1>5, <1>7, <2>3, RemindersAre DEF r
    <3> QED
      BY <1>1, <1>7, <2>1, <2>3, <3>1 DEF Told
  <2> QED
    BY <2>2, <2>3
<1>12. Alone => Alone'
  BY <1>1 DEF Alone
<1> QED
  BY <1>1, <1>2, <1>8, <1>10, <1>11, <1>12 DEF RemInv

LEMMA FireEndIs ==
    ASSUME SchedInv, RemInv, NEW t \in Threads, FireEnd(t)
    PROVE  SchedInv' /\ RemInv' /\ running' = running
<1>1. /\ loop[t].pc = "fire" /\ firing[t] = NoFiring /\ Goto(t, "finish")
      /\ UNCHANGED <<jobs, jobsFile, callbacks, running, edits, crashes>>
      /\ UNCHANGED <<reminder, ensured, firing, notified, met>>
  BY DEF FireEnd, At, sched, remVars
<1>2. /\ SchedInv' /\ loop'[t].pc = "finish"
      /\ \A u \in Threads : u # t => loop'[u].pc = loop[u].pc
  BY <1>1, Goes
<1>3. firing[t].on = Absent
  BY <1>1, NoFiringIs
<1>4. Looks'
  BY <1>1, <1>2, <1>3 DEF RemInv, Looks
<1>5. Alone => Alone'
  BY <1>2 DEF Alone
<1>6. \A r \in ReminderIds : Told(r) => Told(r)'
  BY <1>1 DEF Told
<1>7. RemTypes'
  BY <1>1 DEF RemInv, RemTypes
<1> QED
  BY <1>1, <1>2, <1>4, <1>5, <1>6, <1>7 DEF RemInv

LEMMA RemTickIs ==
    ASSUME RemInv, SameFires, crashes' = crashes, RemTick PROVE RemInv'
<1>1. reminder' = Sooner(reminder) /\ UNCHANGED <<ensured, firing, notified, met>>
  BY DEF RemTick
<1>2. ASSUME NEW r \in ReminderIds
      PROVE  /\ reminder'[r] \in ReminderRow \cup {Absent}
             /\ reminder'[r] = Absent <=> reminder[r] = Absent
             /\ reminder[r] # Absent => reminder'[r].status = reminder[r].status
  <2>1. CASE reminder[r] = Absent
    BY <1>1, <2>1 DEF Sooner
  <2>2. CASE reminder[r] # Absent
    <3>1. reminder[r] \in ReminderRow /\ reminder[r].in \in 0..1
      BY <2>2, RemindersAre DEF ReminderRow
    <3>2. PICK n \in 0..1 : n = Lower(reminder[r].in)
      BY <3>1 DEF Lower
    <3>3. PICK y \in ReminderRow : y = [reminder[r] EXCEPT !.in = n] /\ y.status = reminder[r].status
      BY <3>1, ReminderDueIn
    <3>4. reminder'[r] = y
      BY <1>1, <2>2, <3>1, <3>2, <3>3 DEF Sooner, ReminderRow
    <3> QED
      BY <2>2, <3>3, <3>4, RemindersAre
  <2> QED
    BY <2>1, <2>2
<1>3. reminder' \in [ReminderIds -> ReminderRow \cup {Absent}]
  BY <1>1, <1>2 DEF Sooner
<1>4. RemTypes'
  BY <1>1, <1>3 DEF RemInv, RemTypes
<1>5. Looks'
  BY <1>1, <1>2, RemindersAre DEF RemInv, Looks, SameFires
<1>6. Alone => Alone'
  BY DEF Alone, SameFires
<1>7. \A r \in ReminderIds : Told(r) => Told(r)'
  BY <1>1, <1>2 DEF Told
<1> QED
  BY <1>1, <1>4, <1>5, <1>6, <1>7 DEF RemInv

\* A crash may let each reminder be notified once more.
LEMMA RemRestartIs ==
    ASSUME RemInv, crashes \in Nat, crashes' = crashes + 1, \A t \in Threads : loop'[t].pc # "fire",
           RemRestart
    PROVE  RemInv'
<1>1. /\ ensured' = FALSE /\ firing' = [t \in Threads |-> NoFiring] /\ UNCHANGED <<reminder, notified, met>>
  BY DEF RemRestart
<1>2. RemTypes'
  BY <1>1, NoFiringIs DEF RemInv, RemTypes
<1>3. Looks' /\ Alone'
  BY <1>1, NoFiringIs DEF Looks, Alone
<1>4. ASSUME ~met', NEW r \in ReminderIds PROVE Told(r)'
  <2>1. Told(r) /\ notified[r] \in Nat
    BY <1>1, <1>4, RemindersAre DEF RemInv
  <2> QED
    BY <1>1, <2>1 DEF Told
<1> QED
  BY <1>2, <1>3, <1>4 DEF RemInv

-----------------------------------------------------------------------------
(* The supervisor of the services.                                           *)

\* When it is not up nothing of it holds the lock or runs.
SupInv ==
    /\ keeper \in {"new", "up", "down"}
    /\ keeper # "up" => service = "stopped" /\ running = FALSE
                        /\ health \in {"none", "sleep", "wait", "ended"}

\* The inductive invariant.
SvcInv == SchedInv /\ RemInv /\ SupInv

StaysDown == keeper = "down" /\ keeper' = "down" => running' = FALSE

LEMMA SvcInitial == SvcInit => SvcInv
<1> SUFFICES ASSUME SvcInit PROVE SvcInv
  OBVIOUS
<1>1. SchedInv /\ running = FALSE /\ \A t \in Threads : loop[t].pc # "fire"
  BY SchedInitial DEF SvcInit
<1>2. RemTypes /\ Looks /\ Alone
  BY <1>1, NoFiringIs DEF SvcInit, RemInit, RemTypes, Looks, Alone
<1>3. \A r \in ReminderIds : Told(r)
  BY DEF SvcInit, RemInit, Told
<1> QED
  BY <1>1, <1>2, <1>3 DEF SvcInv, RemInv, SupInv, SvcInit, SupInit

\* A step that leaves the supervisor alone.
LEMMA OthersMove ==
    ASSUME SvcInv, SchedInv', RemInv', running' = running, UNCHANGED supVars
    PROVE  SvcInv' /\ StaysDown
  BY DEF SvcInv, SupInv, StaysDown, supVars

LEMMA SupStartIs == ASSUME SvcInv, SupStart PROVE SvcInv' /\ StaysDown
<1>1. SchedInv' /\ SameFires /\ crashes' = crashes
  BY StartLoopIs DEF SvcInv, SupStart
<1>2. RemInv'
  BY <1>1, RemindersRest DEF SvcInv, SupStart
<1> QED
  BY <1>1, <1>2 DEF SvcInv, SupInv, SupStart, StaysDown

LEMMA HealthStepIs == ASSUME SvcInv, HealthStep PROVE SvcInv' /\ StaysDown
<1>1. CASE HealthWakes \/ HealthChecks
  <2>1. UNCHANGED <<jobs, jobsFile, callbacks, running, loop, edits, crashes>> /\ UNCHANGED remVars
        /\ UNCHANGED <<keeper, service>>
    BY <1>1 DEF HealthWakes, HealthChecks, schedVars
  <2>2. SchedInv' /\ SameFires
    BY <2>1 DEF SvcInv, SchedInv, SchedTypes, SameFires
  <2>3. RemInv'
    BY <2>1, <2>2, RemindersRest DEF SvcInv
  <2>4. SupInv'
    BY <1>1, <2>1 DEF SvcInv, SupInv, HealthWakes, HealthChecks
  <2> QED
    BY <2>1, <2>2, <2>3, <2>4 DEF SvcInv, SupInv, StaysDown
<1>2. CASE StopService
  <2>1. /\ UNCHANGED <<jobs, jobsFile, callbacks, loop, edits, crashes>> /\ UNCHANGED remVars
        /\ running' = FALSE /\ keeper' = keeper /\ keeper = "up"
    BY <1>2 DEF StopService, schedRest, SvcInv, SupInv
  <2>2. SchedInv' /\ SameFires
    BY <2>1 DEF SvcInv, SchedInv, SchedTypes, SameFires
  <2>3. RemInv'
    BY <2>1, <2>2, RemindersRest DEF SvcInv
  <2> QED
    BY <2>1, <2>2, <2>3 DEF SvcInv, SupInv, StaysDown
<1>3. CASE StartService
  <2>1. keeper' = keeper /\ keeper = "up" /\ StartLoop /\ UNCHANGED schedRest /\ UNCHANGED remVars
    BY <1>3 DEF StartService, SvcInv, SupInv
  <2>2. SchedInv' /\ SameFires /\ crashes' = crashes
    BY <2>1, StartLoopIs DEF SvcInv
  <2>3. RemInv'
    BY <2>1, <2>2, RemindersRest DEF SvcInv
  <2> QED
    BY <2>1, <2>2, <2>3 DEF SvcInv, SupInv, StaysDown
<1> QED
  BY <1>1, <1>2, <1>3 DEF HealthStep

LEMMA SupStopIs == ASSUME SvcInv, SupStop PROVE SvcInv' /\ StaysDown
<1>1. /\ UNCHANGED <<jobs, jobsFile, callbacks, loop, edits, crashes>> /\ UNCHANGED remVars
      /\ running' = FALSE /\ keeper' = "down" /\ service' = "stopped" /\ health' = health
      /\ health \in {"none", "sleep", "wait", "ended"}
  BY DEF SupStop, schedRest, LockFree
<1>2. SchedInv' /\ SameFires
  BY <1>1 DEF SvcInv, SchedInv, SchedTypes, SameFires
<1>3. RemInv'
  BY <1>1, <1>2, RemindersRest DEF SvcInv
<1> QED
  BY <1>1, <1>2, <1>3 DEF SvcInv, SupInv, StaysDown

LEMMA SvcTickIs == ASSUME SvcInv, SvcTick PROVE SvcInv' /\ StaysDown
<1>1. SchedTick /\ RemTick /\ UNCHANGED <<callbacks, running, edits, crashes>> /\ UNCHANGED supVars
  BY DEF SvcTick, supVars
<1>2. Quietly
  BY <1>1, SchedTickIs DEF SvcInv
<1>3. RemInv'
  BY <1>1, <1>2, RemTickIs DEF SvcInv, Quietly
<1> QED
  BY <1>1, <1>2, <1>3, OthersMove DEF Quietly

LEMMA SvcRestartIs == ASSUME SvcInv, SvcRestart PROVE SvcInv' /\ StaysDown
<1>1. /\ SchedInv' /\ running' = FALSE /\ crashes' = crashes + 1 /\ crashes \in Nat
      /\ \A t \in Threads : loop'[t].pc # "fire"
  BY SchedRestartIs DEF SvcInv, SvcRestart, SchedInv, SchedTypes
<1>2. RemInv'
  BY <1>1, RemRestartIs DEF SvcInv, SvcRestart
<1> QED
  BY <1>1, <1>2 DEF SvcInv, SupInv, SvcRestart, StaysDown

LEMMA ThreadStepIs ==
    ASSUME SvcInv, NEW t \in Threads, ThreadStep(t) PROVE SvcInv' /\ StaysDown
<1>1. CASE (SchedStep(t) \/ CallOther(t)) /\ UNCHANGED <<remVars, supVars>>
  <2>1. Quietly
    BY <1>1, SchedStepIs DEF SvcInv
  <2>2. RemInv'
    BY <1>1, <2>1, RemindersRest DEF SvcInv, Quietly
  <2> QED
    BY <1>1, <2>1, <2>2, OthersMove DEF Quietly
<1>2. CASE RemStep(t) /\ UNCHANGED supVars
  <2>1. SchedInv' /\ RemInv' /\ running' = running
    BY <1>2, FireBeginIs, FireOneIs, FireMarkIs, FireEndIs DEF SvcInv, RemStep
  <2> QED
    BY <1>2, <2>1, OthersMove
<1> QED
  BY <1>1, <1>2 DEF ThreadStep

LEMMA SvcInductive ==
    ASSUME SvcInv, [SvcNext]_svcVars PROVE SvcInv' /\ [StaysDown]_svcVars
<1>1. CASE ChangeJob /\ UNCHANGED <<remVars, supVars>>
  <2>1. Quietly
    BY <1>1, ChangeJobIs DEF SvcInv
  <2>2. RemInv'
    BY <1>1, <2>1, RemindersRest DEF SvcInv, Quietly
  <2> QED
    BY <1>1, <2>1, <2>2, OthersMove DEF Quietly
<1>2. CASE RemEdit /\ UNCHANGED supVars
  <2>1. SchedInv' /\ RemInv' /\ running' = running
    BY <1>2, CreateReminderIs, ChangeReminderIs DEF RemEdit, SvcInv
  <2> QED
    BY <1>2, <2>1, OthersMove
<1>3. CASE UNCHANGED svcVars
  <2>1. UNCHANGED <<jobs, jobsFile, callbacks, running, loop, edits, crashes>> /\ UNCHANGED remVars
        /\ UNCHANGED supVars
    BY <1>3 DEF svcVars, schedVars
  <2>2. SchedInv' /\ SameFires
    BY <2>1 DEF SvcInv, SchedInv, SchedTypes, SameFires
  <2>3. RemInv'
    BY <2>1, <2>2, RemindersRest DEF SvcInv
  <2> QED
    BY <1>3, <2>1, <2>2, <2>3, OthersMove
<1> QED
  BY <1>1, <1>2, <1>3, ThreadStepIs, SupStartIs, HealthStepIs, SupStopIs, SvcTickIs, SvcRestartIs
     DEF SvcNext

LEMMA SvcInvariant == SvcSpec => []SvcInv
<1>1. SvcInit => SvcInv
  BY SvcInitial
<1>2. SvcInv /\ [SvcNext]_svcVars => SvcInv'
  BY SvcInductive
<1> QED
  BY <1>1, <1>2, PTL DEF SvcSpec

(* The user is notified of a reminder once, and once more for each crash     *)
(* between the notification and the save, however its owner moves, completes *)
(* or cancels it while fire_due_reminders runs without a lock, unless two    *)
(* runs of the job overlap.                                                  *)
THEOREM RemindersNotifyOnce == SvcSpec => []NotifiedOnce
<1>1. SvcInv => NotifiedOnce
  <2> SUFFICES ASSUME SvcInv, NEW r \in ReminderIds, ~met PROVE notified[r] <= 1 + crashes
    BY DEF NotifiedOnce
  <2>1. Told(r) /\ notified[r] \in Nat /\ crashes \in Nat
    BY RemindersAre DEF SvcInv, RemInv, SchedInv, SchedTypes
  <2> QED
    BY <2>1 DEF Told
<1> QED
  BY <1>1, SvcInvariant, PTL

(* Once stop() of the service supervisor has returned, its health thread,    *)
(* which tests is_running without the lock and takes it afterwards, starts   *)
(* no service again.                                                         *)
THEOREM StoppedServicesStayDown == SvcSpec => DownStaysDown
<1>1. SvcInv /\ [SvcNext]_svcVars
      => [keeper = "down" /\ keeper' = "down" => running' = FALSE]_svcVars
  BY SvcInductive DEF StaysDown
<1> QED
  BY <1>1, SvcInvariant, PTL DEF SvcSpec, DownStaysDown

-----------------------------------------------------------------------------
(* Follow-up cues.  As long as no process has erased what another saved, the *)
(* file knows what the user was asked about and has dismissed.               *)

\* He was asked about the source, or has dismissed its cue.
DoneWith(s) == told[s] > 0 \/ s \in waved

\* What may not bring the cue of a source back any more.
Over(s) ==
    IF s \in CalendarEvents THEN ended[s] # NoCue /\ ended[s] > Lookback ELSE s \in reported

\* A cue is no older than what it is about.
Grounded(s) ==
    cueFile[s] # NoCue =>
        IF s \in CalendarEvents THEN ended[s] # NoCue /\ cueFile[s].age <= ended[s]
        ELSE s \in reported

Remembered(s) ==
    DoneWith(s) => IF cueFile[s] # NoCue
                     THEN /\ cueFile[s].status # "pending"
                          /\ s \in waved => cueFile[s].status = "dismissed"
                     ELSE Over(s)

\* The assistant has the cue of the prompt it fetched, and nothing that it does
\* dismisses it; it has handed the cue out once at most.
Fetched ==
    prefetched # NoCue =>
        prefetched \in Sources /\ cues[prefetched] # NoCue /\ cues[prefetched].status # "dismissed"
HandedOnce == prefetched # NoCue => told[prefetched] <= 1

FollowTypes ==
    /\ ended \in [CalendarEvents -> (0..Oldest) \cup {NoCue}]
    /\ cues \in CueTables /\ cueFile \in CueTables /\ other \in CueTables \cup {NoCue}
    /\ told \in [Sources -> Nat] /\ lost \in BOOLEAN

\* The inductive invariant.
FollowInv ==
    /\ FollowTypes /\ Fetched
    /\ ~lost /\ Lookback <= Expire =>
          HandedOnce /\ \A s \in Sources : Grounded(s) /\ Remembered(s)

\* What a step may not do.
AsksNew ==
    \A s \in Sources : told'[s] # told[s] /\ ~lost' /\ Lookback <= Expire
      => /\ s \notin waved
         /\ told[s] = 0 \/ (told[s] = 1 /\ s = prefetched /\ prefetched' = NoCue)

LEMMA HorizonIs ==
    /\ Oldest \in Nat /\ Oldest > Lookback /\ Oldest > Expire /\ Lookback \in Nat /\ Expire \in Nat
    /\ NoCue \notin 0..Oldest /\ NoCue \notin CueRow /\ NoCue \notin CueTables /\ NoCue \notin Sources
  BY FollowUpsAssumption, NoCueAssumption DEF Oldest

LEMMA NewCueIs ==
    NewCue \in CueRow /\ NewCue # NoCue /\ NewCue.status = "pending" /\ NewCue.age = 0
<1>1. NewCue \in CueRow
  BY HorizonIs DEF NewCue, CueRow
<1> QED
  BY <1>1, HorizonIs DEF NewCue

LEMMA MarkedIs ==
    ASSUME NEW c \in CueRow, NEW st \in {"pending", "asked", "dismissed"}
    PROVE  /\ [c EXCEPT !.status = st] \in CueRow /\ [c EXCEPT !.status = st] # NoCue
           /\ [c EXCEPT !.status = st].status = st /\ [c EXCEPT !.status = st].age = c.age
<1>1. [c EXCEPT !.status = st] \in CueRow
  BY DEF CueRow
<1> QED
  BY <1>1, HorizonIs DEF CueRow

LEMMA OlderCueIs ==
    ASSUME NEW c \in CueRow
    PROVE  LET d == [c EXCEPT !.age = IF @ < Oldest THEN @ + 1 ELSE @] IN
           /\ d \in CueRow /\ d # NoCue /\ d.status = c.status
           /\ d.age = (IF c.age < Oldest THEN c.age + 1 ELSE c.age)
<1>1. c.age \in 0..Oldest
  BY DEF CueRow
<1>2. PICK a \in 0..Oldest : a = IF c.age < Oldest THEN c.age + 1 ELSE c.age
  BY <1>1, HorizonIs
<1>3. [c EXCEPT !.age = IF @ < Oldest THEN @ + 1 ELSE @] = [c EXCEPT !.age = a]
  BY <1>2 DEF CueRow
<1>4. [c EXCEPT !.age = a] \in CueRow /\ [c EXCEPT !.age = a].status = c.status /\ [c EXCEPT !.age = a].age = a
  BY DEF CueRow
<1> QED
  BY <1>2, <1>3, <1>4, HorizonIs

LEMMA FollowInitial == FollowInit => FollowInv
<1> SUFFICES ASSUME FollowInit PROVE FollowInv
  OBVIOUS
<1>1. /\ \A s \in Sources : cueFile[s] = NoCue /\ told[s] = 0 /\ s \notin waved
      /\ FollowTypes /\ Fetched /\ HandedOnce
  BY DEF FollowInit, FollowTypes, CueTables, Fetched, HandedOnce
<1>2. \A s \in Sources : Grounded(s) /\ Remembered(s)
  BY <1>1 DEF Grounded, Remembered, DoneWith
<1> QED
  BY <1>1, <1>2 DEF FollowInv

\* Nothing changes for the sources whose cue is the same in the file.
LEMMA SameCue ==
    ASSUME NEW s \in Sources, Grounded(s), Remembered(s), cueFile'[s] = cueFile[s],
           ended' = ended, reported \subseteq reported',
           told'[s] = told[s], s \in waved' <=> s \in waved
    PROVE  Grounded(s)' /\ Remembered(s)'
  BY DEF Grounded, Remembered, DoneWith, Over

LEMMA StartSessionAsks ==
    ASSUME FollowInv, StartSession PROVE FollowInv' /\ AsksNew
<1>1. /\ cueFile' = [s \in Sources |-> IF s \in Unasked(cueFile) THEN NewCue ELSE cueFile[s]]
      /\ cues' = cueFile' /\ UNCHANGED <<ended, reported, other, told, waved, lost>>
      /\ prefetched' # NoCue => prefetched' \in Askable(cues')
  BY DEF StartSession
<1>2. FollowTypes'
  BY <1>1, NewCueIs DEF FollowInv, FollowTypes, CueTables
<1>3. ASSUME ~lost', Lookback <= Expire, NEW s \in Sources PROVE Grounded(s)' /\ Remembered(s)'
  <2>1. Grounded(s) /\ Remembered(s)
    BY <1>1, <1>3 DEF FollowInv
  <2>2. CASE s \in Unasked(cueFile)
    <3>1. s \in CalendarEvents /\ ended[s] # NoCue /\ ended[s] <= Lookback /\ cueFile[s] = NoCue
      BY <2>2 DEF Unasked
    <3>2. ended[s] \in 0..Oldest
      BY <3>1 DEF FollowInv, FollowTypes
    <3>3. ~DoneWith(s)
      BY <2>1, <3>1, <3>2, HorizonIs DEF Remembered, Over
    <3>4. cueFile'[s] = NewCue
      BY <1>1, <2>2
    <3> QED
      BY <1>1, <3>1, <3>2, <3>3, <3>4, NewCueIs DEF Grounded, Remembered, DoneWith
  <2>3. CASE s \notin Unasked(cueFile)
    <3>1. cueFile'[s] = cueFile[s]
      BY <1>1, <2>3
    <3> QED
      BY <1>1, <2>1, <3>1, SameCue
  <2> QED
    BY <2>2, <2>3
<1>4. prefetched' # NoCue => /\ prefetched' \in Sources /\ cues'[prefetched'] # NoCue
                             /\ cues'[prefetched'].status = "pending"
  BY <1>1 DEF Askable
<1>5. ASSUME ~lost', Lookback <= Expire, prefetched' # NoCue PROVE told[prefetched'] <= 1
  <2>1. told[prefetched'] \in Nat
    BY <1>4, <1>5 DEF FollowInv, FollowTypes
  <2>2. ~(told'[prefetched'] > 0)
    BY <1>1, <1>3, <1>4, <1>5 DEF Remembered, DoneWith
  <2> QED
    BY <1>1, <2>1, <2>2
<1> QED
  BY <1>1, <1>2, <1>3, <1>4, <1>5 DEF FollowInv, AsksNew, Fetched, HandedOnce

LEMMA CollectFollowupsAsks ==
    ASSUME FollowInv, CollectFollowups PROVE FollowInv' /\ AsksNew
<1>1. PICK S \in SUBSET Askable(cues) :
        /\ cues' = [s \in Sources |-> IF s \in S THEN [cues[s] EXCEPT !.status = "asked"] ELSE cues[s]]
        /\ told' = [s \in Sources |-> IF s \in S THEN told[s] + 1 ELSE told[s]]
  BY DEF CollectFollowups
<1>2. /\ cueFile' = cues' /\ lost' = (lost \/ cues # cueFile)
      /\ UNCHANGED <<ended, reported, other, prefetched, waved>>
  BY DEF CollectFollowups, SaveCues
<1>3. FollowTypes
  BY DEF FollowInv
<1>4. \A s \in S : /\ s \in Sources /\ cues[s] \in CueRow /\ cues[s] # NoCue /\ cues[s].status = "pending"
  BY <1>3 DEF Askable, FollowTypes, CueTables
<1>5. \A s \in S : /\ [cues[s] EXCEPT !.status = "asked"] \in CueRow
                   /\ [cues[s] EXCEPT !.status = "asked"] # NoCue
                   /\ [cues[s] EXCEPT !.status = "asked"].status = "asked"
                   /\ [cues[s] EXCEPT !.status = "asked"].age = cues[s].age
  BY <1>4, MarkedIs
<1>6. FollowTypes'
  <2>1. cues' \in CueTables
    BY <1>1, <1>3, <1>5 DEF FollowTypes, CueTables
  <2>2. told' \in [Sources -> Nat]
    BY <1>1, <1>3 DEF FollowTypes
  <2> QED
    BY <1>2, <1>3, <2>1, <2>2 DEF FollowTypes
<1>7. ASSUME ~lost', Lookback <= Expire, NEW s \in Sources
      PROVE  Grounded(s)' /\ Remembered(s)' /\ (told'[s] # told[s] => told[s] = 0 /\ s \notin waved)
  <2>1. Grounded(s) /\ Remembered(s) /\ cues = cueFile
    BY <1>2, <1>7 DEF FollowInv
  <2>2. CASE s \in S
    <3>1. ~DoneWith(s)
      BY <1>4, <2>1, <2>2 DEF Remembered
    <3>2. told[s] \in Nat
      BY <1>3 DEF FollowTypes
    <3>3. cueFile'[s] # NoCue /\ cueFile'[s].status = "asked" /\ cueFile'[s].age = cueFile[s].age
      BY <1>1, <1>2, <1>5, <2>1, <2>2
    <3>4. told[s] = 0 /\ s \notin waved
      BY <3>1, <3>2 DEF DoneWith
    <3> QED
      BY <1>2, <1>4, <2>1, <2>2, <3>3, <3>4 DEF Grounded, Remembered
  <2>3. CASE s \notin S
    <3>1. cueFile'[s] = cueFile[s] /\ told'[s] = told[s]
      BY <1>1, <1>2, <2>1, <2>3
    <3> QED
      BY <1>2, <2>1, <3>1, SameCue
  <2> QED
    BY <2>2, <2>3
<1>8. AsksNew
  BY <1>7 DEF AsksNew
<1>9. Fetched'
  BY <1>1, <1>2, <1>4, <1>5 DEF FollowInv, Fetched
<1>10. ASSUME ~lost', Lookback <= Expire PROVE HandedOnce'
  <2>1. SUFFICES ASSUME prefetched # NoCue PROVE told'[prefetched] <= 1
    BY <1>2 DEF HandedOnce
  <2>2. prefetched \in Sources /\ told[prefetched] \in Nat /\ told[prefetched] <= 1
    BY <1>2, <1>3, <1>10, <2>1 DEF FollowInv, Fetched, HandedOnce, FollowTypes
  <2>3. told'[prefetched] = told[prefetched] \/ told[prefetched] = 0
    BY <1>7, <1>10, <2>2
  <2>4. told'[prefetched] = told[prefetched] \/ told'[prefetched] = told[prefetched] + 1
    BY <1>1, <2>2
  <2> QED
    BY <2>2, <2>3, <2>4
<1> QED
  BY <1>6, <1>7, <1>8, <1>9, <1>10 DEF FollowInv

\* The cue of the prompt fetched is the one thing that may be handed out again.
LEMMA AskPrefetchedAsks ==
    ASSUME FollowInv, AskPrefetched PROVE FollowInv' /\ AsksNew
<1>1. /\ prefetched # NoCue /\ prefetched' = NoCue
      /\ cues' = [cues EXCEPT ![prefetched].status = "asked"]
      /\ told' = [told EXCEPT ![prefetched] = @ + 1]
      /\ cueFile' = cues' /\ lost' = (lost \/ cues # cueFile)
      /\ UNCHANGED <<ended, reported, other, waved>>
  BY DEF AskPrefetched, SaveCues
<1>2. FollowTypes
  BY DEF FollowInv
<1>3. /\ prefetched \in Sources /\ cues[prefetched] # NoCue
      /\ cues[prefetched].status # "dismissed" /\ cues[prefetched] \in CueRow
  BY <1>1, <1>2 DEF FollowInv, Fetched, FollowTypes, CueTables
<1>4. PICK c \in CueRow : /\ c = [cues[prefetched] EXCEPT !.status = "asked"] /\ c # NoCue
                          /\ c.status = "asked" /\ c.age = cues[prefetched].age
  BY <1>3, MarkedIs
<1>5. cues' \in CueTables /\ \A s \in Sources : cues'[s] = IF s = prefetched THEN c ELSE cues[s]
  BY <1>1, <1>2, <1>3, <1>4 DEF FollowTypes, CueTables
<1>6. /\ told' \in [Sources -> Nat]
      /\ \A s \in Sources : told'[s] = IF s = prefetched THEN told[s] + 1 ELSE told[s]
  BY <1>1, <1>2, <1>3 DEF FollowTypes
<1>7. FollowTypes' /\ Fetched'
  BY <1>1, <1>2, <1>5, <1>6 DEF FollowTypes, Fetched
<1>8. ASSUME ~lost', Lookback <= Expire, NEW s \in Sources
      PROVE  /\ Grounded(s)' /\ Remembered(s)'
             /\ told'[s] # told[s] => s \notin waved /\ s = prefetched /\ (told[s] = 0 \/ told[s] = 1)
  <2>1. Grounded(s) /\ Remembered(s) /\ cues = cueFile /\ HandedOnce
    BY <1>1, <1>8 DEF FollowInv
  <2>2. CASE s = prefetched
    <3>1. s \notin waved
      BY <1>3, <2>1, <2>2 DEF Remembered, DoneWith
    <3>2. told[s] \in Nat /\ told[s] <= 1
      BY <1>1, <1>2, <2>1, <2>2 DEF HandedOnce, FollowTypes
    <3>3. cueFile'[s] # NoCue /\ cueFile'[s].status = "asked" /\ cueFile'[s].age = cueFile[s].age
      BY <1>1, <1>4, <1>5, <2>1, <2>2
    <3> QED
      BY <1>1, <1>3, <2>1, <2>2, <3>1, <3>2, <3>3 DEF Grounded, Remembered
  <2>3. CASE s # prefetched
    <3>1. cueFile'[s] = cueFile[s] /\ told'[s] = told[s]
      BY <1>1, <1>5, <1>6, <2>1, <2>3
    <3> QED
      BY <1>1, <2>1, <3>1, SameCue
  <2> QED
    BY <2>2, <2>3
<1>9. AsksNew
  BY <1>1, <1>8 DEF AsksNew
<1> QED
  BY <1>1, <1>7, <1>8, <1>9 DEF FollowInv, HandedOnce

\* What the other process saves: it marks cues, drops those that expired and
\* adds those of reminders that have just fired.
LEMMA OtherSavesKeeps ==
    ASSUME FollowInv, NEW new \in CueTables, OtherSaves(new), reported \subseteq reported',
           \A s \in Sources : s \in waved' => s \in waved \/ (new[s] # NoCue /\ new[s].status = "dismissed"),
           other \in CueTables =>
             \A s \in Sources :
               \/ new[s] = other[s]
               \/ /\ new[s] # NoCue /\ other[s] # NoCue /\ new[s].age = other[s].age
                  /\ new[s].status = "dismissed"
               \/ new[s] = NoCue /\ other[s] # NoCue /\ PastExpiry(other[s]) /\ s \notin waved' \ waved
               \/ new[s] = NewCue /\ s \in Reported /\ s \notin reported /\ s \in reported'
    PROVE  FollowInv' /\ AsksNew
<1>1. /\ other \in CueTables /\ cueFile' = new /\ other' = new
      /\ lost' = (lost \/ other # cueFile) /\ UNCHANGED <<ended, cues, prefetched, told>>
  BY DEF OtherSaves, SaveCues, FollowInv, FollowTypes
<1>2. FollowTypes'
  BY <1>1 DEF FollowInv, FollowTypes
<1>3. ASSUME ~lost', Lookback <= Expire, NEW s \in Sources PROVE Grounded(s)' /\ Remembered(s)'
  <2>1. Grounded(s) /\ Remembered(s) /\ other = cueFile
    BY <1>1, <1>3 DEF FollowInv
  <2>2. /\ cueFile[s] \in CueRow \cup {NoCue} /\ new[s] \in CueRow \cup {NoCue}
        /\ s \in CalendarEvents => ended[s] \in (0..Oldest) \cup {NoCue}
    BY DEF FollowInv, FollowTypes, CueTables
  <2>3. CASE new[s] = other[s]
    BY <1>1, <2>1, <2>3 DEF Grounded, Remembered, DoneWith, Over
  <2>4. CASE /\ new[s] # NoCue /\ other[s] # NoCue /\ new[s].age = other[s].age
             /\ new[s].status = "dismissed"
    BY <1>1, <2>1, <2>4 DEF Grounded, Remembered, DoneWith, Over
  <2>5. CASE new[s] = NoCue /\ other[s] # NoCue /\ PastExpiry(other[s]) /\ s \notin waved' \ waved
    <3>1. cueFile[s].age > Expire /\ cueFile[s].age \in 0..Oldest
      BY <2>1, <2>2, <2>5 DEF PastExpiry, CueRow
    <3>2. Over(s)
      BY <1>3, <2>1, <2>2, <2>5, <3>1, HorizonIs DEF Grounded, Over
    <3> QED
      BY <1>1, <2>5, <3>2 DEF Grounded, Remembered, Over
  <2>6. CASE new[s] = NewCue /\ s \in Reported /\ s \notin reported /\ s \in reported'
    <3>1. s \notin CalendarEvents
      BY <2>6, FollowUpsAssumption
    <3>2. ~DoneWith(s)
      BY <2>1, <2>6, <3>1 DEF Grounded, Remembered, Over
    <3>3. s \notin waved'
      BY <2>6, <3>2, NewCueIs DEF DoneWith
    <3> QED
      BY <1>1, <2>6, <3>1, <3>2, <3>3, NewCueIs DEF Grounded, Remembered, DoneWith
  <2> QED
    BY <1>1, <2>3, <2>4, <2>5, <2>6
<1> QED
  BY <1>1, <1>2, <1>3 DEF FollowInv, AsksNew, Fetched, HandedOnce

LEMMA ReminderCueAsks ==
    ASSUME FollowInv, NEW r \in Reported, ReminderCue(r) PROVE FollowInv' /\ AsksNew
<1>1. /\ other \in CueTables /\ r \in Sources /\ r \notin reported /\ reported' = reported \cup {r}
      /\ OtherSaves([other EXCEPT ![r] = NewCue]) /\ waved' = waved
  BY DEF ReminderCue, OtherSaves, FollowInv, FollowTypes, Sources
<1>2. [other EXCEPT ![r] = NewCue] \in CueTables
  BY <1>1, NewCueIs DEF CueTables
<1>3. \A s \in Sources : [other EXCEPT ![r] = NewCue][s] = IF s = r THEN NewCue ELSE other[s]
  BY <1>1 DEF CueTables
<1> QED
  BY <1>1, <1>2, <1>3, OtherSavesKeeps

LEMMA DismissAsks ==
    ASSUME FollowInv, NEW s \in Sources, Dismiss(s) PROVE FollowInv' /\ AsksNew
<1>1. /\ other \in CueTables /\ other[s] # NoCue /\ other[s] \in CueRow
      /\ OtherSaves([other EXCEPT ![s].status = "dismissed"])
      /\ waved' = waved \cup {s} /\ reported' = reported
  BY DEF Dismiss, FollowInv, FollowTypes, CueTables
<1>2. PICK c \in CueRow : /\ c = [other[s] EXCEPT !.status = "dismissed"] /\ c # NoCue
                          /\ c.status = "dismissed" /\ c.age = other[s].age
  BY <1>1, MarkedIs
<1>3. [other EXCEPT ![s].status = "dismissed"] = [other EXCEPT ![s] = c]
  BY <1>1, <1>2 DEF CueTables
<1>4. /\ [other EXCEPT ![s] = c] \in CueTables
      /\ \A z \in Sources : [other EXCEPT ![s] = c][z] = IF z = s THEN c ELSE other[z]
  BY <1>1 DEF CueTables
<1>5. OtherSaves([other EXCEPT ![s] = c])
  BY <1>1, <1>3
<1> QED
  BY <1>1, <1>2, <1>4, <1>5, OtherSavesKeeps

LEMMA PruneExpiredAsks ==
    ASSUME FollowInv, PruneExpired PROVE FollowInv' /\ AsksNew
<1> DEFINE new == [s \in Sources |-> IF other[s] # NoCue /\ PastExpiry(other[s]) THEN NoCue ELSE other[s]]
<1>1. other \in CueTables /\ OtherSaves(new) /\ UNCHANGED <<waved, reported>>
  BY DEF PruneExpired, FollowInv, FollowTypes
<1>2. new \in CueTables
  BY <1>1 DEF CueTables
<1>3. \A s \in Sources : new[s] = other[s] \/ (new[s] = NoCue /\ other[s] # NoCue /\ PastExpiry(other[s]))
  OBVIOUS
<1> HIDE DEF new
<1> QED
  BY <1>1, <1>2, <1>3, OtherSavesKeeps

LEMMA AgedTable ==
    ASSUME NEW table \in CueTables
    PROVE  /\ Aged(table) \in CueTables
           /\ \A s \in Sources :
                /\ Aged(table)[s] = NoCue <=> table[s] = NoCue
                /\ table[s] # NoCue =>
                     /\ table[s] \in CueRow /\ Aged(table)[s].status = table[s].status
                     /\ Aged(table)[s].age =
                          (IF table[s].age < Oldest THEN table[s].age + 1 ELSE table[s].age)
<1>1. \A s \in Sources : table[s] # NoCue => table[s] \in CueRow
  BY DEF CueTables
<1>2. ASSUME NEW s \in Sources
      PROVE  /\ Aged(table)[s] \in CueRow \cup {NoCue}
             /\ Aged(table)[s] = NoCue <=> table[s] = NoCue
             /\ table[s] # NoCue =>
                  /\ table[s] \in CueRow /\ Aged(table)[s].status = table[s].status
                  /\ Aged(table)[s].age =
                       (IF table[s].age < Oldest THEN table[s].age + 1 ELSE table[s].age)
  BY <1>1, OlderCueIs DEF Aged
<1>3. Aged(table) \in CueTables
  BY <1>2 DEF Aged, CueTables
<1> QED
  BY <1>2, <1>3

LEMMA AnHourPassesAsks ==
    ASSUME FollowInv, AnHourPasses PROVE FollowInv' /\ AsksNew
<1>1. /\ cues' = Aged(cues) /\ cueFile' = Aged(cueFile)
      /\ other' = IF other = NoCue THEN NoCue ELSE Aged(other)
      /\ UNCHANGED <<reported, prefetched, told, waved, lost>>
      /\ ended' = [e \in CalendarEvents |-> IF ended[e] = NoCue THEN NoCue
                     ELSE IF ended[e] < Oldest THEN ended[e] + 1 ELSE ended[e]]
  BY DEF AnHourPasses
<1>2. FollowTypes
  BY DEF FollowInv
<1>3. \A e \in CalendarEvents :
        /\ ended[e] \in (0..Oldest) \cup {NoCue} /\ ended'[e] \in (0..Oldest) \cup {NoCue}
        /\ ended[e] # NoCue => /\ ended'[e] # NoCue
                               /\ ended'[e] = IF ended[e] < Oldest THEN ended[e] + 1 ELSE ended[e]
  BY <1>1, <1>2, HorizonIs DEF FollowTypes
<1>4. FollowTypes'
  <2>1. ended' \in [CalendarEvents -> (0..Oldest) \cup {NoCue}]
    BY <1>1, <1>3
  <2>2. cues' \in CueTables /\ cueFile' \in CueTables /\ other' \in CueTables \cup {NoCue}
    BY <1>1, <1>2, AgedTable DEF FollowTypes
  <2> QED
    BY <1>1, <1>2, <2>1, <2>2 DEF FollowTypes
<1>5. ASSUME ~lost', Lookback <= Expire, NEW s \in Sources PROVE Grounded(s)' /\ Remembered(s)'
  <2>1. Grounded(s) /\ Remembered(s)
    BY <1>1, <1>5 DEF FollowInv
  <2>2. /\ cueFile'[s] = NoCue <=> cueFile[s] = NoCue
        /\ cueFile[s] # NoCue =>
             /\ cueFile[s] \in CueRow /\ cueFile'[s].status = cueFile[s].status
             /\ cueFile'[s].age = (IF cueFile[s].age < Oldest THEN cueFile[s].age + 1 ELSE cueFile[s].age)
    BY <1>1, <1>2, AgedTable DEF FollowTypes
  <2>3. cueFile[s] # NoCue => cueFile[s].age \in 0..Oldest
    BY <2>2 DEF CueRow
  <2>4. Over(s) => Over(s)'
    BY <1>1, <1>3, HorizonIs DEF Over
  <2>5. Remembered(s)'
    BY <1>1, <2>1, <2>2, <2>4 DEF Remembered, DoneWith
  <2>6. Grounded(s)'
    BY <1>1, <1>3, <2>1, <2>2, <2>3, HorizonIs DEF Grounded
  <2> QED
    BY <2>5, <2>6
<1>6. Fetched'
  BY <1>1, <1>2, AgedTable DEF FollowInv, FollowTypes, Fetched
<1> QED
  BY <1>1, <1>4, <1>5, <1>6 DEF FollowInv, AsksNew, HandedOnce

LEMMA QuietAsks ==
    ASSUME FollowInv, EndSession \/ OtherOpens \/ OtherEnds \/ UNCHANGED followVars
    PROVE  FollowInv' /\ AsksNew
<1>1. UNCHANGED <<ended, reported, cueFile, told, waved, lost>>
  BY DEF EndSession, OtherOpens, OtherEnds, followVars
<1>2. cues' \in CueTables /\ other' \in CueTables \cup {NoCue}
  BY DEF EndSession, OtherOpens, OtherEnds, followVars, FollowInv, FollowTypes, CueTables
<1>3. FollowTypes'
  BY <1>1, <1>2 DEF FollowInv, FollowTypes
<1>4. \A s \in Sources : (Grounded(s) => Grounded(s)') /\ (Remembered(s) => Remembered(s)')
  BY <1>1 DEF Grounded, Remembered, DoneWith, Over
<1>5. prefetched' = NoCue \/ (prefetched' = prefetched /\ cues' = cues)
  BY DEF EndSession, OtherOpens, OtherEnds, followVars
<1> QED
  BY <1>1, <1>3, <1>4, <1>5 DEF FollowInv, AsksNew, Fetched, HandedOnce

LEMMA EventEndsAsks ==
    ASSUME FollowInv, NEW e \in CalendarEvents, EventEnds(e) PROVE FollowInv' /\ AsksNew
<1>1. /\ ended[e] = NoCue /\ ended' = [ended EXCEPT ![e] = 0]
      /\ UNCHANGED <<reported, cues, cueFile, other, prefetched, told, waved, lost>>
  BY DEF EventEnds
<1>2. FollowTypes'
  BY <1>1, HorizonIs DEF FollowInv, FollowTypes
<1>3. ASSUME ~lost', Lookback <= Expire, NEW s \in Sources PROVE Grounded(s)' /\ Remembered(s)'
  <2>1. Grounded(s) /\ Remembered(s)
    BY <1>1, <1>3 DEF FollowInv
  <2>2. CASE s = e
    <3>1. cueFile[s] = NoCue /\ ~DoneWith(s)
      BY <1>1, <2>1, <2>2 DEF Grounded, Remembered, Over
    <3> QED
      BY <1>1, <3>1 DEF Grounded, Remembered, DoneWith
  <2>3. CASE s # e
    <3>1. s \in CalendarEvents => ended'[s] = ended[s]
      BY <1>1, <2>3 DEF FollowInv, FollowTypes
    <3> QED
      BY <1>1, <2>1, <3>1 DEF Grounded, Remembered, DoneWith, Over
  <2> QED
    BY <2>2, <2>3
<1> QED
  BY <1>1, <1>2, <1>3 DEF FollowInv, AsksNew, Fetched, HandedOnce

LEMMA FollowInductive ==
    ASSUME FollowInv, [FollowNext]_followVars PROVE FollowInv' /\ [AsksNew]_followVars
  BY StartSessionAsks, CollectFollowupsAsks, AskPrefetchedAsks, PruneExpiredAsks, ReminderCueAsks, DismissAsks,
     EventEndsAsks, AnHourPassesAsks, QuietAsks DEF FollowNext

(* The user is not asked again about what he was asked or has dismissed:     *)
(* over sessions, restarts and pruning of expired cues, and whatever the     *)
(* other process does, no source is put into a prompt twice unless a save    *)
(* has erased what another process had saved.  The prompt fetched at the     *)
(* start of a session may repeat once what collect_followups has handed out  *)
(* in that session meanwhile, and still never what was dismissed.            *)
THEOREM NobodyIsAskedAgain == FollowSpec => NeverAskedAgain
<1>1. FollowInit => FollowInv
  BY FollowInitial
<1>2. FollowInv /\ [FollowNext]_followVars => FollowInv' /\ [AsksNew]_followVars
  BY FollowInductive
<1>3. [AsksNew]_followVars
      => [\A s \in Sources : told'[s] # told[s] /\ ~lost' /\ Lookback <= Expire
            => /\ s \notin waved
               /\ told[s] = 0 \/ (told[s] = 1 /\ s = prefetched /\ prefetched' = NoCue)]_followVars
  BY DEF AsksNew
<1> QED
  BY <1>1, <1>2, <1>3, PTL DEF FollowSpec, NeverAskedAgain
=============================================================================
