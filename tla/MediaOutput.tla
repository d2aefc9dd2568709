----------------------------- MODULE MediaOutput -----------------------------
(****************************************************************************)
(* The volume of the speakers while something is played on them: media      *)
(* commands (MediaService.execute of rex/media/service.py) and spoken       *)
(* replies (deliver_spoken_response of rex/output_routing/spoken.py) that   *)
(* are routed with a volume of their own.  Both remember the volume of the  *)
(* speaker, set theirs, act and set the old one back; every call of the     *)
(* speaker is a step, since media commands run in the threads of several    *)
(* programs and spoken replies in the Voice Agent, with no lock in common.  *)
(*                                                                          *)
(* Abstractions.  Volumes are levels further apart than the half point the  *)
(* comparisons tolerate.  Which speaker and which volume a call is routed   *)
(* to is any.  Of what is played only whether the speaker took the command  *)
(* and whether its state confirmed it.  A call of a speaker that does not   *)
(* go as it should spends one of MaxMishaps.                                *)
(****************************************************************************)
EXTENDS Naturals

CONSTANTS
    Speakers,       \* audio targets whose volume can be read and set
    Levels,         \* volumes of a speaker
    Deliveries,     \* threads that execute a command or speak a reply
    NoVolume,       \* a route without a volume; a thread without a delivery
    MaxMishaps      \* bound: calls that fail and programs that die

Purposes == {"media", "volume", "spoken"}
Stages == {"read", "set", "check", "act", "observe", "restore", "confirm"}
DeliveryRow == [purpose: Purposes, speaker: Speakers, route: Levels \cup {NoVolume},
                original: Levels \cup {NoVolume}, step: Stages, good: BOOLEAN]

ASSUME MediaAssumption ==
    /\ NoVolume \notin Levels \cup DeliveryRow
    /\ MaxMishaps \in Nat

VARIABLES
    level,      \* the volume each speaker has
    normal,     \* the volume its owner last gave it (ghost)
    delivery,   \* what each thread is doing
    excused,    \* speakers that could not be restored, and the result says so (ghost)
    mixed,      \* speakers on which deliveries have overlapped since their owner
                \* last turned the knob (ghost)
    mishaps     \* mishaps spent

mediaVars == <<level, normal, delivery, excused, mixed, mishaps>>

MediaTypeOK ==
    /\ level \in [Speakers -> Levels] /\ normal \in [Speakers -> Levels]
    /\ delivery \in [Deliveries -> DeliveryRow \cup {NoVolume}]
    /\ excused \subseteq Speakers /\ mixed \subseteq Speakers /\ mishaps \in 0..MaxMishaps

MediaInit ==
    /\ level \in [Speakers -> Levels] /\ normal = level
    /\ delivery = [d \in Deliveries |-> NoVolume]
    /\ excused = {} /\ mixed = {} /\ mishaps = 0

-----------------------------------------------------------------------------
(* Calls of a speaker.                                                      *)

Idle(s) == \A d \in Deliveries : delivery[d] # NoVolume => delivery[d].speaker # s
Doing(d, step) == delivery[d] # NoVolume /\ delivery[d].step = step
Speaker(d) == delivery[d].speaker
\* The delivery has put its own volume in the place of the one it found.
Changed(d) == delivery[d].original # NoVolume

Costs(fine) == IF fine THEN UNCHANGED mishaps
               ELSE mishaps < MaxMishaps /\ mishaps' = mishaps + 1

\* volume_set: it may be refused, be ignored, or succeed without an answer.
Sets(s, v, accepted) ==
    \E done \in BOOLEAN :
        /\ Costs(done /\ accepted)
        /\ level' = IF done THEN [level EXCEPT ![s] = v] ELSE level

\* get_state or read_volume, compared with v; it may not be readable.
Reads(s, v, matches) ==
    \E readable \in BOOLEAN :
        /\ Costs(readable)
        /\ matches <=> readable /\ level[s] = v

Goes(d, step, good) ==
    delivery' = [delivery EXCEPT ![d].step = step, ![d].good = good]

\* What a delivery reports.  A command succeeds only if its speaker has been
\* restored too.  A reply that was spoken is delivered all the same, with the
\* reason delivered_volume_restore_unverified; the voice loop, which calls it,
\* looks at whether it was delivered and drops the reason.
Result(d, good, restored) ==
    IF good /\ restored THEN "success"
    ELSE IF good /\ delivery[d].purpose = "spoken" THEN "delivered, restore unverified"
    ELSE "no success"

\* The result of thread d; one other than plain success excuses a speaker
\* whose volume could not be restored.
Answers(d, good, restored) ==
    /\ delivery' = [delivery EXCEPT ![d] = NoVolume]
    /\ excused' = IF ~restored /\ Result(d, good, restored) # "success"
                  THEN excused \cup {Speaker(d)} ELSE excused

\* After the action or its failure: the old volume first, if it was changed.
\* Mutant: a delivery that failed leaves at once.
LeavesOff(d, good) ==
    IF Changed(d) /\ good THEN Goes(d, "restore", good) /\ UNCHANGED excused
    ELSE Answers(d, good, TRUE)

WindsUp(d, good) ==
    IF Changed(d) THEN Goes(d, "restore", good) /\ UNCHANGED excused
    ELSE Answers(d, good, TRUE)

-----------------------------------------------------------------------------
(* A delivery, step by step.                                                *)

\* The route is resolved.  A command that sets the volume has no other.  What
\* else is under way on the speaker is not asked.
Begin(d, p, s, v) ==
    /\ delivery[d] = NoVolume
    /\ p = "volume" => v # NoVolume
    /\ delivery' = [delivery EXCEPT ![d] =
           [purpose |-> p, speaker |-> s, route |-> v, original |-> NoVolume, good |-> TRUE,
            step |-> IF p = "volume" \/ v = NoVolume THEN "act" ELSE "read"]]
    /\ mixed' = IF Idle(s) THEN mixed ELSE mixed \cup {s}
    /\ UNCHANGED <<level, normal, excused, mishaps>>

\* The volume to restore.  A command needs to know it, a reply does without.
Read(d) ==
    /\ Doing(d, "read")
    /\ \/ /\ level[Speaker(d)] = delivery[d].route
          /\ Goes(d, "act", TRUE) /\ UNCHANGED <<excused, mishaps>>
       \/ /\ level[Speaker(d)] # delivery[d].route
          /\ delivery' = [delivery EXCEPT ![d].original = level[Speaker(d)], ![d].step = "set"]
          /\ UNCHANGED <<excused, mishaps>>
       \/ /\ Costs(FALSE)
          /\ IF delivery[d].purpose = "media" THEN Answers(d, FALSE, TRUE)
             ELSE Goes(d, "act", TRUE) /\ UNCHANGED excused
    /\ UNCHANGED <<level, normal, mixed>>

SetRouteVolume(d) ==
    /\ Doing(d, "set")
    /\ \E accepted \in BOOLEAN :
         /\ Sets(Speaker(d), delivery[d].route, accepted)
         /\ Goes(d, IF accepted THEN "check" ELSE "restore", accepted)
    /\ UNCHANGED <<normal, excused, mixed>>

CheckRouteVolume(d) ==
    /\ Doing(d, "check")
    /\ \E matches \in BOOLEAN :
         /\ Reads(Speaker(d), delivery[d].route, matches)
         /\ Goes(d, IF matches THEN "act" ELSE "restore", matches)
    /\ UNCHANGED <<level, normal, excused, mixed>>

\* Playing, pausing, speaking: nothing that changes a volume.
Act(d) ==
    /\ Doing(d, "act") /\ delivery[d].purpose # "volume"
    /\ \E accepted \in BOOLEAN :
         /\ Costs(accepted)
         /\ IF accepted /\ delivery[d].purpose = "media"
            THEN Goes(d, "observe", TRUE) /\ UNCHANGED excused
            ELSE WindsUp(d, accepted)
    /\ UNCHANGED <<level, normal, mixed>>

\* The owner asks for a volume: once the speaker has it, it is the normal one.
ActOnVolume(d) ==
    /\ Doing(d, "act") /\ delivery[d].purpose = "volume"
    /\ \E accepted \in BOOLEAN :
         /\ Sets(Speaker(d), delivery[d].route, accepted)
         /\ IF accepted THEN Goes(d, "observe", TRUE)
            ELSE delivery' = [delivery EXCEPT ![d] = NoVolume]
    /\ IF level'[Speaker(d)] = delivery[d].route
       THEN /\ normal' = [normal EXCEPT ![Speaker(d)] = delivery[d].route]
            /\ excused' = excused \ {Speaker(d)}
       ELSE UNCHANGED <<normal, excused>>
    /\ UNCHANGED mixed

\* The state of the speaker confirms what was done, or does not.
Observe(d) ==
    /\ Doing(d, "observe")
    /\ \E verified \in BOOLEAN : WindsUp(d, verified)
    /\ UNCHANGED <<level, normal, mixed, mishaps>>

Restore(d) ==
    /\ Doing(d, "restore")
    /\ \E accepted \in BOOLEAN :
         /\ Sets(Speaker(d), delivery[d].original, accepted)
         /\ IF accepted THEN Goes(d, "confirm", delivery[d].good) /\ UNCHANGED excused
            ELSE Answers(d, delivery[d].good, FALSE)
    /\ UNCHANGED <<normal, mixed>>

ConfirmRestored(d) ==
    /\ Doing(d, "confirm")
    /\ \E matches \in BOOLEAN :
         /\ Reads(Speaker(d), delivery[d].original, matches)
         /\ Answers(d, delivery[d].good, matches)
    /\ UNCHANGED <<level, normal, mixed>>

-----------------------------------------------------------------------------
(* The environment.                                                         *)

\* The program that delivers ends; nothing remembers what it changed.
Ends(d) ==
    /\ delivery[d] # NoVolume /\ Costs(FALSE)
    /\ Answers(d, FALSE, ~Changed(d))
    /\ UNCHANGED <<level, normal, mixed>>

\* The owner turns the knob, not in the middle of a delivery.
Turn(s, v) ==
    /\ Idle(s) /\ level[s] # v
    /\ level' = [level EXCEPT ![s] = v] /\ normal' = [normal EXCEPT ![s] = v]
    /\ excused' = excused \ {s} /\ mixed' = mixed \ {s}
    /\ UNCHANGED <<delivery, mishaps>>

MediaNext ==
    \/ \E d \in Deliveries, p \in Purposes, s \in Speakers, v \in Levels \cup {NoVolume} :
         Begin(d, p, s, v)
    \/ \E d \in Deliveries :
         \/ Read(d)
         \/ SetRouteVolume(d)
         \/ CheckRouteVolume(d)
         \/ Act(d)
         \/ ActOnVolume(d)
         \/ Observe(d)
         \/ Restore(d)
         \/ ConfirmRestored(d)
         \/ Ends(d)
    \/ \E s \in Speakers, v \in Levels : Turn(s, v)

MediaSpec == MediaInit /\ [][MediaNext]_mediaVars

-----------------------------------------------------------------------------
(* Properties.                                                              *)

\* A volume a delivery sets is temporary: where deliveries have followed one
\* another, a speaker on which nothing is under way has the volume its owner
\* gave it, whatever failed in between, unless the restoring itself failed and
\* the result says that.
VolumeComesBack ==
    \A s \in Speakers : Idle(s) => level[s] = normal[s] \/ s \in excused \/ s \in mixed

\* What the plan for output routing asks: the normal volume of a device is not
\* changed by a delivery.  Two that overlap do it.
NormalVolumeKept ==
    \A s \in Speakers : Idle(s) => level[s] = normal[s] \/ s \in excused
=============================================================================
