-------------------------- MODULE Promotion_proofs --------------------------
(***************************************************************************)
(* Proofs about Promotion for any bounds.                                  *)
(***************************************************************************)
EXTENDS Promotion, TLAPS

----------------------------------------------------------------------------
(* Types.                                                                  *)

LEMMA TypeInit == Init => TypeOK
  <1> SUFFICES ASSUME Init PROVE TypeOK
    OBVIOUS
  <1> USE PromotionAssumption DEF Init
  <1>1. review \in [files : Versions \cup {0}, snapshot : Versions \cup {0},
                    hash : Versions \cup {0}]
    BY DEF Versions
  <1>2. workspace \in Workspace
    BY DEF Workspace, Places, Versions
  <1>3. call \in Call
    BY DEF Call, Idle
  <1>4. journal \in [Attempts -> Phases]
    BY DEF Phases
  <1>5. worktree \in Versions /\ promotion \in PromotionStates
    BY DEF Versions, PromotionStates
  <1>6. attempt \in 0..MaxAttempts
    OBVIOUS
  <1>7. crashes \in 0..MaxCrashes /\ faults \in 0..MaxFaults
        /\ edits \in 0..MaxEdits
    OBVIOUS
  <1>8. QED
    BY <1>1, <1>2, <1>3, <1>4, <1>5, <1>6, <1>7 DEF TypeOK

LEMMA GoToType ==
    ASSUME NEW pc \in PollSteps \cup PromoteSteps \cup RecoverySteps,
           call \in Call, GoTo(pc)
    PROVE  call' \in Call
  BY DEF GoTo, Call

LEMMA IdleType == Idle \in Call
  BY PromotionAssumption DEF Idle, Call

LEMMA WritesPhaseType ==
    ASSUME journal \in [Attempts -> Phases], NEW ph \in Phases, WritesPhase(ph)
    PROVE  journal' \in [Attempts -> Phases]
  BY DEF WritesPhase

LEMMA TypeStep == ASSUME TypeOK, [Next]_vars PROVE TypeOK'
  <1>1. CASE PollMaterializes
    <2>1. review' \in [files : Versions \cup {0}, snapshot : Versions \cup {0},
                    hash : Versions \cup {0}]
      BY <1>1 DEF TypeOK, PollMaterializes
    <2>2. QED
      BY <1>1, <2>1, GoToType DEF TypeOK, PollMaterializes, PollSteps, counters
  <1>2. CASE PollSnapshots
    BY <1>2, GoToType DEF TypeOK, PollSnapshots, PollSteps, counters
  <1>3. CASE PollRecords
    BY <1>3, IdleType DEF TypeOK, PollRecords, counters
  <1>4. CASE PromoteBegins
    <2>1. call' \in Call
      BY <1>4, PromotionAssumption DEF TypeOK, PromoteBegins, Call,
         PromoteSteps
    <2>2. QED
      BY <1>4, <2>1 DEF TypeOK, PromoteBegins, counters, durable
  <1>5. CASE ChecksWorkspace 
    BY <1>5, GoToType, IdleType DEF TypeOK, ChecksWorkspace, PrecheckFails,
       counters, PromoteSteps, PromotionStates, Call
  <1>6. CASE ChecksArtifacts
    BY <1>6, GoToType, IdleType DEF TypeOK, ChecksArtifacts, PrecheckFails,
       counters, PromoteSteps, PromotionStates, Call
  <1>7. CASE WritesIntent 
    BY <1>7, GoToType, WritesPhaseType DEF TypeOK, WritesIntent, counters,
       PromoteSteps, Phases
  <1>8. CASE PassesPrechecks
    BY <1>8, GoToType DEF TypeOK, PassesPrechecks, counters, PromoteSteps,
       PromotionStates, Call
  <1>9. CASE WritesDispatched
    BY <1>9, GoToType, WritesPhaseType DEF TypeOK, WritesDispatched, counters,
       PromoteSteps, Phases
  <1>10. CASE Applies
    <2>1. PlaceApplied \in Places
      BY DEF PlaceApplied, Places, ReviewedSection, Section
    <2>2. workspace' \in Workspace
      BY <1>10, <2>1 DEF TypeOK, Applies, Workspace
    <2>3. QED
      BY <1>10, <2>2, GoToType DEF TypeOK, Applies, counters, durable,
         PromoteSteps
  <1>11. CASE ApplyConflicts
    BY <1>11, IdleType DEF TypeOK, ApplyConflicts, counters, durable
  <1>12. CASE MarksApplied
    BY <1>12, GoToType DEF TypeOK, MarksApplied, counters, PromoteSteps,
       PromotionStates
  <1>13. CASE Verifies
    BY <1>13, GoToType DEF TypeOK, Verifies, counters, durable, PromoteSteps
  <1>14. CASE Confirms
    BY <1>14, GoToType DEF TypeOK, Confirms, counters, PromoteSteps,
       PromotionStates
  <1>15. CASE NeedsRollback
    BY <1>15, GoToType DEF TypeOK, NeedsRollback, counters, PromoteSteps,
       PromotionStates
  <1>16. CASE Restores
    BY <1>16, GoToType DEF TypeOK, Restores, counters, durable, PromoteSteps,
       Workspace
  <1>17. CASE RemovesAdded
    BY <1>17, GoToType DEF TypeOK, RemovesAdded, counters, durable,
       PromoteSteps, Workspace, Places
  <1>18. CASE RollsBack
    BY <1>18, GoToType DEF TypeOK, RollsBack, counters, PromoteSteps,
       PromotionStates
  <1>19. CASE AuditsRollback
    BY <1>19, GoToType DEF TypeOK, AuditsRollback, counters, PromoteSteps
  <1>20. CASE Closes
    BY <1>20, WritesPhaseType, IdleType DEF TypeOK, Closes, counters, Phases,
       Call, RecoverySteps
  <1>21. CASE PromoteRaises
    <2>1. faults' \in 0..MaxFaults
      BY <1>21, PromotionAssumption DEF TypeOK, PromoteRaises
    <2>2. QED
      BY <1>21, <2>1, IdleType DEF TypeOK, PromoteRaises, durable
  <1>22. CASE Discards
    BY <1>22 DEF TypeOK, Discards, counters, PromotionStates
  <1>23. CASE Crash
    <2>1. crashes' \in 0..MaxCrashes
      BY <1>23, PromotionAssumption DEF TypeOK, Crash
    <2>2. call' \in Call
      BY <1>23, PromotionAssumption DEF Crash, Call, RecoverySteps
    <2>3. QED
      BY <1>23, <2>1, <2>2 DEF TypeOK, Crash, durable
  <1>24. ASSUME NEW a \in Attempts, RecoversRecord(a) PROVE TypeOK'
    <2>1. PICK pc \in {"closing", "normalizing", "auditing", "guarding"} :
            call' = [call EXCEPT !.attempt = a, !.pc = pc]
      <3>1. journal[a] \in {"intent", "dispatched"}
        BY <1>24 DEF RecoversRecord, NextUnresolved, Left, Unresolved
      <3>2. QED
        BY <1>24, <3>1 DEF RecoversRecord
    <2>2. a \in 0..MaxAttempts
      BY PromotionAssumption DEF Attempts
    <2>3. call' \in Call
      BY <2>1, <2>2 DEF TypeOK, Call, RecoverySteps, PromoteSteps
    <2>4. QED
      BY <1>24, <2>3 DEF TypeOK, RecoversRecord, durable, counters
  <1>25. CASE Normalizes
    BY <1>25, GoToType DEF TypeOK, Normalizes, counters, PromoteSteps,
       PromotionStates, Call
  <1>26. CASE Guards
    BY <1>26, GoToType DEF TypeOK, Guards, counters, durable, PromoteSteps,
       RecoverySteps
  <1>27. CASE Suspends
    BY <1>27, GoToType DEF TypeOK, Suspends, counters, RecoverySteps,
       PromotionStates
  <1>28. CASE RestoreFails
    <2>1. faults' \in 0..MaxFaults
      BY <1>28, PromotionAssumption DEF TypeOK, RestoreFails
    <2>2. QED
      BY <1>28, <2>1, GoToType DEF TypeOK, RestoreFails, durable, RecoverySteps
  <1>29. CASE RecoveryEnds
    BY <1>29, IdleType DEF TypeOK, RecoveryEnds, durable, counters
  <1>30. CASE Edits
    <2>1. edits' \in 0..MaxEdits
      BY <1>30, PromotionAssumption DEF TypeOK, Edits
    <2>2. workspace' \in Workspace
      BY <1>30 DEF TypeOK, Edits, Workspace
    <2>3. worktree' \in Versions
      BY <1>30 DEF TypeOK, Edits, Versions
    <2>4. QED
      BY <1>30, <2>1, <2>2, <2>3 DEF TypeOK, Edits, durable
  <1>31. CASE TakesEditsBack
    BY <1>31 DEF TypeOK, TakesEditsBack, durable, Workspace, counters
  <1>32. CASE UNCHANGED vars
    BY <1>32 DEF vars, durable, counters, TypeOK
  <1>33. QED
    BY <1>1, <1>2, <1>3, <1>4, <1>5, <1>6, <1>7, <1>8, <1>9, <1>10, <1>11,
       <1>12, <1>13, <1>14, <1>15, <1>16, <1>17, <1>18, <1>19, <1>20, <1>21,
       <1>22, <1>23, <1>24, <1>25, <1>26, <1>27, <1>28, <1>29, <1>30, <1>31,
       <1>32
    DEF Next, Poll, Promote, Recover, User, Quiescent

----------------------------------------------------------------------------
(* The parts of the inductive invariant, step by step.                     *)

(* What a step leaves of the call.                                         *)
LEMMA GoToEffect ==
    ASSUME call \in Call, NEW pc, GoTo(pc)
    PROVE  /\ call'.pc = pc
           /\ call'.attempt = call.attempt
           /\ call'.recovery = call.recovery
  BY DEF GoTo, Call

LEMMA IdleEffect ==
    Idle.pc = "idle" /\ Idle.attempt = 0 /\ Idle.recovery = FALSE
  BY DEF Idle

(* A promotion that is verified added no file: the section of one would    *)
(* name a path in the workspace.                                           *)
LEMMA VerifiedMeans ==
    ASSUME TypeOK, Verified
    PROVE  /\ workspace.change = review.files
           /\ workspace.added = "none"
           /\ addedFile = "none"
  BY DEF TypeOK, Workspace, Verified, WorkspaceSection, ReviewedSection,
         Section

(* The review: what poll() has written, and that promote() looked at it.   *)
LEMMA ReviewInvStep == ASSUME PromotionInv, [Next]_vars PROVE ReviewInv'
  <1> USE GoToEffect, IdleEffect
      DEF PromotionInv, TypeOK, ReviewInv, At, durable, counters, PollSteps,
         PromoteSteps, RecoverySteps, Promotable, Final, Dispatched,
         AnyDispatched, Unresolved, Attempts
  <1>1. CASE PollMaterializes
    <2>1. /\ review'.files = worktree /\ review'.snapshot = review.snapshot
          /\ review'.hash = review.hash
      BY <1>1 DEF PollMaterializes
    <2>2. worktree # 0
      BY DEF Versions
    <2>3. QED
      BY <1>1, <2>1, <2>2 DEF PollMaterializes
  <1>2. CASE PollSnapshots
    BY <1>2 DEF PollSnapshots
  <1>3. CASE PollRecords
    BY <1>3 DEF PollRecords
  <1>4. CASE PromoteBegins
    BY <1>4 DEF PromoteBegins
  <1>5. CASE ChecksWorkspace
    BY <1>5 DEF ChecksWorkspace, PrecheckFails
  <1>6. CASE ChecksArtifacts
    BY <1>6 DEF ChecksArtifacts, PrecheckFails
  <1>7. CASE WritesIntent
    BY <1>7 DEF WritesIntent, WritesPhase
  <1>8. CASE PassesPrechecks
    BY <1>8 DEF PassesPrechecks
  <1>9. CASE WritesDispatched
    <2>1. \A a \in Attempts :
             journal'[a] # "none" => journal[a] # "none" \/ a = call.attempt
      BY <1>9 DEF WritesDispatched, WritesPhase
    <2>2. QED
      BY <1>9, <2>1 DEF WritesDispatched, CallInv
  <1>10. CASE Applies
    BY <1>10 DEF Applies
  <1>11. CASE ApplyConflicts
    BY <1>11 DEF ApplyConflicts
  <1>12. CASE MarksApplied
    BY <1>12 DEF MarksApplied
  <1>13. CASE Verifies
    BY <1>13 DEF Verifies
  <1>14. CASE Confirms
    BY <1>14 DEF Confirms
  <1>15. CASE NeedsRollback
    BY <1>15 DEF NeedsRollback
  <1>16. CASE Restores
    BY <1>16 DEF Restores
  <1>17. CASE RemovesAdded
    BY <1>17 DEF RemovesAdded
  <1>18. CASE RollsBack
    BY <1>18 DEF RollsBack
  <1>19. CASE AuditsRollback
    BY <1>19 DEF AuditsRollback
  <1>20. CASE Closes
    <2>1. \A a \in Attempts :
             journal'[a] # "none" => journal[a] # "none" \/ a = call.attempt
      BY <1>20 DEF Closes, WritesPhase
    <2>2. QED
      BY <1>20, <2>1 DEF Closes, CallInv, RecoverySteps, Call
  <1>21. CASE PromoteRaises
    BY <1>21 DEF PromoteRaises
  <1>22. CASE Discards
    BY <1>22 DEF Discards
  <1>23. CASE Crash
    BY <1>23 DEF Crash
  <1>24. ASSUME NEW a \in Attempts, RecoversRecord(a) PROVE ReviewInv'
    BY <1>24 DEF RecoversRecord, NextUnresolved, Left
  <1>25. CASE Normalizes
    BY <1>25 DEF Normalizes
  <1>26. CASE Guards
    BY <1>26 DEF Guards
  <1>27. CASE Suspends
    BY <1>27 DEF Suspends
  <1>28. CASE RestoreFails
    <2>1. /\ call'.pc = "recovering" /\ call'.recovery = call.recovery
          /\ call'.attempt = call.attempt
          /\ UNCHANGED <<review, promotion, attempt, journal, audited,
                         workspace, addedFile>>
      BY <1>28 DEF RestoreFails
    <2>2. call.recovery /\ call.pc = "restoring"
      BY <1>28 DEF RestoreFails
    <2>3. QED
      BY <2>1, <2>2
  <1>29. CASE RecoveryEnds
    BY <1>29 DEF RecoveryEnds, Left
  <1>30. CASE Edits
    BY <1>30 DEF Edits
  <1>31. CASE TakesEditsBack
    BY <1>31 DEF TakesEditsBack
  <1>32. CASE UNCHANGED vars
    BY <1>32 DEF vars
  <1>33. QED
    BY <1>1, <1>2, <1>3, <1>4, <1>5, <1>6, <1>7, <1>8, <1>9, <1>10, <1>11,
       <1>12, <1>13, <1>14, <1>15, <1>16, <1>17, <1>18, <1>19, <1>20, <1>21,
       <1>22, <1>23, <1>24, <1>25, <1>26, <1>27, <1>28, <1>29, <1>30, <1>31,
       <1>32
    DEF Next, Poll, Promote, Recover, User, Quiescent

(* The journal: order of the attempts and of their phases.                 *)
LEMMA JournalInvStep == ASSUME PromotionInv, [Next]_vars PROVE JournalInv'
  <1> USE GoToEffect, IdleEffect
      DEF PromotionInv, TypeOK, JournalInv, CallInv, StateInv, RecoveryInv,
         At, durable, counters, PollSteps, PromoteSteps, RecoverySteps,
         Promotable, Final, Dispatched, AnyDispatched, Unresolved, Attempts
  <1>1. CASE PollMaterializes
    BY <1>1 DEF PollMaterializes
  <1>2. CASE PollSnapshots
    BY <1>2 DEF PollSnapshots
  <1>3. CASE PollRecords
    BY <1>3 DEF PollRecords
  <1>4. CASE PromoteBegins
    BY <1>4 DEF PromoteBegins
  <1>5. CASE ChecksWorkspace
    BY <1>5 DEF ChecksWorkspace, PrecheckFails
  <1>6. CASE ChecksArtifacts
    BY <1>6 DEF ChecksArtifacts, PrecheckFails
  <1>7. CASE WritesIntent
    BY <1>7 DEF WritesIntent, WritesPhase
  <1>8. CASE PassesPrechecks
    BY <1>8 DEF PassesPrechecks
  <1>9. CASE WritesDispatched
    BY <1>9 DEF WritesDispatched, WritesPhase
  <1>10. CASE Applies
    BY <1>10 DEF Applies
  <1>11. CASE ApplyConflicts
    BY <1>11 DEF ApplyConflicts
  <1>12. CASE MarksApplied
    BY <1>12 DEF MarksApplied
  <1>13. CASE Verifies
    BY <1>13 DEF Verifies
  <1>14. CASE Confirms
    BY <1>14 DEF Confirms
  <1>15. CASE NeedsRollback
    BY <1>15 DEF NeedsRollback
  <1>16. CASE Restores
    BY <1>16 DEF Restores
  <1>17. CASE RemovesAdded
    BY <1>17 DEF RemovesAdded
  <1>18. CASE RollsBack
    BY <1>18 DEF RollsBack
  <1>19. CASE AuditsRollback
    BY <1>19 DEF AuditsRollback
  <1>20. CASE Closes
    BY <1>20 DEF Closes, WritesPhase
  <1>21. CASE PromoteRaises
    BY <1>21 DEF PromoteRaises
  <1>22. CASE Discards
    BY <1>22 DEF Discards
  <1>23. CASE Crash
    BY <1>23 DEF Crash
  <1>24. ASSUME NEW a \in Attempts, RecoversRecord(a) PROVE JournalInv'
    BY <1>24 DEF RecoversRecord, NextUnresolved, Left
  <1>25. CASE Normalizes
    BY <1>25 DEF Normalizes
  <1>26. CASE Guards
    BY <1>26 DEF Guards
  <1>27. CASE Suspends
    BY <1>27 DEF Suspends
  <1>28. CASE RestoreFails
    BY <1>28 DEF RestoreFails
  <1>29. CASE RecoveryEnds
    <2>1. \A a \in Attempts : a > call.attempt => ~ Unresolved(a)
      BY <1>29 DEF RecoveryEnds, Left
    <2>2. call.recovery /\ call.pc = "recovering"
      BY <1>29 DEF RecoveryEnds
    <2>3. Promotable => \A a \in Attempts : ~ Unresolved(a)
      BY <2>1, <2>2
    <2>4. Promotable => \A b \in Attempts : journal[b] # "none" => b <= attempt
      BY <2>3 DEF Phases
    <2>5. UNCHANGED <<journal, promotion, attempt>>
      BY <1>29 DEF RecoveryEnds
    <2>6. QED
      BY <2>4, <2>5
  <1>30. CASE Edits
    BY <1>30 DEF Edits
  <1>31. CASE TakesEditsBack
    BY <1>31 DEF TakesEditsBack
  <1>32. CASE UNCHANGED vars
    BY <1>32 DEF vars
  <1>33. QED
    BY <1>1, <1>2, <1>3, <1>4, <1>5, <1>6, <1>7, <1>8, <1>9, <1>10, <1>11,
       <1>12, <1>13, <1>14, <1>15, <1>16, <1>17, <1>18, <1>19, <1>20, <1>21,
       <1>22, <1>23, <1>24, <1>25, <1>26, <1>27, <1>28, <1>29, <1>30, <1>31,
       <1>32
    DEF Next, Poll, Promote, Recover, User, Quiescent

(* The steps of the calls and of recovery.                                 *)
LEMMA CallInvStep == ASSUME PromotionInv, [Next]_vars PROVE CallInv'
  <1> USE GoToEffect, IdleEffect
      DEF PromotionInv, TypeOK, CallInv, JournalInv, StateInv, ReviewInv, At,
         durable, counters, PollSteps, PromoteSteps, RecoverySteps,
         Promotable, Final, Dispatched, AnyDispatched, Unresolved, Attempts
  <1>1. CASE PollMaterializes
    BY <1>1 DEF PollMaterializes
  <1>2. CASE PollSnapshots
    BY <1>2 DEF PollSnapshots
  <1>3. CASE PollRecords
    BY <1>3 DEF PollRecords
  <1>4. CASE PromoteBegins
    <2>1. /\ call'.pc = "checking" /\ call'.attempt = attempt + 1
          /\ call'.recovery = FALSE
          /\ UNCHANGED <<promotion, attempt>>
      BY <1>4 DEF PromoteBegins
    <2>2. Promotable /\ attempt + 1 \in Attempts
      BY <1>4, PromotionAssumption DEF PromoteBegins
    <2>3. QED
      BY <2>1, <2>2
  <1>5. CASE ChecksWorkspace
    BY <1>5 DEF ChecksWorkspace, PrecheckFails
  <1>6. CASE ChecksArtifacts
    BY <1>6 DEF ChecksArtifacts, PrecheckFails
  <1>7. CASE WritesIntent
    BY <1>7 DEF WritesIntent, WritesPhase
  <1>8. CASE PassesPrechecks
    BY <1>8 DEF PassesPrechecks
  <1>9. CASE WritesDispatched
    BY <1>9 DEF WritesDispatched, WritesPhase
  <1>10. CASE Applies
    BY <1>10 DEF Applies
  <1>11. CASE ApplyConflicts
    BY <1>11 DEF ApplyConflicts
  <1>12. CASE MarksApplied
    BY <1>12 DEF MarksApplied
  <1>13. CASE Verifies
    <2>1. /\ call'.pc = IF Verified THEN "confirming" ELSE "failing"
          /\ call'.recovery = call.recovery /\ call'.attempt = call.attempt
          /\ UNCHANGED <<review, promotion, attempt, journal, audited,
                         workspace, addedFile>>
      BY <1>13 DEF Verifies
    <2>2. call.pc = "verifying"
      BY <1>13 DEF Verifies
    <2>3. Verified => /\ workspace.change = review.files
                      /\ workspace.added = "none"
                      /\ addedFile = "none"
      BY VerifiedMeans
    <2>4. QED
      BY <2>1, <2>2, <2>3
  <1>14. CASE Confirms
    BY <1>14 DEF Confirms
  <1>15. CASE NeedsRollback
    BY <1>15 DEF NeedsRollback
  <1>16. CASE Restores
    BY <1>16 DEF Restores
  <1>17. CASE RemovesAdded
    BY <1>17 DEF RemovesAdded
  <1>18. CASE RollsBack
    BY <1>18 DEF RollsBack
  <1>19. CASE AuditsRollback
    BY <1>19 DEF AuditsRollback
  <1>20. CASE Closes
    BY <1>20 DEF Closes, WritesPhase
  <1>21. CASE PromoteRaises
    BY <1>21 DEF PromoteRaises
  <1>22. CASE Discards
    BY <1>22 DEF Discards
  <1>23. CASE Crash
    BY <1>23 DEF Crash
  <1>24. ASSUME NEW a \in Attempts, RecoversRecord(a) PROVE CallInv'
    BY <1>24 DEF RecoversRecord, NextUnresolved, Left
  <1>25. CASE Normalizes
    BY <1>25 DEF Normalizes
  <1>26. CASE Guards
    BY <1>26 DEF Guards
  <1>27. CASE Suspends
    BY <1>27 DEF Suspends
  <1>28. CASE RestoreFails
    <2>1. /\ call'.pc = "recovering" /\ call'.recovery = call.recovery
          /\ call'.attempt = call.attempt
          /\ UNCHANGED <<review, promotion, attempt, journal, audited,
                         workspace, addedFile>>
      BY <1>28 DEF RestoreFails
    <2>2. call.recovery /\ call.pc = "restoring"
      BY <1>28 DEF RestoreFails
    <2>3. QED
      BY <2>1, <2>2
  <1>29. CASE RecoveryEnds
    BY <1>29 DEF RecoveryEnds, Left
  <1>30. CASE Edits
    <2>1. /\ workspace'.change = workspace.change
          /\ workspace'.added = workspace.added
          /\ UNCHANGED <<review, promotion, attempt, journal, audited,
                         addedFile, call>>
      BY <1>30 DEF Edits, Workspace
    <2>2. QED
      BY <2>1
  <1>31. CASE TakesEditsBack
    BY <1>31 DEF TakesEditsBack
  <1>32. CASE UNCHANGED vars
    BY <1>32 DEF vars
  <1>33. QED
    BY <1>1, <1>2, <1>3, <1>4, <1>5, <1>6, <1>7, <1>8, <1>9, <1>10, <1>11,
       <1>12, <1>13, <1>14, <1>15, <1>16, <1>17, <1>18, <1>19, <1>20, <1>21,
       <1>22, <1>23, <1>24, <1>25, <1>26, <1>27, <1>28, <1>29, <1>30, <1>31,
       <1>32
    DEF Next, Poll, Promote, Recover, User, Quiescent

(* Promotion state, workspace and journal.                                 *)
LEMMA StateInvStep == ASSUME PromotionInv, [Next]_vars PROVE StateInv'
  <1> USE GoToEffect, IdleEffect
      DEF PromotionInv, TypeOK, StateInv, CallInv, JournalInv, ReviewInv,
         RecoveryInv, At, durable, counters, PollSteps, PromoteSteps,
         RecoverySteps, Promotable, Final, Dispatched, AnyDispatched,
         Unresolved, Attempts
  <1>1. CASE PollMaterializes
    BY <1>1 DEF PollMaterializes
  <1>2. CASE PollSnapshots
    BY <1>2 DEF PollSnapshots
  <1>3. CASE PollRecords
    BY <1>3 DEF PollRecords
  <1>4. CASE PromoteBegins
    BY <1>4 DEF PromoteBegins
  <1>5. CASE ChecksWorkspace
    BY <1>5 DEF ChecksWorkspace, PrecheckFails
  <1>6. CASE ChecksArtifacts
    BY <1>6 DEF ChecksArtifacts, PrecheckFails
  <1>7. CASE WritesIntent
    BY <1>7 DEF WritesIntent, WritesPhase
  <1>8. CASE PassesPrechecks
    BY <1>8 DEF PassesPrechecks
  <1>9. CASE WritesDispatched
    BY <1>9 DEF WritesDispatched, WritesPhase
  <1>10. CASE Applies
    BY <1>10 DEF Applies
  <1>11. CASE ApplyConflicts
    BY <1>11 DEF ApplyConflicts
  <1>12. CASE MarksApplied
    BY <1>12 DEF MarksApplied
  <1>13. CASE Verifies
    BY <1>13 DEF Verifies
  <1>14. CASE Confirms
    BY <1>14 DEF Confirms
  <1>15. CASE NeedsRollback
    BY <1>15 DEF NeedsRollback
  <1>16. CASE Restores
    BY <1>16 DEF Restores
  <1>17. CASE RemovesAdded
    BY <1>17 DEF RemovesAdded
  <1>18. CASE RollsBack
    BY <1>18 DEF RollsBack
  <1>19. CASE AuditsRollback
    BY <1>19 DEF AuditsRollback
  <1>20. CASE Closes
    BY <1>20 DEF Closes, WritesPhase
  <1>21. CASE PromoteRaises
    BY <1>21 DEF PromoteRaises
  <1>22. CASE Discards
    BY <1>22 DEF Discards
  <1>23. CASE Crash
    BY <1>23 DEF Crash
  <1>24. ASSUME NEW a \in Attempts, RecoversRecord(a) PROVE StateInv'
    BY <1>24 DEF RecoversRecord, NextUnresolved, Left
  <1>25. CASE Normalizes
    BY <1>25 DEF Normalizes
  <1>26. CASE Guards
    BY <1>26 DEF Guards
  <1>27. CASE Suspends
    BY <1>27 DEF Suspends
  <1>28. CASE RestoreFails
    BY <1>28 DEF RestoreFails
  <1>29. CASE RecoveryEnds
    BY <1>29 DEF RecoveryEnds, Left
  <1>30. CASE Edits
    <2>1. /\ workspace'.change = workspace.change
          /\ workspace'.added = workspace.added
          /\ UNCHANGED <<review, promotion, attempt, journal, audited,
                         addedFile, call>>
      BY <1>30 DEF Edits, Workspace
    <2>2. QED
      BY <2>1
  <1>31. CASE TakesEditsBack
    BY <1>31 DEF TakesEditsBack
  <1>32. CASE UNCHANGED vars
    BY <1>32 DEF vars
  <1>33. QED
    BY <1>1, <1>2, <1>3, <1>4, <1>5, <1>6, <1>7, <1>8, <1>9, <1>10, <1>11,
       <1>12, <1>13, <1>14, <1>15, <1>16, <1>17, <1>18, <1>19, <1>20, <1>21,
       <1>22, <1>23, <1>24, <1>25, <1>26, <1>27, <1>28, <1>29, <1>30, <1>31,
       <1>32
    DEF Next, Poll, Promote, Recover, User, Quiescent

(* What recovery has still to do.                                          *)
LEMMA RecoveryInvStep == ASSUME PromotionInv, [Next]_vars PROVE RecoveryInv'
  <1> USE GoToEffect, IdleEffect
      DEF PromotionInv, TypeOK, RecoveryInv, CallInv, JournalInv, At, durable,
         counters, PollSteps, PromoteSteps, RecoverySteps, Promotable, Final,
         Dispatched, AnyDispatched, Unresolved, Attempts
  <1>1. CASE PollMaterializes
    BY <1>1 DEF PollMaterializes
  <1>2. CASE PollSnapshots
    BY <1>2 DEF PollSnapshots
  <1>3. CASE PollRecords
    BY <1>3 DEF PollRecords
  <1>4. CASE PromoteBegins
    BY <1>4 DEF PromoteBegins
  <1>5. CASE ChecksWorkspace
    BY <1>5 DEF ChecksWorkspace, PrecheckFails
  <1>6. CASE ChecksArtifacts
    BY <1>6 DEF ChecksArtifacts, PrecheckFails
  <1>7. CASE WritesIntent
    BY <1>7 DEF WritesIntent, WritesPhase
  <1>8. CASE PassesPrechecks
    BY <1>8 DEF PassesPrechecks
  <1>9. CASE WritesDispatched
    BY <1>9 DEF WritesDispatched, WritesPhase
  <1>10. CASE Applies
    BY <1>10 DEF Applies
  <1>11. CASE ApplyConflicts
    BY <1>11 DEF ApplyConflicts
  <1>12. CASE MarksApplied
    BY <1>12 DEF MarksApplied
  <1>13. CASE Verifies
    BY <1>13 DEF Verifies
  <1>14. CASE Confirms
    BY <1>14 DEF Confirms
  <1>15. CASE NeedsRollback
    BY <1>15 DEF NeedsRollback
  <1>16. CASE Restores
    BY <1>16 DEF Restores
  <1>17. CASE RemovesAdded
    BY <1>17 DEF RemovesAdded
  <1>18. CASE RollsBack
    BY <1>18 DEF RollsBack
  <1>19. CASE AuditsRollback
    BY <1>19 DEF AuditsRollback
  <1>20. CASE Closes
    BY <1>20 DEF Closes, WritesPhase
  <1>21. CASE PromoteRaises
    BY <1>21 DEF PromoteRaises
  <1>22. CASE Discards
    BY <1>22 DEF Discards
  <1>23. CASE Crash
    BY <1>23 DEF Crash
  <1>24. ASSUME NEW a \in Attempts, RecoversRecord(a) PROVE RecoveryInv'
    BY <1>24 DEF RecoversRecord, NextUnresolved, Left
  <1>25. CASE Normalizes
    <2>1. /\ call'.pc = "closing" /\ call'.attempt = call.attempt
          /\ call'.recovery = call.recovery
          /\ UNCHANGED journal
      BY <1>25 DEF Normalizes
    <2>2. /\ call.pc = "normalizing" /\ call.recovery
          /\ call.attempt \in Attempts /\ journal[call.attempt] = "intent"
      BY <1>25 DEF Normalizes
    <2>3. \A a \in Attempts : journal[a] = "dispatched" => a > call.attempt
      BY <2>2
    <2>4. QED
      BY <2>1, <2>2, <2>3
  <1>26. CASE Guards
    BY <1>26 DEF Guards
  <1>27. CASE Suspends
    BY <1>27 DEF Suspends
  <1>28. CASE RestoreFails
    BY <1>28 DEF RestoreFails
  <1>29. CASE RecoveryEnds
    BY <1>29 DEF RecoveryEnds, Left
  <1>30. CASE Edits
    BY <1>30 DEF Edits
  <1>31. CASE TakesEditsBack
    BY <1>31 DEF TakesEditsBack
  <1>32. CASE UNCHANGED vars
    BY <1>32 DEF vars
  <1>33. QED
    BY <1>1, <1>2, <1>3, <1>4, <1>5, <1>6, <1>7, <1>8, <1>9, <1>10, <1>11,
       <1>12, <1>13, <1>14, <1>15, <1>16, <1>17, <1>18, <1>19, <1>20, <1>21,
       <1>22, <1>23, <1>24, <1>25, <1>26, <1>27, <1>28, <1>29, <1>30, <1>31,
       <1>32
    DEF Next, Poll, Promote, Recover, User, Quiescent

(* Only three steps write the journal; only one ends recovery.             *)
LEMMA JournalFrame ==
    ASSUME [Next]_vars
    PROVE  \/ WritesIntent \/ WritesDispatched \/ Closes
           \/ UNCHANGED journal
  BY DEF Next, Poll, Promote, Recover, User, Quiescent, PollMaterializes,
     PollSnapshots, PollRecords, PromoteBegins, ChecksWorkspace,
     ChecksArtifacts, PassesPrechecks, Applies, ApplyConflicts, MarksApplied,
     Verifies, Confirms, NeedsRollback, Restores, RemovesAdded, RollsBack,
     AuditsRollback, PromoteRaises, Discards, Crash, RecoversRecord,
     Normalizes, Guards, Suspends, RestoreFails, RecoveryEnds, Edits,
     TakesEditsBack, vars, PrecheckFails, durable

LEMMA RecoveryFrame ==
    ASSUME TypeOK, [Next]_vars, At("recovering"), call'.pc = "idle"
    PROVE  RecoveryEnds
  <1>1. ~ Poll /\ ~ Discards /\ ~ Quiescent
    BY DEF At, Poll, PollMaterializes, PollSnapshots, PollRecords, Discards,
       Quiescent
  <1>2. ~ Promote
    BY DEF At, Promote, PromoteBegins, ChecksWorkspace, ChecksArtifacts,
       WritesIntent, PassesPrechecks, WritesDispatched, Applies,
       ApplyConflicts, MarksApplied, Verifies, Confirms, NeedsRollback,
       Restores, RemovesAdded, RollsBack, AuditsRollback, Closes,
       PromoteRaises, PromoteSteps
  <1>3. ~ Normalizes /\ ~ Guards /\ ~ Suspends /\ ~ RestoreFails
    BY DEF At, Normalizes, Guards, Suspends, RestoreFails
  <1>4. ~ Crash
    BY DEF Crash
  <1>5. ASSUME NEW a \in Attempts, RecoversRecord(a) PROVE FALSE
    <2>1. PICK pc \in {"closing", "normalizing", "auditing", "guarding"} :
            call' = [call EXCEPT !.attempt = a, !.pc = pc]
      <3>1. journal[a] \in {"intent", "dispatched"}
        BY <1>5 DEF RecoversRecord, NextUnresolved, Left, Unresolved
      <3>2. QED
        BY <1>5, <3>1 DEF RecoversRecord
    <2>2. QED
      BY <2>1 DEF TypeOK, Call
  <1>6. ~ User /\ ~ UNCHANGED vars
    BY DEF At, User, Edits, TakesEditsBack, vars
  <1>7. QED
    BY <1>1, <1>2, <1>3, <1>4, <1>5, <1>6 DEF Next, Recover

----------------------------------------------------------------------------
(* The theorems.                                                           *)

LEMMA InvInit == Init => PromotionInv
  <1> SUFFICES ASSUME Init PROVE PromotionInv
    OBVIOUS
  <1>1. TypeOK
    BY TypeInit
  <1>2. At("idle") /\ ~ call.recovery
    BY IdleEffect DEF Init, At
  <1>3. ReviewInv
    BY <1>2 DEF Init, ReviewInv, At
  <1>4. JournalInv
    BY DEF Init, JournalInv, Dispatched, Unresolved
  <1>5. CallInv
    BY <1>2 DEF CallInv, At, RecoverySteps
  <1>6. StateInv
    BY DEF Init, StateInv, Dispatched, AnyDispatched
  <1>7. RecoveryInv
    BY <1>2 DEF RecoveryInv
  <1>8. QED
    BY <1>1, <1>3, <1>4, <1>5, <1>6, <1>7 DEF PromotionInv

LEMMA InvStep == ASSUME PromotionInv, [Next]_vars PROVE PromotionInv'
  BY TypeStep, ReviewInvStep, JournalInvStep, CallInvStep, StateInvStep,
     RecoveryInvStep DEF PromotionInv

(* The inductive invariant holds, whatever the bounds.                     *)
THEOREM PromotionInvariant == Spec => []PromotionInv
  <1>1. QED
    BY InvInit, InvStep, PTL DEF Spec

(* Every variable keeps its type.                                          *)
THEOREM TypeCorrect == Spec => []TypeOK
  <1>1. PromotionInv => TypeOK
    BY DEF PromotionInv
  <1>2. QED
    BY <1>1, PromotionInvariant, PTL

(* A diff that is in the workspace and not verified is covered by a        *)
(* dispatched record.                                                      *)
THEOREM MutationJournaled == Spec => []MutationIsJournaled
  <1>1. PromotionInv => MutationIsJournaled
    BY DEF PromotionInv, StateInv, MutationIsJournaled, AnyDispatched,
           Dispatched
  <1>2. QED
    BY <1>1, PromotionInvariant, PTL

(* Outside of recovery the promotion state tells what is in the workspace. *)
THEOREM StateTruth == Spec => []StateTellsWorkspace
  <1>1. PromotionInv => StateTellsWorkspace
    BY DEF PromotionInv, StateInv, StateTellsWorkspace, Promotable
  <1>2. QED
    BY <1>1, PromotionInvariant, PTL

(* The applied version is the reviewed one.                                *)
THEOREM ReviewedApplied == Spec => []ReviewedIsApplied
  <1>1. PromotionInv => ReviewedIsApplied
    BY DEF PromotionInv, ReviewInv, StateInv, ReviewedIsApplied
  <1>2. QED
    BY <1>1, PromotionInvariant, PTL

(* A roll-back that is over has its audit event.                           *)
THEOREM RollbackAudited == Spec => []RollbackIsAudited
  <1>1. PromotionInv => RollbackIsAudited
    BY DEF PromotionInv, StateInv, RollbackIsAudited, AnyDispatched,
           Dispatched, Unresolved
  <1>2. QED
    BY <1>1, PromotionInvariant, PTL

(* promote() never writes to the key of a closed attempt.                  *)
THEOREM FreshKeys == Spec => KeysAreFresh
  <1>1. ASSUME PromotionInv, [Next]_vars, NEW a \in Attempts,
               journal[a] = "completed"
        PROVE  journal'[a] = "completed"
    <2>1. CASE WritesIntent
      <3>1. call.attempt = attempt + 1 /\ Promotable
        BY <1>1, <2>1 DEF WritesIntent, At, PromotionInv, CallInv
      <3>2. a <= attempt
        BY <1>1, <3>1 DEF PromotionInv, JournalInv, Promotable, Final
      <3>3. attempt \in Nat /\ a \in Nat
        BY <1>1, PromotionAssumption DEF PromotionInv, TypeOK, Attempts
      <3>4. QED
        BY <1>1, <2>1, <3>1, <3>2, <3>3
        DEF WritesIntent, WritesPhase, PromotionInv, TypeOK
    <2>2. CASE WritesDispatched
      <3>1. journal[call.attempt] = "intent"
        BY <1>1, <2>2 DEF WritesDispatched, At, PromotionInv, CallInv
      <3>2. QED
        BY <1>1, <2>2, <3>1
        DEF WritesDispatched, WritesPhase, PromotionInv, TypeOK
    <2>3. CASE Closes
      BY <1>1, <2>3 DEF Closes, WritesPhase, PromotionInv, TypeOK
    <2>4. CASE UNCHANGED journal
      BY <1>1, <2>4
    <2>5. \/ WritesIntent \/ WritesDispatched \/ Closes
          \/ UNCHANGED journal
      BY <1>1, JournalFrame
    <2>6. QED
      BY <2>1, <2>2, <2>3, <2>4, <2>5
  <1>2. PromotionInv /\ [Next]_vars =>
            [ \A a \in Attempts :
                journal[a] = "completed" => journal'[a] = "completed" ]_vars
    BY <1>1
  <1>3. QED
    BY <1>2, PromotionInvariant, PTL DEF Spec, KeysAreFresh

(* Recovery leaves no promotion half-way but a suspended one.              *)
THEOREM RecoverySettled == Spec => RecoverySettles
  <1> DEFINE Settles ==
        At("recovering") /\ call'.pc = "idle" =>
          /\ promotion \notin {"prechecks_passed", "applied"}
          /\ \A a \in Attempts : journal[a] # "intent"
          /\ promotion = "rollback_needed" =>
                \E a \in Attempts : journal[a] = "dispatched"
  <1>1. ASSUME PromotionInv, [Next]_vars, At("recovering"), call'.pc = "idle"
        PROVE  Settles
    <2>1. RecoveryEnds
      BY <1>1, RecoveryFrame DEF PromotionInv
    <2>2. \A a \in Attempts : a > call.attempt => ~ Unresolved(a)
      BY <2>1 DEF RecoveryEnds, Left
    <2>3. call.recovery
      BY <1>1 DEF PromotionInv, CallInv, At, RecoverySteps
    <2>4. \A a \in Attempts : journal[a] # "intent"
      BY <1>1, <2>2, <2>3 DEF PromotionInv, RecoveryInv, Unresolved, At
    <2>5. promotion \notin Final \cup {"rollback_needed"} =>
             \A a \in Attempts : ~ Dispatched(a)
      BY <1>1, <2>2, <2>3
      DEF PromotionInv, RecoveryInv, Unresolved, Dispatched, At
    <2>6. QED
      BY <1>1, <2>4, <2>5
      DEF PromotionInv, StateInv, AnyDispatched, Dispatched, Unresolved, Final
  <1>2. PromotionInv /\ [Next]_vars => [Settles]_vars
    BY <1>1
  <1>3. QED
    BY <1>2, PromotionInvariant, PTL DEF Spec, RecoverySettles
=============================================================================
