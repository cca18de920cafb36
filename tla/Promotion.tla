----------------------------- MODULE Promotion -----------------------------
(***************************************************************************)
(* Bringing the work of a completed job into the user's workspace: the     *)
(* review by poll(), promote() with its prechecks, apply, verification and *)
(* roll-back, discard(), and the recovery of a promotion after a crash.    *)
(* The user may edit the workspace between any two steps of the server.    *)
(*                                                                         *)
(* One job and its worktree; its change modifies some tracked files and    *)
(* may add a file.  Content is a version number of the worktree.           *)
(*                                                                         *)
(* Code: src/server/delegation_controller.py (promote, _verify_promotion,  *)
(* _workspace_has_unexpected_edits, discard, recover_startup) and          *)
(* src/server/artifact_store.py.                                           *)
(***************************************************************************)
EXTENDS Naturals

CONSTANTS MaxAttempts,   \* bound: calls of promote() that count
          MaxCrashes,    \* bound: crashes of the server process
          MaxFaults,     \* bound: writes or git commands that raise
          MaxEdits       \* bound: things the user does in between

ASSUME PromotionAssumption ==
    /\ MaxAttempts \in Nat \ {0}
    /\ MaxCrashes \in Nat
    /\ MaxFaults \in Nat
    /\ MaxEdits \in Nat

VARIABLES
    addedFile,   \* how the job's worktree adds a file, if it does
    worktree,    \* version of the job's worktree
    review,      \* what poll() has materialized
    promotion,   \* promotion_state of the completed job
    attempt,     \* promotion_attempt
    journal,     \* last journal phase of a promotion, by attempt
    audited,     \* is there a rollback audit event?
    workspace,   \* the user's primary workspace
    call,        \* what the MCP thread is doing
    crashes, faults, edits

durable  == <<review, promotion, attempt, journal, audited>>
counters == <<crashes, faults, edits>>
vars     == <<addedFile, worktree, durable, workspace, call, counters>>

Attempts == 1..MaxAttempts
Versions == 1..2           \* before and after somebody touched the worktree

PromotionStates == {"pending", "prechecks_failed", "prechecks_passed",
                    "applied", "verified", "rollback_needed", "rolled_back",
                    "discarded"}
Final  == {"verified", "discarded", "rolled_back"}
Phases == {"none", "intent", "dispatched", "completed"}

PollSteps    == {"snapshotting", "recording"}
PromoteSteps == {"checking", "regenerating", "intending", "passing",
                 "dispatching", "applying", "marking", "verifying",
                 "confirming", "failing", "restoring", "removing",
                 "rolling_back", "auditing", "closing"}
RecoverySteps == {"recovering", "normalizing", "guarding", "suspending"}

(* Where the added file is: nowhere, at its place, or under the path of    *)
(* the job's worktree.                                                     *)
Places == {"none", "proper", "stray"}

Workspace ==
    [change   : Versions \cup {0},  \* the job's modification of its files
     added    : Places,             \* the job's new file
     reviewed : BOOLEAN,            \* did the user edit the job's files too?
     other    : BOOLEAN,            \* did the user edit other tracked files?
     atBase   : BOOLEAN]            \* HEAD = base_commit

Call == [pc : {"idle"} \cup PollSteps \cup PromoteSteps \cup RecoverySteps,
         attempt : 0..MaxAttempts,
         recovery : BOOLEAN]

Idle == [pc |-> "idle", attempt |-> 0, recovery |-> FALSE]

TypeOK ==
    /\ addedFile \in {"none", "tracked", "untracked"}
    /\ worktree  \in Versions
    /\ review    \in [files : Versions \cup {0}, snapshot : Versions \cup {0},
                      hash : Versions \cup {0}]
    /\ promotion \in PromotionStates
    /\ attempt   \in 0..MaxAttempts
    /\ journal   \in [Attempts -> Phases]
    /\ audited   \in BOOLEAN
    /\ workspace \in Workspace
    /\ call      \in Call
    /\ crashes   \in 0..MaxCrashes
    /\ faults    \in 0..MaxFaults
    /\ edits     \in 0..MaxEdits

Init ==
    /\ addedFile \in {"none", "tracked", "untracked"}
    /\ worktree = 1
    /\ review = [files |-> 0, snapshot |-> 0, hash |-> 0]
    /\ promotion = "pending"
    /\ attempt = 0
    /\ journal = [a \in Attempts |-> "none"]
    /\ audited = FALSE
    /\ workspace = [change |-> 0, added |-> "none", reviewed |-> FALSE,
                    other |-> FALSE, atBase |-> TRUE]
    /\ call = Idle
    /\ crashes = 0
    /\ faults = 0
    /\ edits = 0

At(pc)   == call.pc = pc
GoTo(pc) == call' = [call EXCEPT !.pc = pc]

----------------------------------------------------------------------------
(* Git, as the controller uses it.                                         *)

(* git status --porcelain, and git diff --cached, are empty.               *)
Clean == /\ workspace.change = 0 /\ workspace.added = "none"
         /\ ~ workspace.reviewed /\ ~ workspace.other

(* The section _full_diff() writes for the added file: a file that git     *)
(* tracks in a tree is named by its path there; for any other one          *)
(* `git diff --no-index` is given the absolute path, and names that.       *)
Section(tree, tracked) == IF tracked THEN "relative" ELSE tree

ReviewedSection == IF addedFile = "none"
                     THEN "none" ELSE Section("worktree", addedFile = "tracked")

(* git apply takes the section's path as relative to the workspace.        *)
PlaceApplied == CASE ReviewedSection = "none"     -> "none"
                  [] ReviewedSection = "relative" -> "proper"
                  [] ReviewedSection = "worktree" -> "stray"

(* What it has added is not in the index of the workspace.                 *)
WorkspaceSection == IF workspace.added = "none"
                      THEN "none" ELSE Section("workspace", FALSE)

(* _workspace_has_unexpected_edits(): status lists a path that is not in   *)
(* the reviewed change set.                                                *)
Unexpected == workspace.other \/ workspace.added = "stray"

(* _verify_promotion(): the diff to base_commit, the changed files and the *)
(* status are those of the review.                                         *)
Verified ==
    /\ workspace.change = review.files
    /\ workspace.atBase
    /\ ~ workspace.reviewed
    /\ WorkspaceSection = ReviewedSection
    /\ ~ Unexpected

----------------------------------------------------------------------------
(* The user: edits files the job changed or others, takes the edits back,  *)
(* checks out another commit, touches the job's worktree.                  *)
Edits ==
    /\ edits < MaxEdits
    /\ edits' = edits + 1
    /\ \/ /\ workspace' \in {[workspace EXCEPT !.reviewed = TRUE],
                             [workspace EXCEPT !.other = TRUE]}
          /\ UNCHANGED worktree
       \/ /\ Clean
          /\ workspace' = [workspace EXCEPT !.atBase = ~ @]
          /\ UNCHANGED worktree
       \/ /\ worktree' = 2
          /\ UNCHANGED workspace
    /\ UNCHANGED <<addedFile, durable, call, crashes, faults>>

TakesEditsBack ==
    /\ workspace.reviewed \/ workspace.other
    /\ workspace' = [workspace EXCEPT !.reviewed = FALSE, !.other = FALSE]
    /\ UNCHANGED <<addedFile, worktree, durable, call, counters>>

----------------------------------------------------------------------------
(* poll(): _load_or_materialize_inspection().                              *)

(* Fault: an earlier review is not looked for.                             *)
PollMaterializesAgain ==
    /\ At("idle")
    /\ review' = [review EXCEPT !.files = worktree, !.snapshot = 0]
    /\ GoTo("snapshotting")
    /\ UNCHANGED <<addedFile, worktree, promotion, attempt, journal, audited,
                   workspace, counters>>

(* Without a snapshot, the artifact files are written from the worktree.   *)
PollMaterializes ==
    /\ At("idle")
    /\ review.snapshot = 0
    /\ review.hash = 0
    /\ review' = [review EXCEPT !.files = worktree]
    /\ GoTo("snapshotting")
    /\ UNCHANGED <<addedFile, worktree, promotion, attempt, journal, audited,
                   workspace, counters>>

PollSnapshots ==
    /\ At("snapshotting")
    /\ review' = [review EXCEPT !.snapshot = review.files]
    /\ GoTo("recording")
    /\ UNCHANGED <<addedFile, worktree, promotion, attempt, journal, audited,
                   workspace, counters>>

(* update_artifacts(): at the end of a materialization, or by a later poll *)
(* that finds the snapshot and a job record that differs.                  *)
PollRecords ==
    /\ \/ At("recording")
       \/ At("idle") /\ review.snapshot # 0 /\ review.hash # review.snapshot
    /\ review' = [review EXCEPT !.hash = review.snapshot]
    /\ call' = Idle
    /\ UNCHANGED <<addedFile, worktree, promotion, attempt, journal, audited,
                   workspace, counters>>

----------------------------------------------------------------------------
(* promote(): entry gate and prechecks.                                    *)

Promotable == promotion \in {"pending", "prechecks_failed"}

(* The attempt is counted in memory; every write of the promotion state    *)
(* below stores it.                                                        *)
PromoteBegins ==
    /\ At("idle")
    /\ Promotable
    /\ attempt < MaxAttempts
    /\ call' = [pc |-> "checking", attempt |-> attempt + 1, recovery |-> FALSE]
    /\ UNCHANGED <<addedFile, worktree, durable, workspace, counters>>

PrecheckFails ==
    /\ promotion' = "prechecks_failed"
    /\ attempt' = call.attempt
    /\ call' = Idle

(* The hash must have been reviewed, HEAD be base_commit, the workspace    *)
(* clean.                                                                  *)
ChecksWorkspace ==
    /\ At("checking")
    /\ IF review.hash # 0 /\ workspace.atBase /\ Clean
         THEN GoTo("regenerating") /\ UNCHANGED <<promotion, attempt>>
         ELSE PrecheckFails
    /\ UNCHANGED <<addedFile, worktree, review, journal, audited, workspace,
                   counters>>

(* The artifacts generated anew from the worktree must have that hash.     *)
ChecksArtifacts ==
    /\ At("regenerating")
    /\ IF worktree = review.hash
         THEN GoTo("intending") /\ UNCHANGED <<promotion, attempt>>
         ELSE PrecheckFails
    /\ UNCHANGED <<addedFile, worktree, review, journal, audited, workspace,
                   counters>>

WritesPhase(phase) == journal' = [journal EXCEPT ![call.attempt] = phase]

WritesIntent ==
    /\ At("intending")
    /\ WritesPhase("intent")
    /\ GoTo("passing")
    /\ UNCHANGED <<addedFile, worktree, review, promotion, attempt, audited,
                   workspace, counters>>

(* Fault: the attempt is counted again.                                    *)
PassesPrechecksTwice ==
    /\ At("passing")
    /\ promotion' = "prechecks_passed"
    /\ attempt' = call.attempt + 1
    /\ GoTo("dispatching")
    /\ UNCHANGED <<addedFile, worktree, review, journal, audited, workspace,
                   counters>>

PassesPrechecks ==
    /\ At("passing")
    /\ promotion' = "prechecks_passed"
    /\ attempt' = call.attempt
    /\ GoTo("dispatching")
    /\ UNCHANGED <<addedFile, worktree, review, journal, audited, workspace,
                   counters>>

(* Fault: the record is left to be written after the diff was applied.     *)
WritesNoDispatched ==
    /\ At("dispatching")
    /\ GoTo("applying")
    /\ UNCHANGED <<addedFile, worktree, durable, workspace, counters>>

WritesDispatched ==
    /\ At("dispatching")
    /\ WritesPhase("dispatched")
    /\ GoTo("applying")
    /\ UNCHANGED <<addedFile, worktree, review, promotion, attempt, audited,
                   workspace, counters>>

----------------------------------------------------------------------------
(* promote(): apply, verify, roll back.                                    *)

(* git apply does all of it or raises.  It may raise only if the user was  *)
(* faster than the prechecks.                                              *)
Applies ==
    /\ At("applying")
    /\ workspace' = [workspace EXCEPT !.change = review.files,
                                      !.added = PlaceApplied]
    /\ GoTo("marking")
    /\ UNCHANGED <<addedFile, worktree, durable, counters>>

ApplyConflicts ==
    /\ At("applying")
    /\ workspace.reviewed \/ ~ workspace.atBase
    /\ call' = Idle
    /\ UNCHANGED <<addedFile, worktree, durable, workspace, counters>>

MarksApplied ==
    /\ At("marking")
    /\ promotion' = "applied"
    /\ GoTo("verifying")
    /\ UNCHANGED <<addedFile, worktree, review, attempt, journal, audited,
                   workspace, counters>>

Verifies ==
    /\ At("verifying")
    /\ GoTo(IF Verified THEN "confirming" ELSE "failing")
    /\ UNCHANGED <<addedFile, worktree, durable, workspace, counters>>

(* Then the coherence callback and the audit event of the promotion.       *)
Confirms ==
    /\ At("confirming")
    /\ promotion' = "verified"
    /\ GoTo("closing")
    /\ UNCHANGED <<addedFile, worktree, review, attempt, journal, audited,
                   workspace, counters>>

NeedsRollback ==
    /\ At("failing")
    /\ promotion' = "rollback_needed"
    /\ GoTo("restoring")
    /\ UNCHANGED <<addedFile, worktree, review, attempt, journal, audited,
                   workspace, counters>>

(* git checkout -- . : every tracked file is as in the index again.        *)
Restores ==
    /\ At("restoring")
    /\ workspace' = [workspace EXCEPT !.change = 0, !.reviewed = FALSE,
                                      !.other = FALSE]
    /\ GoTo("removing")
    /\ UNCHANGED <<addedFile, worktree, durable, counters>>

(* Fault: new files are left where they are.                               *)
RemovesNothing ==
    /\ At("removing")
    /\ GoTo("rolling_back")
    /\ UNCHANGED <<addedFile, worktree, durable, workspace, counters>>

(* The files of the change set that the workspace does not track.          *)
RemovesAdded ==
    /\ At("removing")
    /\ workspace' = [workspace EXCEPT !.added =
                        IF @ = "proper" THEN "none" ELSE @]
    /\ GoTo("rolling_back")
    /\ UNCHANGED <<addedFile, worktree, durable, counters>>

RollsBack ==
    /\ At("rolling_back")
    /\ promotion' = "rolled_back"
    /\ GoTo("auditing")
    /\ UNCHANGED <<addedFile, worktree, review, attempt, journal, audited,
                   workspace, counters>>

AuditsRollback ==
    /\ At("auditing")
    /\ audited' = TRUE
    /\ GoTo("closing")
    /\ UNCHANGED <<addedFile, worktree, review, promotion, attempt, journal,
                   workspace, counters>>

(* The completed record; recovery goes on to the next one.                 *)
Closes ==
    /\ At("closing")
    /\ WritesPhase("completed")
    /\ call' = IF call.recovery
                 THEN [call EXCEPT !.pc = "recovering"] ELSE Idle
    /\ UNCHANGED <<addedFile, worktree, review, promotion, attempt, audited,
                   workspace, counters>>

(* A write or a git command of promote() raises: the call ends where it    *)
(* is.                                                                     *)
PromoteRaises ==
    /\ faults < MaxFaults
    /\ faults' = faults + 1
    /\ call.pc \in PromoteSteps
    /\ ~ call.recovery
    /\ call' = Idle
    /\ UNCHANGED <<addedFile, worktree, durable, workspace, crashes, edits>>

(* discard(): nothing of the job is in the workspace.                      *)
Discards ==
    /\ At("idle")
    /\ promotion \in {"pending", "prechecks_failed"}
    /\ promotion' = "discarded"
    /\ UNCHANGED <<addedFile, worktree, review, attempt, journal, audited,
                   workspace, call, counters>>

----------------------------------------------------------------------------
(* The server dies and is started again: recover_startup().                *)

Unresolved(a) == journal[a] \in {"intent", "dispatched"}

Crash ==
    /\ crashes < MaxCrashes
    /\ crashes' = crashes + 1
    /\ call' = [pc |-> "recovering", attempt |-> 0, recovery |-> TRUE]
    /\ UNCHANGED <<addedFile, worktree, durable, workspace, faults, edits>>

(* The unresolved records, in the order of their keys in the journal.      *)
Left(a) == a > call.attempt /\ Unresolved(a)

NextUnresolved(a) == Left(a) /\ \A b \in Attempts : Left(b) => a <= b

(* Fault: a roll-back that is over counts as done.                         *)
RecoversRecordUnaudited(a) ==
    /\ At("recovering")
    /\ NextUnresolved(a)
    /\ call' = [call EXCEPT
          !.attempt = a,
          !.pc = CASE promotion \in Final -> "closing"
                   [] promotion \notin Final /\ journal[a] = "intent" ->
                        "normalizing"
                   [] promotion \notin Final /\ journal[a] = "dispatched" ->
                        "guarding"]
    /\ UNCHANGED <<addedFile, worktree, durable, workspace, counters>>

(* An intent record is closed when the promotion is over, a dispatched one *)
(* then too, once the roll-back has its audit event.                       *)
RecoversRecord(a) ==
    /\ At("recovering")
    /\ NextUnresolved(a)
    /\ call' = [call EXCEPT
          !.attempt = a,
          !.pc = CASE journal[a] = "intent" ->
                        IF promotion \in Final THEN "closing"
                                               ELSE "normalizing"
                   [] journal[a] = "dispatched" ->
                        IF promotion = "rolled_back" /\ ~ audited
                          THEN "auditing"
                          ELSE IF promotion \in Final THEN "closing"
                                                      ELSE "guarding"]
    /\ UNCHANGED <<addedFile, worktree, durable, workspace, counters>>

(* Fault: the attempt is not taken from the record.                        *)
NormalizesState ==
    /\ At("normalizing")
    /\ promotion' = "pending"
    /\ GoTo("closing")
    /\ UNCHANGED <<addedFile, worktree, review, attempt, journal, audited,
                   workspace, counters>>

(* Nothing was applied: pending again, with the attempt of the record.     *)
Normalizes ==
    /\ At("normalizing")
    /\ promotion' = "pending"
    /\ attempt' = call.attempt
    /\ GoTo("closing")
    /\ UNCHANGED <<addedFile, worktree, review, journal, audited, workspace,
                   counters>>

(* The diff may have been applied.  Edits of the user's stop the recovery  *)
(* of this record; otherwise it is verified.                               *)
Guards ==
    /\ At("guarding")
    /\ GoTo(IF Unexpected THEN "suspending" ELSE "verifying")
    /\ UNCHANGED <<addedFile, worktree, durable, workspace, counters>>

(* Fault: a suspended recovery closes its record.                          *)
SuspendsAndCloses ==
    /\ At("suspending")
    /\ promotion' = "rollback_needed"
    /\ GoTo("closing")
    /\ UNCHANGED <<addedFile, worktree, review, attempt, journal, audited,
                   workspace, counters>>

Suspends ==
    /\ At("suspending")
    /\ promotion' = "rollback_needed"
    /\ GoTo("recovering")
    /\ UNCHANGED <<addedFile, worktree, review, attempt, journal, audited,
                   workspace, counters>>

(* git checkout fails: the record stays unresolved.                        *)
RestoreFails ==
    /\ faults < MaxFaults
    /\ faults' = faults + 1
    /\ At("restoring")
    /\ call.recovery
    /\ GoTo("recovering")
    /\ UNCHANGED <<addedFile, worktree, durable, workspace, crashes, edits>>

RecoveryEnds ==
    /\ At("recovering")
    /\ ~ \E a \in Attempts : Left(a)
    /\ call' = Idle
    /\ UNCHANGED <<addedFile, worktree, durable, workspace, counters>>

----------------------------------------------------------------------------
Poll    == PollMaterializes \/ PollSnapshots \/ PollRecords
Promote == \/ PromoteBegins \/ ChecksWorkspace \/ ChecksArtifacts
           \/ WritesIntent \/ PassesPrechecks \/ WritesDispatched
           \/ Applies \/ ApplyConflicts \/ MarksApplied \/ Verifies
           \/ Confirms \/ NeedsRollback \/ Restores \/ RemovesAdded
           \/ RollsBack \/ AuditsRollback \/ Closes
           \/ PromoteRaises
Recover == \/ \E a \in Attempts : RecoversRecord(a)
           \/ Normalizes \/ Guards \/ Suspends \/ RestoreFails
           \/ RecoveryEnds
User    == Edits \/ TakesEditsBack

(* No call can change anything any more, and the user has finished.        *)
Quiescent ==
    /\ At("idle")
    /\ ~ (Promotable /\ attempt < MaxAttempts)
    /\ UNCHANGED vars

Next == Poll \/ Promote \/ Discards \/ Crash \/ Recover \/ User \/ Quiescent

Spec == Init /\ [][Next]_vars

----------------------------------------------------------------------------
(* Whenever the job's diff is in the workspace and not yet verified, a     *)
(* dispatched record says so: recovery will look.                          *)
MutationIsJournaled ==
    workspace.change # 0 /\ promotion # "verified" =>
        \E a \in Attempts : journal[a] = "dispatched"

(* Between calls the promotion state tells what is in the workspace: all   *)
(* of the job's change that was reviewed, or nothing of it (but for a file *)
(* that strayed, see UntouchedPromotionIsVerified).                        *)
StateTellsWorkspace ==
    /\ promotion = "verified" =>
          /\ workspace.change = review.hash
          /\ review.hash # 0
          /\ workspace.added = IF addedFile = "none" THEN "none" ELSE "proper"
    /\ promotion = "rolled_back" =>
          workspace.change = 0 /\ workspace.added # "proper"
    /\ promotion \in {"pending", "prechecks_failed", "discarded"}
          /\ ~ call.recovery =>
          workspace.change = 0 /\ workspace.added = "none"

(* What is applied is what was reviewed, whatever happened to the worktree *)
(* and wherever a poll was interrupted.                                    *)
ReviewedIsApplied ==
    /\ review.hash # 0 => review.hash = review.files
    /\ workspace.change \in {0, review.hash}

(* A roll-back that nothing is left to be done for has its audit event.    *)
RollbackIsAudited ==
    promotion = "rolled_back" /\ At("idle")
        /\ (\A a \in Attempts : ~ Unresolved(a)) => audited

Dispatched(a) == journal[a] = "dispatched"
AnyDispatched == \E a \in Attempts : Dispatched(a)

(* The review: files, snapshot and hash are written in this order and of   *)
(* one version, and before any attempt.                                    *)
ReviewInv ==
    /\ review.snapshot # 0 => review.snapshot = review.files
    /\ review.hash # 0 => review.hash = review.snapshot
    /\ At("snapshotting") =>
          review.files # 0 /\ review.snapshot = 0 /\ review.hash = 0
    /\ At("recording") => review.snapshot # 0
    /\ call.pc \in {"regenerating", "intending"} => review.hash # 0
    /\ (\E a \in Attempts : journal[a] # "none") => review.hash # 0

(* The journal: a dispatched attempt is the last one; as long as the       *)
(* promotion goes on, closed attempts come before the open ones and have   *)
(* been counted.                                                           *)
JournalInv ==
    /\ \A a, b \in Attempts : Dispatched(a) /\ b > a => journal[b] = "none"
    /\ promotion \notin Final =>
          \A b \in Attempts : journal[b] = "completed" =>
              b <= attempt /\ \A a \in Attempts : Unresolved(a) => b < a
    /\ Promotable /\ ~ call.recovery =>
          \A b \in Attempts : journal[b] # "none" => b <= attempt + 1

(* What a call, or recovery, has established at each of its steps.         *)
CallInv ==
    /\ call.recovery => call.pc \in RecoverySteps \cup
          {"verifying", "confirming", "failing", "restoring", "removing",
           "rolling_back", "auditing", "closing"}
    /\ call.pc \in RecoverySteps => call.recovery
    /\ call.pc \notin PollSteps \cup {"idle", "recovering"} =>
          call.attempt \in Attempts
    /\ call.pc \in {"checking", "regenerating", "intending", "passing"} =>
          Promotable /\ call.attempt = attempt + 1
    /\ call.pc \in {"dispatching", "applying", "marking"} =>
          promotion = "prechecks_passed" /\ call.attempt = attempt
    /\ call.pc \in {"passing", "dispatching", "normalizing"} =>
          journal[call.attempt] = "intent"
    /\ At("dispatching") =>
          /\ workspace.change = 0 /\ workspace.added = "none"
          /\ \A b \in Attempts : b > call.attempt => journal[b] = "none"
    /\ call.pc \in {"applying", "marking", "verifying", "confirming",
                    "failing", "restoring", "removing", "rolling_back",
                    "auditing", "guarding", "suspending"} =>
          Dispatched(call.attempt)
    /\ call.pc \in {"verifying", "confirming", "failing", "normalizing",
                    "guarding", "suspending"} => promotion \notin Final
    /\ At("confirming") => /\ workspace.change = review.files
                           /\ workspace.added = "none"
                           /\ addedFile = "none"
    /\ call.pc \in {"restoring", "removing", "rolling_back"} =>
          promotion = "rollback_needed"
    /\ call.pc \in {"removing", "rolling_back"} => workspace.change = 0
    /\ At("rolling_back") => workspace.added # "proper"
    /\ At("auditing") => promotion = "rolled_back"
    /\ At("closing") =>
          /\ Unresolved(call.attempt)
          /\ \/ promotion \in Final
             \/ /\ call.recovery
                /\ journal[call.attempt] = "intent"
                /\ promotion = "pending"
                /\ attempt = call.attempt
          /\ promotion = "rolled_back" /\ Dispatched(call.attempt) => audited

(* The promotion state, the workspace and the journal belong together.     *)
StateInv ==
    /\ workspace.change \in {0, review.hash}
    /\ workspace.change # 0 \/ workspace.added # "none" =>
          AnyDispatched \/ promotion \in {"verified", "rolled_back"}
    /\ promotion = "discarded" => ~ AnyDispatched
    /\ Promotable /\ ~ call.recovery => ~ AnyDispatched
    /\ promotion \in {"applied", "rollback_needed"} => AnyDispatched
    /\ promotion = "prechecks_passed" => \E a \in Attempts : Unresolved(a)
    /\ promotion = "verified" =>
          /\ workspace.change = review.hash
          /\ review.hash # 0
          /\ workspace.added = IF addedFile = "none" THEN "none" ELSE "proper"
    /\ promotion = "rolled_back" =>
          workspace.change = 0 /\ workspace.added # "proper"
    /\ promotion = "rolled_back" /\ ~ audited => AnyDispatched

(* Recovery leaves no record behind but that of a suspended promotion.     *)
RecoveryInv ==
    call.recovery => \A a \in Attempts :
        /\ journal[a] = "intent" =>
              \/ a > call.attempt
              \/ a = call.attempt /\ call.pc \in {"normalizing", "closing"}
        /\ Dispatched(a) /\ promotion \notin Final \cup {"rollback_needed"} =>
              \/ a > call.attempt
              \/ /\ a = call.attempt
                 /\ call.pc \in {"guarding", "suspending", "verifying",
                                 "confirming", "failing"}

(* The inductive invariant: what must be true between any two writes of    *)
(* poll(), promote(), discard() and recovery for the properties to hold.   *)
PromotionInv ==
    TypeOK /\ ReviewInv /\ JournalInv /\ CallInv /\ StateInv /\ RecoveryInv

(* The idempotency key of an attempt that was closed is never used again   *)
(* ("so the next promote() does not reuse the same idempotency key").      *)
KeysAreFresh ==
    [][ \A a \in Attempts :
          journal[a] = "completed" => journal'[a] = "completed" ]_vars

(* After recovery no promotion is half-way, but for one that is suspended  *)
(* and still dispatched in the journal.                                    *)
RecoverySettles ==
    [][ At("recovering") /\ call'.pc = "idle" =>
          /\ promotion \notin {"prechecks_passed", "applied"}
          /\ \A a \in Attempts : journal[a] # "intent"
          /\ promotion = "rollback_needed" =>
                \E a \in Attempts : journal[a] = "dispatched" ]_vars

(* A promotion that nobody interferes with is verified: _verify_promotion()*)
(* reuses "the exact _full_diff() generation logic (including synthetic    *)
(* no-index sections for new files)".                                      *)
UntouchedPromotionIsVerified ==
    crashes = 0 /\ faults = 0 /\ edits = 0 => promotion # "rollback_needed"

(* An edit of a file the job did not change goes away only by the user's   *)
(* hand: it "must not be silently discarded by `git checkout -- .`".       *)
RollbackSparesOtherEdits ==
    [][ workspace.other /\ ~ workspace'.other => TakesEditsBack ]_vars
============================================================================
