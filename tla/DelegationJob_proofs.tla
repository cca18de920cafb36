------------------------ MODULE DelegationJob_proofs ------------------------
(***************************************************************************)
(* Proofs about DelegationJob, for any number of jobs and requests, any    *)
(* number of crashes of the server and of writes that raise, leave a       *)
(* partial line or are swallowed: one job lives at a time, the stores, the *)
(* registry and the threads agree on the request that is parked, start()   *)
(* is told the truth, and recovery leaves nothing open, but for the        *)
(* records that are missing from their file.                               *)
(*                                                                         *)
(* The invariant has four parts: the types; JobInv, who has the runtime    *)
(* and the status of a job; TurnInv, who has its request; ToldInv, what    *)
(* start() hears.  Each part has a lemma for the workers, one for the main *)
(* thread, one for timers and one for crashes and recovery.                *)
(***************************************************************************)
EXTENDS DelegationJob, FiniteSetTheorems, TLAPS

----------------------------------------------------------------------------
(* Facts about the operators that write.                                   *)

(* What is missing from a file stays missing until the next crash.         *)
LostGrows ==
    /\ torn' \in SUBSET Files
    /\ lost' \in [Files -> SUBSET Jobs]
    /\ \A f \in Files : \A k \in Jobs : k \in lost[f] => k \in lost'[f]

LEMMA FilesAre ==
  /\ "jobs" \in Files /\ "requests" \in Files /\ "journal" \in Files
  /\ "lineage" \in Files /\ "outcomes" \in Files
  BY DEF Files

LEMMA AppendsIs ==
  ASSUME TypeOK, NEW f \in Files, NEW j \in Jobs, Appends(f, j)
  PROVE  /\ LostGrows
         /\ f \in torn => j \in lost'[f]
  BY DEF TypeOK, Appends, LostGrows

LEMMA AppendRaisesIs ==
  ASSUME TypeOK, NEW f \in Files, AppendRaises(f)
  PROVE  torn' \in SUBSET Files
  BY DEF TypeOK, AppendRaises

LEMMA SwallowsIs ==
  ASSUME TypeOK, NEW f \in Files, NEW j \in Jobs, Swallows(f, j)
  PROVE  /\ LostGrows
         /\ j \in lost'[f]
  BY AppendRaisesIs DEF TypeOK, Swallows, LostGrows

LEMMA FilesKept ==
  ASSUME TypeOK, UNCHANGED files
  PROVE  LostGrows
  BY DEF TypeOK, files, LostGrows

LEMMA OnlyTorn ==
  ASSUME TypeOK, torn' \in SUBSET Files, lost' = lost
  PROVE  LostGrows
  BY DEF TypeOK, LostGrows

(* A record of a job is written, or lost, or skipped: the job is not there.*)
LEMMA PutJobIs ==
  ASSUME TypeOK, NEW j \in Jobs, NEW record \in JobRecord, PutJob(j, record)
  PROVE  /\ store' \in [Jobs -> JobRecord]
         /\ \A k \in Jobs \ {j} : store'[k] = store[k]
         /\ store'[j] = store[j]
               \/ (store'[j] = record /\ store[j].status # "absent")
         /\ j \notin lost'["jobs"] /\ store[j].status # "absent" =>
               store'[j] = record
         /\ LostGrows
<1>1. LostGrows /\ ("jobs" \in torn => j \in lost'["jobs"])
  BY AppendsIs, FilesAre DEF PutJob
<1>2. store \in [Jobs -> JobRecord]
  BY DEF TypeOK
<1>3. store' = IF "jobs" \in torn \/ store[j].status = "absent"
                 THEN store ELSE [store EXCEPT ![j] = record]
  BY DEF PutJob
<1> QED
  BY <1>1, <1>2, <1>3

(* A status is written to one job, and its parked request kept.            *)
LEMMA TransitionIs ==
  ASSUME TypeOK, NEW j \in Jobs, NEW status \in Active \cup Terminal,
         Transition(j, status)
  PROVE  /\ store' \in [Jobs -> JobRecord]
         /\ \A k \in Jobs \ {j} : store'[k] = store[k]
         /\ store'[j] = store[j]
               \/ (store'[j].status = status /\ store[j].status # "absent")
         /\ store'[j].parked = store[j].parked
         /\ j \notin lost'["jobs"] /\ store[j].status # "absent" =>
               store'[j].status = status
         /\ LostGrows
<1> DEFINE promotion == IF status = "completed" THEN "pending" ELSE "none"
           record == [store[j] EXCEPT !.status = status,
                                      !.promotion = promotion]
<1>1. store[j] \in JobRecord
  BY DEF TypeOK
<1>2. promotion \in {"none", "pending", "discarded"}
  OBVIOUS
<1>3. PutJob(j, record)
  BY DEF Transition
<1> HIDE DEF promotion
<1>4. record \in JobRecord /\ record.status = status
      /\ record.parked = store[j].parked
  BY <1>1, <1>2 DEF JobRecord
<1> HIDE DEF record
<1> QED
  BY <1>3, <1>4, PutJobIs

LEMMA ParkedIs ==
  ASSUME TypeOK, NEW j \in Jobs, NEW r \in Requests \cup {0},
         PutJob(j, [store[j] EXCEPT !.parked = r])
  PROVE  /\ store' \in [Jobs -> JobRecord]
         /\ \A k \in Jobs \ {j} : store'[k] = store[k]
         /\ store'[j].status = store[j].status
         /\ store'[j].promotion = store[j].promotion
         /\ j \notin lost'["jobs"] /\ store[j].status # "absent" =>
               store'[j].parked = r
         /\ LostGrows
<1> DEFINE record == [store[j] EXCEPT !.parked = r]
<1>1. store[j] \in JobRecord
  BY DEF TypeOK
<1>2. /\ record \in JobRecord
      /\ record.status = store[j].status
      /\ record.promotion = store[j].promotion
      /\ record.parked = r
  BY <1>1 DEF JobRecord
<1> HIDE DEF record
<1>3. PutJob(j, record)
  BY DEF record
<1> QED
  BY <1>2, <1>3, PutJobIs

LEMMA DiscardedIs ==
  ASSUME TypeOK, NEW j \in Jobs,
         PutJob(j, [store[j] EXCEPT !.promotion = "discarded"])
  PROVE  /\ store' \in [Jobs -> JobRecord]
         /\ \A k \in Jobs \ {j} : store'[k] = store[k]
         /\ store'[j].status = store[j].status
         /\ store'[j].parked = store[j].parked
         /\ LostGrows
<1> DEFINE record == [store[j] EXCEPT !.promotion = "discarded"]
<1>1. store[j] \in JobRecord
  BY DEF TypeOK
<1>2. /\ record \in JobRecord
      /\ record.status = store[j].status
      /\ record.parked = store[j].parked
  BY <1>1 DEF JobRecord
<1> HIDE DEF record
<1>3. PutJob(j, record)
  BY DEF record
<1> QED
  BY <1>2, <1>3, PutJobIs

Handles == {"none", "active", "completed", "unknown"}

LEMMA PutHandleIs ==
  ASSUME TypeOK, NEW j \in Jobs, NEW status \in Handles, PutHandle(j, status)
  PROVE  lineage' \in [Jobs -> Handles] /\ LostGrows
<1>1. LostGrows
  BY AppendsIs, FilesAre DEF PutHandle
<1>2. lineage' = IF "lineage" \in torn \/ lineage[j] = "none"
                   THEN lineage ELSE [lineage EXCEPT ![j] = status]
  BY DEF PutHandle
<1> QED
  BY <1>1, <1>2 DEF TypeOK, Handles

(* A record of a request is written or lost.                               *)
LEMMA PutRequestIs ==
  ASSUME TypeOK, NEW j \in Jobs, NEW r \in Requests,
         NEW record \in RequestRecord, PutRequest(j, r, record)
  PROVE  /\ psr' \in [Requests -> RequestRecord]
         /\ \A q \in Requests \ {r} : psr'[q] = psr[q]
         /\ psr'[r] \in {psr[r], record}
         /\ j \notin lost'["requests"] => psr'[r] = record
         /\ LostGrows
<1>1. LostGrows /\ ("requests" \in torn => j \in lost'["requests"])
  BY AppendsIs, FilesAre DEF PutRequest
<1>2. psr' = IF "requests" \in torn THEN psr ELSE [psr EXCEPT ![r] = record]
  BY DEF PutRequest
<1> QED
  BY <1>1, <1>2 DEF TypeOK

(* A phase of job_creation is written, or lost.                            *)
LEMMA WritesCreationIs ==
  ASSUME TypeOK, NEW j \in Jobs, NEW phase \in Phases,
         WritesCreation(j, phase)
  PROVE  /\ creation' \in [Jobs -> Phases \cup {"lost"}]
         /\ \A k \in Jobs \ {j} : creation'[k] = creation[k]
         /\ creation'[j] \in {creation[j], phase, "lost"}
         /\ creation[j] # "none" => creation'[j] \in {creation[j], phase}
         /\ phase # "none" => creation'[j] # "none"
         /\ j \notin lost'["journal"] => creation'[j] = phase
         /\ LostGrows
<1>1. LostGrows /\ ("journal" \in torn => j \in lost'["journal"])
  BY AppendsIs, FilesAre DEF WritesCreation
<1>2. creation' = [creation EXCEPT ![j] =
                     IF "journal" \notin torn THEN phase
                     ELSE IF creation[j] = "none" THEN "lost" ELSE creation[j]]
  BY DEF WritesCreation
<1> QED
  BY <1>1, <1>2 DEF TypeOK

LEMMA WritesApprovalIs ==
  ASSUME TypeOK, NEW j \in Jobs, NEW r, NEW phase \in Phases,
         WritesApproval(j, r, phase)
  PROVE  /\ approval' \in [Jobs -> [Requests -> Phases]]
         /\ \A k \in Jobs, q \in Requests :
               (k # j \/ q # r) => approval'[k][q] = approval[k][q]
         /\ r \in Requests => approval'[j][r] \in {approval[j][r], phase}
         /\ r \in Requests /\ j \notin lost'["journal"] =>
               approval'[j][r] = phase
         /\ LostGrows
<1>1. LostGrows /\ ("journal" \in torn => j \in lost'["journal"])
  BY AppendsIs, FilesAre DEF WritesApproval
<1>2. approval' = IF "journal" \in torn
                    THEN approval ELSE [approval EXCEPT ![j][r] = phase]
  BY DEF WritesApproval
<1> QED
  BY <1>1, <1>2 DEF TypeOK

(* An outcome record is written once, or lost.                             *)
LEMMA EmitIs ==
  ASSUME TypeOK, NEW j \in Jobs, EmitOutcome(j)
  PROVE  /\ outcome' \in [Jobs -> Terminal \cup {"none", "lost"}]
         /\ \A k \in Jobs \ {j} : outcome'[k] = outcome[k]
         /\ outcome'[j] # outcome[j] =>
               outcome'[j] \in Terminal \/ j \in lost'["outcomes"]
         /\ store[j].status \in Terminal => outcome'[j] # "none"
         /\ LostGrows
<1>1. CASE OutcomeDue(j)
  <2>1. /\ outcome' = [outcome EXCEPT ![j] =
              IF "outcomes" \in torn THEN "lost" ELSE store[j].status]
        /\ Appends("outcomes", j)
    BY <1>1 DEF EmitOutcome
  <2>2. LostGrows /\ ("outcomes" \in torn => j \in lost'["outcomes"])
    BY <2>1, AppendsIs, FilesAre
  <2>3. store[j].status \in Terminal
    BY <1>1 DEF OutcomeDue
  <2> QED
    BY <2>1, <2>2, <2>3 DEF TypeOK, Terminal
<1>2. CASE ~ OutcomeDue(j)
  <2>1. outcome' = outcome /\ UNCHANGED files
    BY <1>2 DEF EmitOutcome
  <2> QED
    BY <1>2, <2>1, FilesKept DEF TypeOK, OutcomeDue
<1> QED
  BY <1>1, <1>2

(* Only an open channel takes an announcement.                             *)
LEMMA AnnounceIs ==
  ASSUME channel \in [Jobs -> Channel], NEW j \in Jobs, NEW what \in Outcomes,
         NEW r \in Requests \cup {0}, Announce(j, what, r)
  PROVE  /\ channel' \in [Jobs -> Channel]
         /\ channel[j].state # "open" => channel'[j] = channel[j]
         /\ channel[j].state = "open" =>
               channel'[j].state = what /\ channel'[j].request = r
         /\ \A k \in Jobs \ {j} : channel'[k] = channel[k]
<1>1. [state |-> what, request |-> r] \in Channel
  BY DEF Channel
<1> QED
  BY <1>1 DEF Announce

(* An abort decides an awaiting entry and touches no other.                *)
LEMMA AbortIs ==
  ASSUME registry \in [Requests -> RegistryEntry], NEW r, Abort(r)
  PROVE  /\ registry' \in [Requests -> RegistryEntry]
         /\ \A q \in Requests :
               \/ registry'[q] = registry[q]
               \/ /\ registry[q].state = "awaiting"
                  /\ registry'[q].state = "decided"
<1>1. [state |-> "decided", verdict |-> "abort", armed |-> FALSE]
         \in RegistryEntry
  BY DEF RegistryEntry, Verdicts
<1> QED
  BY <1>1 DEF Abort

LEMMA ContinueIs ==
  ASSUME main \in Main, NEW p \in MainSteps, Continue(p)
  PROVE  /\ main' \in Main
         /\ main'.pc = p
         /\ main'.job = main.job
         /\ main'.request = main.request
  BY DEF Continue, Main

LEMMA OneIsJob == 1 \in Jobs
  BY JobAssumption DEF Jobs

LEMMA MainIdleIs == MainIdle \in Main /\ MainIdle.pc = "idle"
  BY OneIsJob DEF MainIdle, Main, MainSteps

----------------------------------------------------------------------------
(* What the worker does to its own record.                                 *)

(* The worker moves on, and nothing else of it changes.                    *)
LEMMA GoToIs ==
  ASSUME TypeOK, NEW j \in Jobs, NEW p \in WorkerSteps, GoTo(j, p)
  PROVE  /\ worker' \in [Jobs -> Worker]
         /\ worker'[j].pc = p
         /\ worker'[j].request = worker[j].request
         /\ worker'[j].captured = worker[j].captured
         /\ worker'[j].announce = worker[j].announce
         /\ worker'[j].unknown = worker[j].unknown
         /\ worker'[j].final = worker[j].final
         /\ \A k \in Jobs \ {j} : worker'[k] = worker[k]
<1>1. worker \in [Jobs -> Worker]
  BY DEF TypeOK
<1> QED
  BY <1>1 DEF GoTo, Worker

LEMMA NoWorkerIs ==
  /\ NoWorker \in Worker
  /\ NoWorker.pc = "none" /\ NoWorker.captured = 0 /\ NoWorker.request = 0
  /\ NoWorker.announce = "empty"
  BY DEF NoWorker, Worker, WorkerSteps, UnknownKinds, Verdicts, Terminal,
         Outcomes

LEMMA EndsIs ==
  ASSUME TypeOK, NEW j \in Jobs, NEW p \in WorkerSteps, NEW final \in Terminal,
         NEW announce \in Outcomes, Ends(j, p, final, announce)
  PROVE  /\ worker' \in [Jobs -> Worker]
         /\ worker'[j].pc = p
         /\ worker'[j].final = final
         /\ worker'[j].announce = announce
         /\ worker'[j].captured = 0
         /\ \A k \in Jobs \ {j} : worker'[k] = worker[k]
<1> DEFINE w == [NoWorker EXCEPT !.pc = p, !.final = final,
                                 !.announce = announce]
<1>1. w \in Worker /\ w.pc = p /\ w.final = final /\ w.announce = announce
      /\ w.captured = 0
  BY NoWorkerIs DEF Worker
<1>2. worker' = [worker EXCEPT ![j] = w]
  BY DEF Ends
<1> HIDE DEF w
<1> QED
  BY <1>1, <1>2 DEF TypeOK

LEMMA FailsIs ==
  ASSUME TypeOK, NEW j \in Jobs, Fails(j)
  PROVE  /\ worker' \in [Jobs -> Worker]
         /\ worker'[j].pc = "settling"
         /\ worker'[j].final = "unknown"
         /\ worker'[j].announce = "failed"
         /\ worker'[j].captured = 0
         /\ \A k \in Jobs \ {j} : worker'[k] = worker[k]
<1>1. "settling" \in WorkerSteps /\ "unknown" \in Terminal
      /\ "failed" \in Outcomes
  BY DEF WorkerSteps, SettleSteps, Terminal, Outcomes
<1> QED
  BY <1>1, EndsIs DEF Fails

(* A request that can be parked is recorded and captured.                  *)
LEMMA ParkableArrivesIs ==
  ASSUME TypeOK, NEW j \in Jobs, NEW kind \in ParkableKinds,
         ParkableArrives(j, kind)
  PROVE  /\ psr' \in [Requests -> RequestRecord]
         /\ worker' \in [Jobs -> Worker]
         /\ worker'[j].pc = "parking"
         /\ worker'[j].request \in Requests
         /\ worker'[j].captured = worker'[j].request
         /\ worker'[j].announce = worker[j].announce
         /\ j \notin lost'["requests"] =>
               psr'[worker'[j].request] = [status |-> "pending", job |-> j]
         /\ \A k \in Jobs \ {j} : worker'[k] = worker[k]
         /\ \A q \in Requests : psr'[q] = psr[q] \/ psr'[q].job = j
         /\ LostGrows
<1> DEFINE r == worker[j].request + 1
           record == [status |-> "pending", job |-> j]
           w == [worker[j] EXCEPT !.pc = "parking", !.request = r,
                                  !.kind = kind, !.captured = r]
<1>1. r \in Requests /\ worker[j] \in Worker
  BY DEF ParkableArrives, TypeOK
<1>2. /\ worker' = [worker EXCEPT ![j] = w]
      /\ PutRequest(j, r, record)
  BY DEF ParkableArrives
<1> HIDE DEF r
<1>3. w \in Worker /\ w.pc = "parking" /\ w.request = r /\ w.captured = r
      /\ w.announce = worker[j].announce
  BY <1>1 DEF Worker, WorkerSteps, HandlerSteps
<1> HIDE DEF w
<1>4. worker' \in [Jobs -> Worker] /\ worker'[j] = w
      /\ \A k \in Jobs \ {j} : worker'[k] = worker[k]
  BY <1>2, <1>3 DEF TypeOK
<1>5. record \in RequestRecord /\ record.job = j
  BY DEF RequestRecord
<1> HIDE DEF record
<1>6. /\ psr' \in [Requests -> RequestRecord]
      /\ \A q \in Requests \ {r} : psr'[q] = psr[q]
      /\ psr'[r] \in {psr[r], record}
      /\ j \notin lost'["requests"] => psr'[r] = record
      /\ LostGrows
  BY <1>1, <1>2, <1>5, PutRequestIs
<1> QED
  BY <1>1, <1>3, <1>4, <1>5, <1>6 DEF record

(* A request that cannot be parked changes only records of its job.        *)
LEMMA UnknownArrivesIs ==
  ASSUME TypeOK, NEW j \in Jobs, NEW kind \in UnknownKinds,
         UnknownArrives(j, kind)
  PROVE  /\ psr' \in [Requests -> RequestRecord]
         /\ worker' \in [Jobs -> Worker]
         /\ worker'[j].pc = "interrupting"
         /\ worker'[j].announce = worker[j].announce
         /\ worker'[j].unknown
         /\ \A k \in Jobs \ {j} : worker'[k] = worker[k]
         /\ \A q \in Requests : psr'[q] = psr[q] \/ psr'[q].job = j
         /\ LostGrows
<1> DEFINE r == worker[j].request + 1
           first == worker[j].captured = 0
           record == [status |-> "pending", job |-> j]
           c == IF first THEN r ELSE worker[j].captured
           b == worker[j].blank \/ (first /\ kind = "unparsable")
           w == [worker[j] EXCEPT !.pc = "interrupting", !.request = r,
                           !.kind = kind, !.unknown = TRUE,
                           !.captured = c, !.blank = b]
<1>1. r \in Requests /\ worker[j] \in Worker /\ first \in BOOLEAN
  BY DEF UnknownArrives, TypeOK
<1>2. worker' = [worker EXCEPT ![j] = w]
  BY DEF UnknownArrives
<1>3. \/ PutRequest(j, r, record)
      \/ psr' = psr /\ UNCHANGED files
  BY DEF UnknownArrives
<1> HIDE DEF r, first
<1>4. w \in Worker /\ w.pc = "interrupting" /\ w.announce = worker[j].announce
      /\ w.unknown = TRUE
  <2>1. b \in BOOLEAN /\ c \in Requests \cup {0}
    BY <1>1 DEF Worker
  <2> HIDE DEF b, c
  <2> QED
    BY <1>1, <2>1 DEF Worker, WorkerSteps
<1> HIDE DEF w
<1>5. worker' \in [Jobs -> Worker] /\ worker'[j] = w
      /\ \A k \in Jobs \ {j} : worker'[k] = worker[k]
  BY <1>2, <1>4 DEF TypeOK
<1>6. record \in RequestRecord /\ record.job = j
  BY DEF RequestRecord
<1> HIDE DEF record
<1>7. /\ psr' \in [Requests -> RequestRecord]
      /\ \A q \in Requests : psr'[q] = psr[q] \/ psr'[q].job = j
      /\ LostGrows
  <2>1. CASE PutRequest(j, r, record)
    BY <1>1, <1>6, <2>1, PutRequestIs
  <2>2. CASE psr' = psr /\ UNCHANGED files
    BY <2>2, FilesKept DEF TypeOK
  <2> QED
    BY <1>3, <2>1, <2>2
<1> QED
  BY <1>4, <1>5, <1>7

LEMMA InterruptsIs ==
  ASSUME TypeOK, NEW j \in Jobs, Interrupts(j)
  PROVE  /\ worker' \in [Jobs -> Worker]
         /\ worker'[j].unknown = worker[j].unknown
         /\ \/ /\ worker'[j].pc = "settling"
               /\ worker'[j].announce = "terminal"
               /\ worker'[j].final = "unknown"
            \/ /\ worker'[j].pc = "interrupted"
               /\ worker'[j].announce = worker[j].announce
         /\ \A k \in Jobs \ {j} : worker'[k] = worker[k]
<1> DEFINE settled == [worker[j] EXCEPT !.pc = "settling", !.final = "unknown",
                                        !.announce = "terminal"]
           on == [worker[j] EXCEPT !.pc = "interrupted"]
<1>1. worker' = [worker EXCEPT
         ![j] = IF worker[j].kind = "unparsable" THEN settled ELSE on]
  BY DEF Interrupts
<1>2. worker[j] \in Worker
  BY DEF TypeOK
<1>3. settled \in Worker /\ settled.pc = "settling"
      /\ settled.announce = "terminal" /\ settled.final = "unknown"
      /\ settled.unknown = worker[j].unknown
  BY <1>2 DEF Worker, WorkerSteps, SettleSteps, Terminal, Outcomes
<1>4. /\ on \in Worker
      /\ on.pc = "interrupted"
      /\ on.announce = worker[j].announce
      /\ on.unknown = worker[j].unknown
  BY <1>2 DEF Worker, WorkerSteps
<1> HIDE DEF settled, on
<1> QED
  BY <1>1, <1>3, <1>4 DEF TypeOK

(* An entry is made for the worker's request, or the worker settles.       *)
LEMMA RegistersIs ==
  ASSUME TypeOK, NEW j \in Jobs, Registers(j)
  PROVE  /\ registry' \in [Requests -> RegistryEntry]
         /\ worker' \in [Jobs -> Worker]
         /\ \/ /\ worker'[j].pc = "announcing"
               /\ worker'[j].request = worker[j].request
               /\ worker'[j].captured = worker[j].captured
               /\ worker'[j].announce = worker[j].announce
               /\ \A q \in Requests \ {worker[j].request} :
                     registry'[q] = registry[q]
            \/ /\ worker'[j].pc = "settling"
               /\ worker'[j].announce = "failed"
               /\ worker'[j].final = "unknown"
               /\ registry' = registry
         /\ \A k \in Jobs \ {j} : worker'[k] = worker[k]
<1> DEFINE r == worker[j].request
           entry == [state |-> "awaiting", verdict |-> "none", armed |-> TRUE]
<1>1. entry \in RegistryEntry
  BY DEF RegistryEntry, Verdicts
<1>2. CASE registry[r].state = "absent"
  <2>1. registry' = [registry EXCEPT ![r] = entry] /\ GoTo(j, "announcing")
    BY <1>2 DEF Registers
  <2>2. "announcing" \in WorkerSteps
    BY DEF WorkerSteps, HandlerSteps
  <2> HIDE DEF entry
  <2>3. registry' \in [Requests -> RegistryEntry]
        /\ \A q \in Requests \ {r} : registry'[q] = registry[q]
    BY <1>1, <2>1 DEF TypeOK
  <2> QED
    BY <2>1, <2>2, <2>3, GoToIs
<1>3. CASE registry[r].state # "absent"
  <2>1. registry' = registry /\ Fails(j)
    BY <1>3 DEF Registers
  <2> QED
    BY <2>1, FailsIs DEF TypeOK
<1> QED
  BY <1>2, <1>3

LEMMA WorkerTyped ==
  ASSUME TypeOK, NEW j \in Jobs
  PROVE  /\ worker[j].request \in Requests \cup {0}
         /\ worker[j].captured \in Requests \cup {0}
         /\ worker[j].verdict \in Verdicts
         /\ worker[j].final \in Terminal \cup {"needs_escalation"}
         /\ worker[j].final \in Active \cup Terminal
         /\ worker[j].announce \in Outcomes
<1>1. worker[j] \in Worker
  BY DEF TypeOK
<1> QED
  BY <1>1 DEF Worker, Active

LEMMA WakesIs ==
  ASSUME TypeOK, NEW j \in Jobs, Wakes(j), worker[j].request \in Requests
  PROVE  /\ worker' \in [Jobs -> Worker]
         /\ worker'[j].pc \in {"resuming", "intending"}
         /\ worker'[j].request = worker[j].request
         /\ worker'[j].captured = worker[j].captured
         /\ worker'[j].announce = worker[j].announce
         /\ \A k \in Jobs \ {j} : worker'[k] = worker[k]
<1> DEFINE entry == registry[worker[j].request]
           p == IF entry.verdict = "operator" THEN "resuming" ELSE "intending"
           w == [worker[j] EXCEPT !.verdict = entry.verdict, !.pc = p]
<1>1. entry.verdict \in Verdicts /\ worker[j] \in Worker
  BY DEF TypeOK, RegistryEntry
<1>2. worker' = [worker EXCEPT ![j] = w]
  BY DEF Wakes
<1>3. p \in {"resuming", "intending"} /\ p \in WorkerSteps
  BY DEF WorkerSteps, HandlerSteps
<1> HIDE DEF entry, p
<1>4. w \in Worker /\ w.pc = p /\ w.request = worker[j].request
      /\ w.captured = worker[j].captured /\ w.announce = worker[j].announce
  BY <1>1, <1>3 DEF Worker
<1> HIDE DEF w
<1> QED
  BY <1>2, <1>3, <1>4 DEF TypeOK

LEMMA RespondsIs ==
  ASSUME TypeOK, NEW j \in Jobs, NEW works \in BOOLEAN, Responds(j, works)
  PROVE  /\ worker' \in [Jobs -> Worker]
         /\ worker'[j].pc = "recording"
         /\ worker'[j].request = worker[j].request
         /\ worker'[j].captured = worker[j].captured
         /\ worker'[j].announce = worker[j].announce
         /\ \A k \in Jobs \ {j} : worker'[k] = worker[k]
<1> DEFINE w == [worker[j] EXCEPT !.pc = "recording", !.accepted = works]
<1>1. worker' = [worker EXCEPT ![j] = w] /\ worker[j] \in Worker
  BY DEF Responds, TypeOK
<1>2. w \in Worker /\ w.pc = "recording" /\ w.request = worker[j].request
      /\ w.captured = worker[j].captured /\ w.announce = worker[j].announce
  BY <1>1 DEF Worker, WorkerSteps, HandlerSteps
<1> HIDE DEF w
<1> QED
  BY <1>1, <1>2 DEF TypeOK

Answers == {"resolved", "canceled"}

LEMMA MarkRequestIs ==
  ASSUME TypeOK, NEW r \in Requests, NEW status \in Answers,
         MarkRequest(r, status)
  PROVE  /\ psr' \in [Requests -> RequestRecord]
         /\ psr'[r].job = psr[r].job
         /\ psr[r].status # "absent" => psr'[r].status = status
         /\ \A q \in Requests \ {r} : psr'[q] = psr[q]
<1>1. psr \in [Requests -> RequestRecord]
  BY DEF TypeOK
<1>2. status \in {"absent", "pending", "resolved", "canceled"}
  BY DEF Answers
<1>3. psr' = IF psr[r].status = "absent"
               THEN psr ELSE [psr EXCEPT ![r].status = status]
  BY DEF MarkRequest
<1> QED
  BY <1>1, <1>2, <1>3 DEF RequestRecord

LEMMA RecordsAnswerIs ==
  ASSUME TypeOK, NEW j \in Jobs, RecordsAnswer(j),
         worker[j].request \in Requests
  PROVE  /\ psr' \in [Requests -> RequestRecord]
         /\ psr'[worker[j].request].job = psr[worker[j].request].job
         /\ /\ j \notin lost'["requests"]
            /\ psr[worker[j].request].status # "absent"
            => psr'[worker[j].request].status \in Answers
         /\ \A q \in Requests \ {worker[j].request} : psr'[q] = psr[q]
         /\ LostGrows
<1> DEFINE r == worker[j].request
<1>1. CASE Delivered(worker[j])
  <2>1. MarkRequest(r, "resolved") /\ torn' = torn \ {"requests"}
        /\ lost' = lost
    BY <1>1 DEF RecordsAnswer
  <2>2. torn' \in SUBSET Files
    BY <2>1 DEF TypeOK
  <2>3. "resolved" \in Answers
    BY DEF Answers
  <2> QED
    BY <2>1, <2>2, <2>3, OnlyTorn, MarkRequestIs
<1>2. CASE ~ Delivered(worker[j])
  <2>1. /\ IF "requests" \in torn THEN psr' = psr ELSE MarkRequest(r, "canceled")
        /\ Appends("requests", j)
    BY <1>2 DEF RecordsAnswer
  <2>2. LostGrows /\ ("requests" \in torn => j \in lost'["requests"])
    BY <2>1, AppendsIs, FilesAre
  <2>3. "canceled" \in Answers
    BY DEF Answers
  <2>4. CASE "requests" \in torn
    BY <2>1, <2>2, <2>4 DEF TypeOK
  <2>5. CASE "requests" \notin torn
    BY <2>1, <2>2, <2>3, <2>5, MarkRequestIs
  <2> QED
    BY <2>4, <2>5
<1> QED
  BY <1>1, <1>2

(* The entry is gone, and the worker settles or goes on with its turn.     *)
LEMMA DiscardsIs ==
  ASSUME TypeOK, NEW j \in Jobs, Discards(j)
  PROVE  /\ registry' \in [Requests -> RegistryEntry]
         /\ \A q \in Requests \ {worker[j].request} :
               registry'[q] = registry[q]
         /\ worker[j].request \in Requests =>
               registry'[worker[j].request].state = "absent"
         /\ worker' \in [Jobs -> Worker]
         /\ \/ /\ worker'[j].pc = "settling"
               /\ worker'[j].announce = "empty"
               /\ worker'[j].final \in Terminal
            \/ /\ worker'[j].pc = "turn"
               /\ worker'[j].announce = worker[j].announce
               /\ worker'[j].captured = worker[j].captured
         /\ \A k \in Jobs \ {j} : worker'[k] = worker[k]
<1> DEFINE on == [worker[j] EXCEPT !.pc = "turn", !.accepted = FALSE,
                                   !.verdict = "none"]
           r == worker[j].request
<1>1. registry' = [registry EXCEPT ![r] = NoEntry]
  BY DEF Discards
<1>2. \/ Ends(j, "settling", "unknown", "empty")
      \/ Ends(j, "settling", "canceled", "empty")
      \/ worker' = [worker EXCEPT ![j] = on]
  BY DEF Discards
<1>3. NoEntry \in RegistryEntry /\ NoEntry.state = "absent"
  BY DEF NoEntry, RegistryEntry, Verdicts
<1> HIDE DEF r
<1>4. /\ registry' \in [Requests -> RegistryEntry]
      /\ \A q \in Requests \ {r} : registry'[q] = registry[q]
      /\ r \in Requests => registry'[r].state = "absent"
  BY <1>1, <1>3 DEF TypeOK
<1>5. /\ "settling" \in WorkerSteps
      /\ "unknown" \in Terminal /\ "canceled" \in Terminal
      /\ "empty" \in Outcomes
  BY DEF WorkerSteps, SettleSteps, Terminal, Outcomes
<1>6. worker[j] \in Worker
  BY DEF TypeOK
<1>7. /\ on \in Worker /\ on.pc = "turn" /\ on.announce = worker[j].announce
      /\ on.captured = worker[j].captured
  BY <1>6 DEF Worker, WorkerSteps, Verdicts
<1> HIDE DEF on
<1>8. CASE worker' = [worker EXCEPT ![j] = on]
  <2>1. worker' \in [Jobs -> Worker] /\ worker'[j] = on
        /\ \A k \in Jobs \ {j} : worker'[k] = worker[k]
    BY <1>7, <1>8 DEF TypeOK
  <2> QED
    BY <1>4, <1>7, <2>1 DEF r
<1>9. CASE \E final \in {"unknown", "canceled"} :
              Ends(j, "settling", final, "empty")
  BY <1>4, <1>5, <1>9, EndsIs DEF r
<1> QED
  BY <1>2, <1>8, <1>9

(* The finalizer resolves at most the captured request, if pending; the    *)
(* job needs an escalation only if a captured request that could be parked *)
(* has no answer.                                                          *)
LEMMA TurnEndsIs ==
  ASSUME TypeOK, NEW j \in Jobs, NEW result \in TurnResults,
         TurnEnds(j, result)
  PROVE  /\ psr' \in [Requests -> RequestRecord]
         /\ \A q \in Requests : psr'[q].job = psr[q].job
         /\ \A q \in Requests :
               \/ psr'[q].status = psr[q].status
               \/ psr[q].status = "pending" /\ q = worker[j].captured
         /\ worker' \in [Jobs -> Worker]
         /\ worker'[j].pc = "finalizing"
         /\ worker'[j].announce = "empty"
         /\ worker'[j].final = "needs_escalation" =>
               /\ worker[j].captured \in Requests
               /\ psr[worker[j].captured].status \notin Answers
               /\ ~ worker[j].unknown
         /\ \A k \in Jobs \ {j} : worker'[k] = worker[k]
         /\ LostGrows
<1> DEFINE c == worker[j].captured
           f == FinalStatus(j, result)
           u == worker[j].unknown
           record == [psr[c] EXCEPT !.status = "resolved"]
           w == [NoWorker EXCEPT !.pc = "finalizing", !.unknown = u, !.final = f]
<1>1. worker' = [worker EXCEPT ![j] = w] /\ worker[j] \in Worker
  BY DEF TurnEnds, TypeOK
<1>2. \/ psr' = psr /\ UNCHANGED files
      \/ /\ PutRequest(j, c, record)
         /\ c # 0 /\ psr[c].status = "pending"
  BY DEF TurnEnds, ResolveDue
<1>3. /\ f \in Terminal \cup {"needs_escalation"}
      /\ f = "needs_escalation" =>
            c # 0 /\ psr[c].status \notin Answers /\ ~ u
  BY DEF FinalStatus, TurnResults, Terminal, Answers
<1>4. c \in Requests \cup {0} /\ u \in BOOLEAN
  BY <1>1 DEF Worker
<1> HIDE DEF c, f, u
<1>5. /\ w \in Worker
      /\ w.pc = "finalizing"
      /\ w.announce = "empty"
      /\ w.final = f
  BY <1>3, <1>4, NoWorkerIs DEF Worker, WorkerSteps, FinalSteps
<1> HIDE DEF w
<1>6. /\ psr' \in [Requests -> RequestRecord]
      /\ \A q \in Requests : psr'[q].job = psr[q].job
      /\ \A q \in Requests :
            \/ psr'[q].status = psr[q].status
            \/ psr[q].status = "pending" /\ q = c
      /\ LostGrows
  <2>1. CASE psr' = psr /\ UNCHANGED files
    BY <2>1, FilesKept DEF TypeOK
  <2>2. CASE PutRequest(j, c, record) /\ c # 0 /\ psr[c].status = "pending"
    <3>1. c \in Requests /\ psr[c] \in RequestRecord
      BY <1>4, <2>2 DEF TypeOK
    <3>2. record \in RequestRecord /\ record.job = psr[c].job
      BY <3>1 DEF RequestRecord
    <3> HIDE DEF record
    <3> QED
      BY <2>2, <3>1, <3>2, PutRequestIs
  <2> QED
    BY <1>2, <2>1, <2>2
<1>7. /\ worker' \in [Jobs -> Worker] /\ worker'[j] = w
      /\ \A k \in Jobs \ {j} : worker'[k] = worker[k]
  BY <1>1, <1>5 DEF TypeOK
<1> QED
  BY <1>3, <1>4, <1>5, <1>6, <1>7 DEF c, u

(* A worker without a captured request, and an open channel.               *)
LEMMA SpawnsIs ==
  ASSUME TypeOK, Spawns
  PROVE  /\ channel' \in [Jobs -> Channel]
         /\ channel'[main.job].state = "open"
         /\ worker' \in [Jobs -> Worker]
         /\ worker'[main.job].pc = "spawned"
         /\ worker'[main.job].captured = 0
         /\ worker'[main.job].announce = "empty"
         /\ \A k \in Jobs \ {main.job} :
               worker'[k] = worker[k] /\ channel'[k] = channel[k]
<1> DEFINE w == [NoWorker EXCEPT !.pc = "spawned"]
<1>1. /\ w \in Worker
      /\ w.pc = "spawned"
      /\ w.captured = 0
      /\ w.announce = "empty"
  BY NoWorkerIs DEF Worker, WorkerSteps
<1>2. main.job \in Jobs
  BY DEF TypeOK, Main
<1>3. /\ worker' = [worker EXCEPT ![main.job] = w]
      /\ channel' = [channel EXCEPT ![main.job].state = "open"]
  BY DEF Spawns
<1> HIDE DEF w
<1>4. \A k \in Jobs : channel[k] \in Channel
  BY DEF TypeOK
<1>5. /\ channel' \in [Jobs -> Channel]
      /\ channel'[main.job].state = "open"
      /\ \A k \in Jobs \ {main.job} : channel'[k] = channel[k]
  BY <1>2, <1>3, <1>4 DEF TypeOK, Channel
<1> QED
  BY <1>1, <1>2, <1>3, <1>5 DEF TypeOK

(* _persist_job_transition() writes the status and goes on, or fails: the  *)
(* job is not in the store.                                                *)
LEMMA PersistsIs ==
  ASSUME TypeOK, NEW j \in Jobs, NEW status \in Active \cup Terminal,
         NEW p \in WorkerSteps, Persists(j, status, p)
  PROVE  /\ store' \in [Jobs -> JobRecord]
         /\ worker' \in [Jobs -> Worker]
         /\ \A k \in Jobs \ {j} :
               store'[k] = store[k] /\ worker'[k] = worker[k]
         /\ store'[j] = store[j]
               \/ (store'[j].status = status /\ store[j].status # "absent")
         /\ store'[j].parked = store[j].parked
         /\ \/ /\ store[j].status = "absent"
               /\ worker'[j].pc = "settling"
               /\ worker'[j].final = "unknown"
               /\ worker'[j].announce = "failed"
            \/ /\ j \notin lost'["jobs"] => store'[j].status = status
               /\ worker'[j].pc = p
               /\ worker'[j].request = worker[j].request
               /\ worker'[j].captured = worker[j].captured
               /\ worker'[j].announce = worker[j].announce
               /\ worker'[j].unknown = worker[j].unknown
               /\ worker'[j].final = worker[j].final
         /\ LostGrows
<1>1. Transition(j, status)
  BY DEF Persists
<1>2. CASE store[j].status = "absent"
  <2>1. Fails(j)
    BY <1>2 DEF Persists
  <2> QED
    BY <1>1, <1>2, <2>1, TransitionIs, FailsIs
<1>3. CASE store[j].status # "absent"
  <2>1. GoTo(j, p)
    BY <1>3 DEF Persists
  <2> QED
    BY <1>1, <1>3, <2>1, TransitionIs, GoToIs
<1> QED
  BY <1>2, <1>3

(* The first write of a clean-up.                                          *)
LEMMA SettlesIs ==
  ASSUME TypeOK, NEW j \in Jobs, Settles(j), worker[j].final \in Terminal
  PROVE  /\ store' \in [Jobs -> JobRecord]
         /\ worker' \in [Jobs -> Worker]
         /\ \A k \in Jobs \ {j} :
               store'[k] = store[k] /\ worker'[k] = worker[k]
         /\ store'[j] = store[j]
               \/ (store'[j].status \in Terminal /\ store[j].status # "absent")
         /\ \/ /\ store[j].status = "absent"
               /\ worker'[j].pc = "settling"
               /\ worker'[j].final = "unknown"
               /\ worker'[j].announce = "failed"
            \/ /\ j \notin lost'["jobs"] /\ store[j].status # "absent" =>
                     store'[j].status \in Terminal
               /\ worker'[j].pc = "settle_outcome"
               /\ worker'[j].announce = worker[j].announce
               /\ worker'[j].unknown = worker[j].unknown
               /\ worker'[j].final = worker[j].final
         /\ LostGrows
<1>0. "settle_outcome" \in WorkerSteps /\ "unknown" \in Terminal
  BY DEF WorkerSteps, SettleSteps, Terminal
<1>1. CASE MarksUnknown(worker[j])
  <2>1. Transition(j, "unknown") /\ GoTo(j, "settle_outcome")
    BY <1>1 DEF Settles
  <2> QED
    BY <1>0, <2>1, TransitionIs, GoToIs
<1>2. CASE ~ MarksUnknown(worker[j])
  <2>1. Persists(j, worker[j].final, "settle_outcome")
    BY <1>2 DEF Settles
  <2> QED
    BY <1>0, <2>1, PersistsIs
<1> QED
  BY <1>1, <1>2

LEMMA AfterSettlingIs ==
  ASSUME TypeOK, NEW j \in Jobs, AfterSettling(j)
  PROVE  /\ worker' \in [Jobs -> Worker]
         /\ worker'[j].pc = IF worker[j].announce = "terminal"
                              THEN "settle_announce" ELSE "settle_release"
         /\ worker'[j].announce = worker[j].announce
         /\ worker'[j].unknown = worker[j].unknown
         /\ worker'[j].final = worker[j].final
         /\ \A k \in Jobs \ {j} : worker'[k] = worker[k]
<1>1. "settle_announce" \in WorkerSteps /\ "settle_release" \in WorkerSteps
  BY DEF WorkerSteps, SettleSteps
<1> QED
  BY <1>1, GoToIs DEF AfterSettling

LEMMA AfterFinalizingIs ==
  ASSUME TypeOK, NEW j \in Jobs, AfterFinalizing(j)
  PROVE  /\ worker' \in [Jobs -> Worker]
         /\ worker'[j].pc = "settle_announce"
         /\ worker'[j].announce = "empty"
         /\ worker'[j].final \in Terminal
         /\ \A k \in Jobs \ {j} : worker'[k] = worker[k]
<1>1. /\ "settle_announce" \in WorkerSteps
      /\ "unknown" \in Terminal /\ "empty" \in Outcomes
  BY DEF WorkerSteps, SettleSteps, Terminal, Outcomes
<1> QED
  BY <1>1, EndsIs DEF AfterFinalizing

LEMMA SettlesAnnouncementIs ==
  ASSUME TypeOK, NEW j \in Jobs, SettlesAnnouncement(j)
  PROVE  /\ worker' \in [Jobs -> Worker]
         /\ channel' \in [Jobs -> Channel]
         /\ IF worker[j].announce = "terminal"
              THEN /\ worker'[j].pc = "interrupted"
                   /\ worker'[j].announce = worker[j].announce
                   /\ worker'[j].unknown = worker[j].unknown
              ELSE worker'[j].pc = "finished" /\ worker'[j].announce = "empty"
         /\ channel[j].state # "open" => channel'[j] = channel[j]
         /\ channel[j].state = "open" => channel'[j].state = worker[j].announce
         /\ \A k \in Jobs \ {j} :
               worker'[k] = worker[k] /\ channel'[k] = channel[k]
<1>1. /\ "interrupted" \in WorkerSteps /\ "finished" \in WorkerSteps
      /\ "unknown" \in Terminal /\ "empty" \in Outcomes
  BY DEF WorkerSteps, Terminal, Outcomes
<1>2. worker[j].announce \in Outcomes /\ 0 \in Requests \cup {0}
  BY WorkerTyped
<1>3. Announce(j, worker[j].announce, 0)
  BY DEF SettlesAnnouncement
<1>4. channel \in [Jobs -> Channel]
  BY DEF TypeOK
<1>5. /\ channel' \in [Jobs -> Channel]
      /\ channel[j].state # "open" => channel'[j] = channel[j]
      /\ channel[j].state = "open" => channel'[j].state = worker[j].announce
      /\ \A k \in Jobs \ {j} : channel'[k] = channel[k]
  BY <1>2, <1>3, <1>4, AnnounceIs
<1>6. CASE worker[j].announce = "terminal"
  BY <1>1, <1>5, <1>6, GoToIs DEF SettlesAnnouncement
<1>7. CASE worker[j].announce # "terminal"
  BY <1>1, <1>5, <1>7, EndsIs DEF SettlesAnnouncement
<1> QED
  BY <1>6, <1>7

(* An exception settles the job as unknown, and nothing else: but for the  *)
(* first write of the worker, after which nothing is settled.              *)
RaisingSteps == {"final_escalation", "final_outcome", "settling", "turn",
                 "interrupted", "finalizing", "final_lineage"}
                    \cup (HandlerSteps \ {"registering"})

LEMMA WriteRaisesIs ==
  ASSUME TypeOK, NEW j \in Jobs, WriteRaises(j)
  PROVE  /\ worker' \in [Jobs -> Worker]
         /\ \/ /\ worker[j].pc \in RaisingSteps
               /\ worker'[j].pc = "settling"
               /\ worker'[j].announce = "failed"
            \/ /\ worker[j].pc = "spawned"
               /\ worker'[j].pc = "settle_announce"
               /\ worker'[j].announce = "failed"
         /\ worker'[j].final \in Terminal
         /\ worker'[j].captured = 0
         /\ \A k \in Jobs \ {j} : worker'[k] = worker[k]
         /\ faults' \in 0..MaxFaults
         /\ LostGrows
<1>1. faults' \in 0..MaxFaults
  BY JobAssumption DEF WriteRaises, TypeOK
<1>2. lost' = lost
  BY DEF WriteRaises
<1>3. "unknown" \in Terminal /\ "settle_announce" \in WorkerSteps
      /\ "failed" \in Outcomes
  BY DEF Terminal, WorkerSteps, SettleSteps, Outcomes
<1>4. CASE /\ worker[j].pc \in {"final_escalation", "final_outcome"}
           /\ Fails(j)
           /\ UNCHANGED torn
  <2>1. LostGrows
    BY <1>2, <1>4, OnlyTorn DEF TypeOK
  <2> QED
    BY <1>1, <1>3, <1>4, <2>1, FailsIs DEF RaisingSteps
<1>5. CASE \E f \in {"jobs", "requests", "journal", "lineage"} :
             /\ worker[j].pc \in WorkerWrites[f] \ {"spawned", "settle_lineage"}
             /\ AppendRaises(f)
             /\ Fails(j)
  <2>1. PICK f \in {"jobs", "requests", "journal", "lineage"} :
             /\ worker[j].pc \in WorkerWrites[f] \ {"spawned", "settle_lineage"}
             /\ AppendRaises(f)
             /\ Fails(j)
    BY <1>5
  <2>2. worker[j].pc \in RaisingSteps
    BY <2>1 DEF WorkerWrites, RaisingSteps, HandlerSteps
  <2>3. LostGrows
    BY <1>2, <2>1, AppendRaisesIs, OnlyTorn, FilesAre
  <2> QED
    BY <1>1, <1>3, <2>1, <2>2, <2>3, FailsIs
<1>6. CASE /\ At(j, "spawned")
           /\ AppendRaises("jobs")
           /\ Ends(j, "settle_announce", "unknown", "failed")
  <2>1. LostGrows
    BY <1>2, <1>6, AppendRaisesIs, OnlyTorn, FilesAre
  <2> QED
    BY <1>1, <1>3, <1>6, <2>1, EndsIs DEF At
<1> QED
  BY <1>4, <1>5, <1>6 DEF WriteRaises

(* A swallowed write of a clean-up moves it on without the record.         *)
LEMMA WriteIsSwallowedIs ==
  ASSUME TypeOK, NEW j \in Jobs, WriteIsSwallowed(j)
  PROVE  /\ worker' \in [Jobs -> Worker]
         /\ \/ /\ worker[j].pc = "settling"
               /\ worker'[j].pc = "settle_outcome"
               /\ j \in lost'["jobs"]
               /\ worker'[j].announce = worker[j].announce
               /\ worker'[j].unknown = worker[j].unknown
               /\ worker'[j].final = worker[j].final
            \/ /\ worker[j].pc = "settle_outcome"
               /\ worker'[j].pc = "settle_lineage"
               /\ worker'[j].announce = worker[j].announce
               /\ worker'[j].unknown = worker[j].unknown
               /\ worker'[j].final = worker[j].final
            \/ /\ worker[j].pc = "settle_lineage"
               /\ worker'[j].pc = IF worker[j].announce = "terminal"
                                   THEN "settle_announce" ELSE "settle_release"
               /\ worker'[j].announce = worker[j].announce
               /\ worker'[j].unknown = worker[j].unknown
               /\ worker'[j].final = worker[j].final
            \/ /\ worker[j].pc = "final_outcome"
               /\ worker'[j].pc = "settle_announce"
               /\ worker'[j].announce = "empty"
               /\ worker'[j].final \in Terminal
         /\ \A k \in Jobs \ {j} : worker'[k] = worker[k]
         /\ faults' \in 0..MaxFaults
         /\ LostGrows
<1>1. faults' \in 0..MaxFaults
  BY JobAssumption DEF WriteIsSwallowed, TypeOK
<1>2. "settle_outcome" \in WorkerSteps /\ "settle_lineage" \in WorkerSteps
  BY DEF WorkerSteps, SettleSteps
<1>3. CASE /\ At(j, "settling")
           /\ Swallows("jobs", j)
           /\ GoTo(j, "settle_outcome")
  BY <1>1, <1>2, <1>3, SwallowsIs, FilesAre, GoToIs DEF At
<1>4. CASE /\ At(j, "settle_outcome") /\ Swallows("outcomes", j)
           /\ GoTo(j, "settle_lineage")
  BY <1>1, <1>2, <1>4, SwallowsIs, FilesAre, GoToIs DEF At
<1>5. CASE /\ At(j, "settle_lineage")
           /\ Swallows("lineage", j)
           /\ AfterSettling(j)
  BY <1>1, <1>5, SwallowsIs, FilesAre, AfterSettlingIs DEF At
<1>6. CASE At(j, "final_outcome") /\ Swallows("outcomes", j)
           /\ AfterFinalizing(j)
  BY <1>1, <1>6, SwallowsIs, FilesAre, AfterFinalizingIs DEF At
<1> QED
  BY <1>3, <1>4, <1>5, <1>6 DEF WriteIsSwallowed

----------------------------------------------------------------------------
(* The inductive invariant.                                                *)

(* No record about the job is missing from the store, since the start of   *)
(* the server.                                                             *)
InJobs(j)     == j \notin lost["jobs"]
InRequests(j) == j \notin lost["requests"]

Unserved == {"running", "needs_escalation"}

(* The main thread in a start that has passed the gate.                    *)
StartSteps == {"bootstrapping", "bootstrapped", "registering", "lineage",
               "queueing", "completing", "spawning", "cleaning_handle",
               "cleaning_job"}

(* The worker with a turn in a runtime that is still in the table.         *)
RuntimeSteps == {"spawned", "turn", "interrupting", "interrupted",
                 "finalizing", "final_escalation", "final_lineage",
                 "final_release"} \cup HandlerSteps

(* The worker after it has given the job its terminal status.              *)
SettledSteps == {"settle_outcome", "settle_lineage", "settle_release",
                 "final_lineage", "final_release", "final_outcome"}

(* What makes a job the one that is live, the start that has passed the    *)
(* gate included: OneLiveJob alone is not kept by that start.              *)
Claimed(j) ==
    \/ runtime[j]
    \/ store[j].status = "queued"
    \/ store[j].status \in Unserved /\ InJobs(j) /\ ~ Recovering
    \/ main.pc \in StartSteps \cup {"waiting"} /\ main.job = j

OneClaim == \A i, j \in Jobs : Claimed(i) /\ Claimed(j) => i = j

NotStarted(j) ==
    /\ store[j].status = "absent"
    /\ ~ runtime[j]
    /\ worker[j].pc = "none"

(* The intent record comes before everything else of a job, and uses up    *)
(* its id even if it is lost.                                              *)
FreshJobs == \A j \in Jobs : creation[j] = "none" => NotStarted(j)

(* A job before its turn has no promotion state: the gate, which goes by   *)
(* promotion states, sees it.                                              *)
Unpromoted ==
    \A j \in Jobs : store[j].status \in {"absent", "queued"} =>
        store[j].promotion = "none"

(* What the gate has read stays true until it reads the next source.       *)
GateInv ==
    /\ main.pc \in {"gate_runtimes", "gate_journal"} =>
          /\ \A j \in Jobs : store[j].status # "queued"
          /\ creation[main.job] = "none"
    /\ main.pc = "gate_journal" =>
          \A j \in Jobs :
             /\ ~ runtime[j]
             /\ InJobs(j) => store[j].status \notin Unserved

(* How far start() and discard() have come, and what is stored by then.    *)
StartInv ==
    /\ main.pc \in StartSteps =>
          creation[main.job] # "none" /\ worker[main.job].pc = "none"
    /\ main.pc \in {"bootstrapping", "bootstrapped", "registering", "lineage",
                    "queueing"} => store[main.job].status = "absent"
    /\ main.pc \in {"completing", "spawning", "cleaning_handle",
                    "cleaning_job"} =>
          store[main.job].status \in {"absent", "queued"}
    /\ main.pc \in {"completing", "spawning"} /\ InJobs(main.job) =>
          store[main.job].status = "queued"
    /\ main.pc \in {"lineage", "queueing", "completing", "spawning"} =>
          runtime[main.job]
    /\ main.pc = "discarding" =>
          store[main.job].status \notin {"absent", "queued"}

(* What a worker's place says of its record and of the job's runtime.      *)
PlaceInv(j) ==
    LET w == worker[j] IN
    /\ w.pc \in RuntimeSteps => runtime[j]
    /\ w.pc \in SettleSteps /\ w.announce = "terminal" =>
          runtime[j] /\ w.unknown
    /\ w.pc \in {"interrupting", "interrupted"} => w.unknown
    /\ w.pc = "settle_release" => w.announce # "terminal"
    /\ w.pc \in SettleSteps => w.final \in Terminal
    /\ w.pc = "final_outcome" => ~ runtime[j]
    /\ w.pc = "settle_announce" /\ w.announce = "empty" /\ InRequests(j) =>
          ~ runtime[j]
    /\ \/ w.pc = "finalizing" /\ w.final = "needs_escalation"
       \/ w.pc = "final_escalation"
       => ~ InRequests(j)
    /\ w.announce # "parked"

(* What it says of the job's status, if no record of that is missing.      *)
StatusInv(j) ==
    LET w == worker[j]
        s == store[j].status IN
    InJobs(j) /\ w.pc # "none" =>
    /\ s # "absent"
    /\ w.pc = "spawned" => s = "queued"
    /\ s = "queued" => w.pc \in {"spawned", "settle_announce", "finished"}
    /\ s \in Unserved => runtime[j]
    /\ w.pc \in SettledSteps => s \in Terminal
    /\ w.pc = "final_escalation" => s = "needs_escalation"
    /\ w.pc = "settle_announce" =>
          \/ s \in Terminal
          \/ s = "queued" /\ w.announce = "failed"
          \/ s = "needs_escalation" /\ ~ InRequests(j)
    /\ w.pc = "finished" =>
          s \in Terminal \cup {"queued"} \/ ~ InRequests(j)

WorkersIn == \A j \in Jobs : PlaceInv(j) /\ StatusInv(j)

(* A job that was served when the server died is not, but the others have  *)
(* a worker.                                                               *)
ServedInv ==
    ~ Recovering => \A j \in Jobs :
        store[j].status \in Unserved /\ InJobs(j) => worker[j].pc # "none"

(* What the passes of recovery leave of a job.                             *)
CreationClosed(j) == j \notin lost["journal"] => ~ Unresolved(creation[j])

ApprovalClosed(j, r) ==
    j \notin lost["journal"] => ~ Unresolved(approval[j][r])

NoOrphan(j) == InJobs(j) => store[j].status \notin Unserved

HasOutcome(j) ==
    store[j].status \in Terminal /\ j \notin lost["outcomes"] =>
        outcome[j] \in Terminal

(* The passes of recovery, in their order.                                 *)
CreationPass == {"recover_creation", "recover_created_job", "recover_closing"}
ApprovalPass == {"recover_approval"}
OrphanPass   == {"recover_orphans", "recover_orphan_handle"}
OutcomePass  == {"recover_outcomes", "recover_canceled"}

PassesInv ==
    /\ main.pc \in CreationPass =>
          \A j \in Jobs : j < main.job => CreationClosed(j)
    /\ main.pc \in ApprovalPass \cup OrphanPass \cup OutcomePass =>
          \A j \in Jobs : CreationClosed(j)
    /\ main.pc \in ApprovalPass =>
          \A j \in Jobs, r \in Requests :
             \/ j < main.job
             \/ j = main.job /\ r <= main.request
             => ApprovalClosed(j, r)
    /\ main.pc \in OrphanPass \cup OutcomePass =>
          \A j \in Jobs, r \in Requests : ApprovalClosed(j, r)
    /\ main.pc \in OrphanPass =>
          \A j \in Jobs :
             \/ j < main.job
             \/ j = main.job /\ main.pc = "recover_orphan_handle"
             => NoOrphan(j)
    /\ main.pc \in OutcomePass =>
          \A j \in Jobs : NoOrphan(j)
    /\ main.pc \in OutcomePass =>
          \A j \in Jobs :
             \/ j < main.job
             \/ j = main.job /\ main.pc = "recover_canceled"
             => HasOutcome(j)

(* Recovery serves nothing, and what a pass has closed stays closed.       *)
RecoveryInv ==
    /\ Recovering => \A j \in Jobs : ~ runtime[j] /\ worker[j].pc = "none"
    /\ Recovering => \A r \in Requests : registry[r] = NoEntry
    /\ \A j \in Jobs : outcome[j] = "lost" => j \in lost["outcomes"]
    /\ PassesInv

JobInv ==
    /\ OneClaim
    /\ FreshJobs
    /\ Unpromoted
    /\ GateInv
    /\ StartInv
    /\ WorkersIn
    /\ ServedInv
    /\ RecoveryInv

(* The request in a worker's handler: captured, recorded for its job, and  *)
(* at each write what the writes before it have left.                      *)
HandlesOwn(j) ==
    LET w == worker[j] IN
    /\ w.pc = "spawned" => w.captured = 0
    /\ w.pc \in HandlerSteps => w.request # 0 /\ w.captured = w.request
    /\ w.pc \in HandlerSteps /\ InRequests(j) => psr[w.request].job = j
    /\ /\ w.pc \in HandlerSteps \ {"unparking", "completing", "discarding"}
       /\ InRequests(j)
       => psr[w.request].status = "pending"
    /\ w.pc \in {"unparking", "completing", "discarding"} /\ InRequests(j) =>
          psr[w.request].status \in Answers
    /\ /\ w.pc \in HandlerSteps \ {"parking", "completing", "discarding"}
       /\ InJobs(j)
       => store[j].parked = w.request
    /\ /\ w.pc \in {"registering", "announcing", "waiting", "intending"}
       /\ InJobs(j)
       => store[j].status = "needs_escalation"

HandlersInv == \A j \in Jobs : HandlesOwn(j)

(* What decide() has reserved stays reserved for it.                       *)
DecideInv ==
    /\ main.pc \in {"deciding", "reserved", "intended"} => main.request # 0
    /\ main.pc \in {"reserved", "intended"} =>
          registry[main.request].state = "reserved"

TurnInv ==
    /\ HandlersInv
    /\ DecideInv
    /\ OpenRequestIsParked
    /\ FinalizerFindsAnswer

(* The channel start() waits on, and what the worker still has to say.     *)
Told(j) ==
    LET c == channel[j]
        w == worker[j] IN
    /\ c.state # "closed" /\ w.pc # "none"
    /\ w.pc \in {"waiting", "finished"} => c.state \in Outcomes
    /\ c.state = "empty" => w.pc = "finished"
    /\ c.state = "empty" /\ InRequests(j) => ~ runtime[j]
    /\ c.state = "terminal" =>
          w.pc \in {"interrupted", "finished"} \cup SettleSteps \cup FinalSteps
    /\ c.state \in {"empty", "terminal"} /\ InJobs(j) /\ InRequests(j) =>
          store[j].status \in Terminal
    /\ c.state = "parked" => c.request # 0
    /\ c.state = "parked" /\ InRequests(j) => psr[c.request].job = j

ToldInv == main.pc = "waiting" => Told(main.job)

(* The worker in a handler has a request.                                  *)
RequestsNamed == \A j \in Jobs : worker[j].pc \in HandlerSteps =>
      worker[j].request # 0

(* What a step of a worker leaves as it is, above all every other job.     *)
Frame(j) ==
    /\ worker[j].pc \notin {"none", "finished"}
    /\ main' = main /\ creation' = creation
    /\ LostGrows
    /\ outcome'[j] # outcome[j] =>
          outcome'[j] \in Terminal \/ j \in lost'["outcomes"]
    /\ \A k \in Jobs \ {j} :
          /\ worker'[k] = worker[k] /\ store'[k] = store[k]
          /\ runtime'[k] = runtime[k] /\ channel'[k] = channel[k]
          /\ outcome'[k] = outcome[k]

(* A step of a worker keeps the types and its frame.                       *)
LEMMA WorkerStepIs ==
  ASSUME TypeOK, RequestsNamed, NEW j \in Jobs, PlaceInv(j),
         WorkerStep(j) \/ WriteRaises(j) \/ WriteIsSwallowed(j)
  PROVE  TypeOK' /\ Frame(j)
<1>1. CASE BeginsTurn(j)
  BY <1>1, FilesKept, GoToIs, TransitionIs
    DEF BeginsTurn, At, TypeOK, Frame, LostGrows, WorkerSteps, HandlerSteps,
        SettleSteps, FinalSteps, Active, Terminal, Phases, counters
<1>2. CASE \E kind \in ParkableKinds : ParkableArrives(j, kind)
  <2>1. PICK kind \in ParkableKinds : ParkableArrives(j, kind)
    BY <1>2
  <2> QED
    BY <2>1, ParkableArrivesIs
      DEF ParkableArrives, At, TypeOK, Frame, LostGrows, counters
<1>3. CASE \E kind \in UnknownKinds : UnknownArrives(j, kind)
  <2>1. PICK kind \in UnknownKinds : UnknownArrives(j, kind)
    BY <1>3
  <2> QED
    BY <2>1, UnknownArrivesIs
      DEF UnknownArrives, At, TypeOK, Frame, LostGrows, counters
<1>4. CASE Interrupts(j)
  BY <1>4, FilesKept, InterruptsIs
    DEF Interrupts, At, TypeOK, Frame, LostGrows, WorkerSteps, HandlerSteps,
        SettleSteps, FinalSteps, Active, Terminal, Phases, counters, durable
<1>5. CASE TurnRaises(j)
  BY <1>5, FilesKept, FailsIs
    DEF TurnRaises, At, TypeOK, Frame, LostGrows, WorkerSteps, HandlerSteps,
        SettleSteps, FinalSteps, Active, Terminal, Phases, counters, durable
<1>6. CASE Parks(j)
  <2>1. worker[j].request \in Requests \cup {0}
    BY WorkerTyped
  <2>2. /\ store' \in [Jobs -> JobRecord] /\ LostGrows
        /\ \A k \in Jobs \ {j} : store'[k] = store[k]
    BY <1>6, <2>1, ParkedIs DEF Parks
  <2> QED
    BY <1>6, <2>2, GoToIs
      DEF Parks, At, TypeOK, Frame, LostGrows, WorkerSteps, HandlerSteps,
          counters
<1>7. CASE Escalates(j)
  BY <1>7, FilesKept, PersistsIs
    DEF Escalates, At, TypeOK, Frame, LostGrows, WorkerSteps, HandlerSteps,
        SettleSteps, FinalSteps, Active, Terminal, Phases, counters
<1>8. CASE Registers(j)
  BY <1>8, FilesKept, RegistersIs
    DEF Registers, At, TypeOK, Frame, LostGrows, WorkerSteps, HandlerSteps,
        SettleSteps, FinalSteps, Active, Terminal, Phases, counters, durable
<1>9. CASE AnnouncesPark(j)
  <2>1. worker[j].request \in Requests \cup {0} /\ "parked" \in Outcomes
    BY WorkerTyped DEF Outcomes
  <2>2. /\ channel' \in [Jobs -> Channel]
        /\ \A k \in Jobs \ {j} : channel'[k] = channel[k]
    BY <1>9, <2>1, AnnounceIs DEF AnnouncesPark, TypeOK
  <2> QED
    BY <1>9, <2>2, GoToIs, FilesKept
      DEF AnnouncesPark, At, TypeOK, Frame, LostGrows, WorkerSteps,
          HandlerSteps, durable, counters
<1>10. CASE Wakes(j)
  <2>1. worker[j].request \in Requests
    BY <1>10, WorkerTyped DEF Wakes, At, RequestsNamed, HandlerSteps
  <2> QED
    BY <1>10, <2>1, WakesIs, FilesKept
      DEF Wakes, At, TypeOK, Frame, LostGrows, durable, counters
<1>11. CASE WritesIntent(j)
  BY <1>11, FilesKept, GoToIs, WritesApprovalIs
    DEF WritesIntent, At, TypeOK, Frame, LostGrows, WorkerSteps, HandlerSteps,
        SettleSteps, FinalSteps, Active, Terminal, Phases, counters,
        WritesPhase
<1>12. CASE Resumes(j)
  BY <1>12, FilesKept, GoToIs, TransitionIs
    DEF Resumes, At, TypeOK, Frame, LostGrows, WorkerSteps, HandlerSteps,
        SettleSteps, FinalSteps, Active, Terminal, Phases, counters
<1>13. CASE WritesDispatched(j)
  BY <1>13, FilesKept, GoToIs, WritesApprovalIs
    DEF WritesDispatched, At, TypeOK, Frame, LostGrows, WorkerSteps,
        HandlerSteps, SettleSteps, FinalSteps, Active, Terminal, Phases,
        counters, WritesPhase
<1>14. CASE \E works \in BOOLEAN : Responds(j, works)
  <2>1. PICK works \in BOOLEAN : Responds(j, works)
    BY <1>14
  <2> QED
    BY <2>1, FilesKept, RespondsIs
      DEF Responds, At, TypeOK, Frame, LostGrows, durable, counters
<1>15. CASE RecordsAnswer(j)
  <2>1. worker[j].request \in Requests
    BY <1>15, WorkerTyped DEF RecordsAnswer, At, RequestsNamed, HandlerSteps
  <2> QED
    BY <1>15, <2>1, RecordsAnswerIs, GoToIs
      DEF RecordsAnswer, At, TypeOK, Frame, LostGrows, WorkerSteps,
          HandlerSteps, counters
<1>16. CASE Unparks(j)
  <2>1. 0 \in Requests \cup {0}
    OBVIOUS
  <2>2. /\ store' \in [Jobs -> JobRecord] /\ LostGrows
        /\ \A k \in Jobs \ {j} : store'[k] = store[k]
    BY <1>16, <2>1, ParkedIs DEF Unparks
  <2> QED
    BY <1>16, <2>2, GoToIs
      DEF Unparks, At, TypeOK, Frame, LostGrows, WorkerSteps, HandlerSteps,
          counters
<1>17. CASE WritesCompleted(j)
  BY <1>17, FilesKept, GoToIs, WritesApprovalIs
    DEF WritesCompleted, At, TypeOK, Frame, LostGrows, WorkerSteps,
        HandlerSteps, SettleSteps, FinalSteps, Active, Terminal, Phases,
        counters, WritesPhase
<1>18. CASE Discards(j)
  BY <1>18, FilesKept, DiscardsIs
    DEF Discards, At, TypeOK, Frame, LostGrows, WorkerSteps, HandlerSteps,
        SettleSteps, FinalSteps, Active, Terminal, Phases, counters, durable
<1>19. CASE Settles(j)
  <2>1. worker[j].final \in Terminal
    BY <1>19 DEF Settles, At, PlaceInv, SettleSteps
  <2> QED
    BY <1>19, <2>1, SettlesIs
      DEF Settles, At, TypeOK, Frame, LostGrows, counters
<1>20. CASE SettlesOutcome(j)
  BY <1>20, FilesKept, GoToIs, EmitIs
    DEF SettlesOutcome, At, TypeOK, Frame, LostGrows, WorkerSteps,
        HandlerSteps, SettleSteps, FinalSteps, Active, Terminal, Phases,
        counters
<1>21. CASE SettlesLineage(j)
  <2>1. lineage' \in [Jobs -> Handles] /\ LostGrows
    <3> DEFINE s == IF worker[j].final = "canceled" THEN "completed"
                                                  ELSE "unknown"
    <3>1. s \in Handles /\ PutHandle(j, s)
      BY <1>21 DEF SettlesLineage, Handles
    <3> HIDE DEF s
    <3> QED
      BY <3>1, PutHandleIs
  <2> QED
    BY <1>21, <2>1, AfterSettlingIs
      DEF SettlesLineage, At, TypeOK, Frame, LostGrows, Handles, counters
<1>22. CASE SettlesRuntime(j)
  BY <1>22, FilesKept, GoToIs
    DEF SettlesRuntime, At, TypeOK, Frame, LostGrows, WorkerSteps,
        HandlerSteps, SettleSteps, FinalSteps, Active, Terminal, Phases,
        counters, durable
<1>23. CASE SettlesAnnouncement(j)
  BY <1>23, FilesKept, SettlesAnnouncementIs
    DEF SettlesAnnouncement, At, TypeOK, Frame, LostGrows, WorkerSteps,
        HandlerSteps, SettleSteps, FinalSteps, Active, Terminal, Phases,
        counters, durable
<1>24. CASE \E result \in TurnResults : TurnEnds(j, result)
  <2>1. PICK result \in TurnResults : TurnEnds(j, result)
    BY <1>24
  <2> QED
    BY <2>1, TurnEndsIs DEF TurnEnds, TypeOK, Frame, LostGrows, counters
<1>25. CASE Finalizes(j)
  <2>1. worker[j].final \in Active \cup Terminal
    BY WorkerTyped
  <2>2. /\ store' \in [Jobs -> JobRecord] /\ LostGrows
        /\ worker' \in [Jobs -> Worker]
        /\ \A k \in Jobs \ {j} :
              store'[k] = store[k] /\ worker'[k] = worker[k]
    BY <1>25, <2>1, PersistsIs DEF Finalizes, WorkerSteps, FinalSteps
  <2> QED
    BY <1>25, <2>2 DEF Finalizes, At, TypeOK, Frame, LostGrows, counters
<1>26. CASE FinalizesEscalation(j)
  BY <1>26, FilesKept, AfterFinalizingIs
    DEF FinalizesEscalation, At, TypeOK, Frame, LostGrows, WorkerSteps,
        HandlerSteps, SettleSteps, FinalSteps, Active, Terminal, Phases,
        counters, durable
<1>27. CASE FinalizesLineage(j)
  <2>1. lineage' \in [Jobs -> Handles] /\ LostGrows
    <3> DEFINE s == IF worker[j].unknown THEN "unknown" ELSE "completed"
    <3>1. s \in Handles /\ PutHandle(j, s)
      BY <1>27 DEF FinalizesLineage, Handles
    <3> HIDE DEF s
    <3> QED
      BY <3>1, PutHandleIs
  <2> QED
    BY <1>27, <2>1, GoToIs
      DEF FinalizesLineage, At, TypeOK, Frame, LostGrows, Handles, WorkerSteps,
          FinalSteps, counters
<1>28. CASE FinalizesRuntime(j)
  BY <1>28, FilesKept, GoToIs
    DEF FinalizesRuntime, At, TypeOK, Frame, LostGrows, WorkerSteps,
        HandlerSteps, SettleSteps, FinalSteps, Active, Terminal, Phases,
        counters, durable
<1>29. CASE FinalizesOutcome(j)
  BY <1>29, FilesKept, EmitIs, AfterFinalizingIs
    DEF FinalizesOutcome, At, TypeOK, Frame, LostGrows, WorkerSteps,
        HandlerSteps, SettleSteps, FinalSteps, Active, Terminal, Phases,
        counters
<1>30. CASE WriteRaises(j)
  BY <1>30, WriteRaisesIs
    DEF WriteRaises, TypeOK, Frame, LostGrows, RaisingSteps, HandlerSteps
<1>31. CASE WriteIsSwallowed(j)
  BY <1>31, WriteIsSwallowedIs DEF WriteIsSwallowed, TypeOK, Frame, LostGrows
<1> QED
  BY <1>1, <1>2, <1>3, <1>4, <1>5, <1>6, <1>7, <1>8, <1>9, <1>10, <1>11, <1>12,
     <1>13, <1>14, <1>15, <1>16, <1>17, <1>18, <1>19, <1>20, <1>21, <1>22,
     <1>23, <1>24, <1>25, <1>26, <1>27, <1>28, <1>29, <1>30, <1>31
    DEF WorkerStep

(* What was missing from a store is missing still.                         *)
LEMMA MissingStays ==
  ASSUME LostGrows, NEW j \in Jobs
  PROVE  /\ InJobs(j)' => InJobs(j)
         /\ InRequests(j)' => InRequests(j)
         /\ j \notin lost'["journal"] => j \notin lost["journal"]
         /\ j \notin lost'["outcomes"] => j \notin lost["outcomes"]
  BY FilesAre DEF LostGrows, InJobs, InRequests

(* A worker's step keeps what its place says of the job's runtime.         *)
LEMMA OwnPlace ==
  ASSUME TypeOK, RequestsNamed, FinalizerFindsAnswer, NEW j \in Jobs,
         PlaceInv(j),
         WorkerStep(j) \/ WriteRaises(j) \/ WriteIsSwallowed(j)
  PROVE  PlaceInv(j)' /\ (runtime'[j] => runtime[j])
<1>0. InRequests(j)' => InRequests(j)
  BY WorkerStepIs, MissingStays DEF Frame
<1>1. CASE BeginsTurn(j)
  BY <1>1, <1>0, GoToIs
    DEF BeginsTurn, At, PlaceInv, RuntimeSteps, WorkerSteps, HandlerSteps,
        SettleSteps, FinalSteps
<1>2. CASE \E kind \in ParkableKinds : ParkableArrives(j, kind)
  <2>1. PICK kind \in ParkableKinds : ParkableArrives(j, kind)
    BY <1>2
  <2> QED
    BY <2>1, ParkableArrivesIs
      DEF ParkableArrives, At, PlaceInv, RuntimeSteps, HandlerSteps,
          SettleSteps
<1>3. CASE \E kind \in UnknownKinds : UnknownArrives(j, kind)
  <2>1. PICK kind \in UnknownKinds : UnknownArrives(j, kind)
    BY <1>3
  <2> QED
    BY <2>1, UnknownArrivesIs
      DEF UnknownArrives, At, PlaceInv, RuntimeSteps, HandlerSteps, SettleSteps
<1>4. CASE Interrupts(j)
  BY <1>4, <1>0, InterruptsIs
    DEF Interrupts, At, PlaceInv, RuntimeSteps, WorkerSteps, HandlerSteps,
        SettleSteps, FinalSteps, durable, Terminal
<1>5. CASE TurnRaises(j)
  BY <1>5, <1>0, FailsIs
    DEF TurnRaises, At, PlaceInv, RuntimeSteps, WorkerSteps, HandlerSteps,
        SettleSteps, FinalSteps, durable, Terminal
<1>6. CASE Parks(j)
  BY <1>6, <1>0, GoToIs
    DEF Parks, At, PlaceInv, RuntimeSteps, WorkerSteps, HandlerSteps,
        SettleSteps, FinalSteps
<1>7. CASE Escalates(j)
  <2>1. Persists(j, "needs_escalation", "registering")
    BY <1>7 DEF Escalates
  <2>2. /\ "needs_escalation" \in Active \cup Terminal
        /\ "registering" \in WorkerSteps
    BY DEF Active, WorkerSteps, HandlerSteps
  <2>3. \/ /\ worker'[j].pc = "settling"
           /\ worker'[j].final = "unknown"
           /\ worker'[j].announce = "failed"
        \/ /\ worker'[j].pc = "registering"
           /\ worker'[j].announce = worker[j].announce
    BY <2>1, <2>2, PersistsIs
  <2> QED
    BY <1>7, <2>3
      DEF Escalates, At, PlaceInv, RuntimeSteps, HandlerSteps, SettleSteps,
          Terminal
<1>8. CASE Registers(j)
  BY <1>8, <1>0, RegistersIs
    DEF Registers, At, PlaceInv, RuntimeSteps, WorkerSteps, HandlerSteps,
        SettleSteps, FinalSteps, durable, Terminal
<1>9. CASE AnnouncesPark(j)
  BY <1>9, <1>0, GoToIs
    DEF AnnouncesPark, At, PlaceInv, RuntimeSteps, WorkerSteps, HandlerSteps,
        SettleSteps, FinalSteps, durable
<1>10. CASE Wakes(j)
  <2>1. worker[j].request \in Requests
    BY <1>10, WorkerTyped DEF Wakes, At, RequestsNamed, HandlerSteps
  <2> QED
    BY <1>10, <2>1, WakesIs
      DEF Wakes, At, PlaceInv, RuntimeSteps, HandlerSteps, SettleSteps, durable
<1>11. CASE WritesIntent(j)
  BY <1>11, <1>0, GoToIs
    DEF WritesIntent, At, PlaceInv, RuntimeSteps, WorkerSteps, HandlerSteps,
        SettleSteps, FinalSteps
<1>12. CASE Resumes(j)
  BY <1>12, <1>0, GoToIs
    DEF Resumes, At, PlaceInv, RuntimeSteps, WorkerSteps, HandlerSteps,
        SettleSteps, FinalSteps
<1>13. CASE WritesDispatched(j)
  BY <1>13, <1>0, GoToIs
    DEF WritesDispatched, At, PlaceInv, RuntimeSteps, WorkerSteps,
        HandlerSteps, SettleSteps, FinalSteps
<1>14. CASE \E works \in BOOLEAN : Responds(j, works)
  <2>1. PICK works \in BOOLEAN : Responds(j, works)
    BY <1>14
  <2> QED
    BY <2>1, RespondsIs
      DEF Responds, At, PlaceInv, RuntimeSteps, HandlerSteps, SettleSteps,
          durable
<1>15. CASE RecordsAnswer(j)
  BY <1>15, <1>0, GoToIs
    DEF RecordsAnswer, At, PlaceInv, RuntimeSteps, WorkerSteps, HandlerSteps,
        SettleSteps, FinalSteps
<1>16. CASE Unparks(j)
  BY <1>16, <1>0, GoToIs
    DEF Unparks, At, PlaceInv, RuntimeSteps, WorkerSteps, HandlerSteps,
        SettleSteps, FinalSteps
<1>17. CASE WritesCompleted(j)
  BY <1>17, <1>0, GoToIs
    DEF WritesCompleted, At, PlaceInv, RuntimeSteps, WorkerSteps, HandlerSteps,
        SettleSteps, FinalSteps
<1>18. CASE Discards(j)
  BY <1>18, <1>0, DiscardsIs
    DEF Discards, At, PlaceInv, RuntimeSteps, WorkerSteps, HandlerSteps,
        SettleSteps, FinalSteps, durable
<1>19. CASE Settles(j)
  <2>1. worker[j].final \in Terminal
    BY <1>19 DEF Settles, At, PlaceInv, SettleSteps
  <2> QED
    BY <1>19, <2>1, SettlesIs
      DEF Settles, At, PlaceInv, RuntimeSteps, HandlerSteps, SettleSteps,
          Terminal
<1>20. CASE SettlesOutcome(j)
  BY <1>20, <1>0, GoToIs
    DEF SettlesOutcome, At, PlaceInv, RuntimeSteps, WorkerSteps, HandlerSteps,
        SettleSteps, FinalSteps
<1>21. CASE SettlesLineage(j)
  BY <1>21, <1>0, AfterSettlingIs
    DEF SettlesLineage, At, PlaceInv, RuntimeSteps, WorkerSteps, HandlerSteps,
        SettleSteps, FinalSteps
<1>22. CASE SettlesRuntime(j)
  BY <1>22, <1>0, GoToIs
    DEF SettlesRuntime, At, PlaceInv, RuntimeSteps, WorkerSteps, HandlerSteps,
        SettleSteps, FinalSteps, durable, TypeOK
<1>23. CASE SettlesAnnouncement(j)
  BY <1>23, <1>0, SettlesAnnouncementIs
    DEF SettlesAnnouncement, At, PlaceInv, RuntimeSteps, WorkerSteps,
        HandlerSteps, SettleSteps, FinalSteps, durable
<1>24. CASE \E result \in TurnResults : TurnEnds(j, result)
  <2>1. PICK result \in TurnResults : TurnEnds(j, result)
    BY <1>24
  <2>2. worker[j].pc \in {"turn", "interrupted"}
    BY <2>1 DEF TurnEnds
  <2>3. worker'[j].final = "needs_escalation" =>
            /\ worker[j].captured \in Requests
            /\ psr[worker[j].captured].status \notin Answers
            /\ ~ worker[j].unknown
    BY <2>1, TurnEndsIs
  <2>4. worker[j].pc = "turn" /\ InRequests(j) /\ worker[j].captured # 0 =>
            psr[worker[j].captured].status \in Answers
    BY DEF FinalizerFindsAnswer, At, InRequests, Answers
  <2>5. worker[j].pc = "interrupted" => worker[j].unknown
    BY DEF PlaceInv
  <2>6. worker'[j].final = "needs_escalation" => ~ InRequests(j)'
    BY <1>0, <2>2, <2>3, <2>4, <2>5 DEF Requests
  <2> QED
    BY <2>1, <2>2, <2>6, TurnEndsIs
      DEF TurnEnds, PlaceInv, RuntimeSteps, HandlerSteps, SettleSteps
<1>25. CASE Finalizes(j)
  <2>1. worker[j].final \in Active \cup Terminal
    BY WorkerTyped
  <2> QED
    BY <1>25, <1>0, <2>1, PersistsIs
      DEF Finalizes, At, PlaceInv, RuntimeSteps, HandlerSteps, SettleSteps,
          FinalSteps, WorkerSteps, Terminal
<1>26. CASE FinalizesEscalation(j)
  BY <1>26, <1>0, AfterFinalizingIs
    DEF FinalizesEscalation, At, PlaceInv, RuntimeSteps, WorkerSteps,
        HandlerSteps, SettleSteps, FinalSteps, durable
<1>27. CASE FinalizesLineage(j)
  BY <1>27, <1>0, GoToIs
    DEF FinalizesLineage, At, PlaceInv, RuntimeSteps, WorkerSteps,
        HandlerSteps, SettleSteps, FinalSteps
<1>28. CASE FinalizesRuntime(j)
  BY <1>28, <1>0, GoToIs
    DEF FinalizesRuntime, At, PlaceInv, RuntimeSteps, WorkerSteps,
        HandlerSteps, SettleSteps, FinalSteps, durable, TypeOK
<1>29. CASE FinalizesOutcome(j)
  BY <1>29, <1>0, EmitIs, AfterFinalizingIs
    DEF FinalizesOutcome, At, PlaceInv, RuntimeSteps, WorkerSteps,
        HandlerSteps, SettleSteps, FinalSteps
<1>30. CASE WriteRaises(j)
  BY <1>30, <1>0, WriteRaisesIs
    DEF WriteRaises, At, PlaceInv, RuntimeSteps, WorkerSteps, HandlerSteps,
        SettleSteps, FinalSteps, RaisingSteps
<1>31. CASE WriteIsSwallowed(j)
  BY <1>31, <1>0, WriteIsSwallowedIs
    DEF WriteIsSwallowed, At, PlaceInv, RuntimeSteps, WorkerSteps,
        HandlerSteps, SettleSteps, FinalSteps
<1> QED
  BY <1>1, <1>2, <1>3, <1>4, <1>5, <1>6, <1>7, <1>8, <1>9, <1>10, <1>11, <1>12,
     <1>13, <1>14, <1>15, <1>16, <1>17, <1>18, <1>19, <1>20, <1>21, <1>22,
     <1>23, <1>24, <1>25, <1>26, <1>27, <1>28, <1>29, <1>30, <1>31
    DEF WorkerStep

(* ... and what it says of the job's status: it makes no job new or        *)
(* queued.                                                                 *)
LEMMA OwnStatus ==
  ASSUME TypeOK, RequestsNamed, NEW j \in Jobs, PlaceInv(j), StatusInv(j),
         WorkerStep(j) \/ WriteRaises(j) \/ WriteIsSwallowed(j)
  PROVE  /\ StatusInv(j)'
         /\ worker'[j].pc # "none"
         /\ store'[j].status \in {"absent", "queued"} =>
               /\ store'[j].status = store[j].status
               /\ store'[j].promotion = store[j].promotion
<1>0. /\ InJobs(j)' => InJobs(j)
      /\ InRequests(j)' => InRequests(j)
      /\ store[j].status \in Active \cup Terminal \cup {"absent"}
  BY WorkerStepIs, MissingStays DEF Frame, TypeOK, JobRecord
<1>1. CASE BeginsTurn(j)
  <2>1. Transition(j, "running") /\ "running" \in Active \cup Terminal
    BY <1>1 DEF BeginsTurn, Active
  <2>2. /\ runtime'[j] = runtime[j] /\ runtime[j] /\ At(j, "spawned")
        /\ worker'[j].pc = "turn"
    BY <1>1, GoToIs DEF BeginsTurn, PlaceInv, RuntimeSteps, At, WorkerSteps
  <2> QED
    BY <1>0, <2>1, <2>2, TransitionIs
      DEF At, PlaceInv, StatusInv, SettledSteps, Unserved, InJobs, Terminal,
          HandlerSteps
<1>2. CASE \E kind \in ParkableKinds : ParkableArrives(j, kind)
  <2>1. PICK kind \in ParkableKinds : ParkableArrives(j, kind)
    BY <1>2
  <2> QED
    BY <1>0, <2>1, ParkableArrivesIs
      DEF ParkableArrives, At, PlaceInv, StatusInv, SettledSteps, Unserved,
          InJobs, Terminal, HandlerSteps
<1>3. CASE \E kind \in UnknownKinds : UnknownArrives(j, kind)
  <2>1. PICK kind \in UnknownKinds : UnknownArrives(j, kind)
    BY <1>3
  <2> QED
    BY <1>0, <2>1, UnknownArrivesIs
      DEF UnknownArrives, At, PlaceInv, StatusInv, SettledSteps, Unserved,
          InJobs, Terminal, HandlerSteps
<1>4. CASE Interrupts(j)
  BY <1>4, <1>0, InterruptsIs
    DEF Interrupts, At, PlaceInv, StatusInv, SettledSteps, Unserved, InJobs,
        Terminal, WorkerSteps, HandlerSteps, SettleSteps, FinalSteps, durable
<1>5. CASE TurnRaises(j)
  BY <1>5, <1>0, FailsIs
    DEF TurnRaises, At, PlaceInv, StatusInv, SettledSteps, Unserved, InJobs,
        Terminal, WorkerSteps, HandlerSteps, SettleSteps, FinalSteps, durable
<1>6. CASE Parks(j)
  <2>1. worker[j].request \in Requests \cup {0}
    BY WorkerTyped
  <2>2. store'[j].status = store[j].status
            /\ store'[j].promotion = store[j].promotion
    BY <1>6, <2>1, ParkedIs DEF Parks
  <2> QED
    BY <1>0, <1>6, <2>2, GoToIs
      DEF Parks, At, PlaceInv, StatusInv, SettledSteps, Unserved, InJobs,
          Terminal, HandlerSteps, WorkerSteps
<1>7. CASE Escalates(j)
  <2>1. Persists(j, "needs_escalation", "registering")
    BY <1>7 DEF Escalates
  <2>2. /\ "needs_escalation" \in Active \cup Terminal
        /\ "registering" \in WorkerSteps
    BY DEF Active, WorkerSteps, HandlerSteps
  <2>3. runtime'[j] = runtime[j] /\ runtime[j] /\ At(j, "escalating")
    BY <1>7 DEF Escalates, PlaceInv, RuntimeSteps, HandlerSteps, At
  <2> QED
    BY <1>0, <2>1, <2>2, <2>3, PersistsIs
      DEF At, PlaceInv, StatusInv, SettledSteps, Unserved, InJobs, Terminal,
          HandlerSteps
<1>8. CASE Registers(j)
  BY <1>8, <1>0, RegistersIs
    DEF Registers, At, PlaceInv, StatusInv, SettledSteps, Unserved, InJobs,
        Terminal, WorkerSteps, HandlerSteps, SettleSteps, FinalSteps, durable
<1>9. CASE AnnouncesPark(j)
  BY <1>9, <1>0, GoToIs
    DEF AnnouncesPark, At, PlaceInv, StatusInv, SettledSteps, Unserved, InJobs,
        Terminal, WorkerSteps, HandlerSteps, SettleSteps, FinalSteps, durable
<1>10. CASE Wakes(j)
  <2>1. worker[j].request \in Requests
    BY <1>10, WorkerTyped DEF Wakes, At, RequestsNamed, HandlerSteps
  <2> QED
    BY <1>0, <1>10, <2>1, WakesIs
      DEF Wakes, At, PlaceInv, StatusInv, SettledSteps, Unserved, InJobs,
          Terminal, HandlerSteps, durable
<1>11. CASE WritesIntent(j)
  BY <1>11, <1>0, GoToIs
    DEF WritesIntent, At, PlaceInv, StatusInv, SettledSteps, Unserved, InJobs,
        Terminal, WorkerSteps, HandlerSteps, SettleSteps, FinalSteps
<1>12. CASE Resumes(j)
  BY <1>12, <1>0, GoToIs, TransitionIs
    DEF Resumes, At, PlaceInv, StatusInv, SettledSteps, Unserved, InJobs,
        Terminal, WorkerSteps, HandlerSteps, SettleSteps, FinalSteps,
        RuntimeSteps, Active
<1>13. CASE WritesDispatched(j)
  BY <1>13, <1>0, GoToIs
    DEF WritesDispatched, At, PlaceInv, StatusInv, SettledSteps, Unserved,
        InJobs, Terminal, WorkerSteps, HandlerSteps, SettleSteps, FinalSteps
<1>14. CASE \E works \in BOOLEAN : Responds(j, works)
  <2>1. PICK works \in BOOLEAN : Responds(j, works)
    BY <1>14
  <2> QED
    BY <1>0, <2>1, RespondsIs
      DEF Responds, At, PlaceInv, StatusInv, SettledSteps, Unserved, InJobs,
          Terminal, HandlerSteps, durable
<1>15. CASE RecordsAnswer(j)
  BY <1>15, <1>0, GoToIs
    DEF RecordsAnswer, At, PlaceInv, StatusInv, SettledSteps, Unserved, InJobs,
        Terminal, WorkerSteps, HandlerSteps, SettleSteps, FinalSteps
<1>16. CASE Unparks(j)
  <2>1. 0 \in Requests \cup {0}
    OBVIOUS
  <2>2. store'[j].status = store[j].status
            /\ store'[j].promotion = store[j].promotion
    BY <1>16, <2>1, ParkedIs DEF Unparks
  <2> QED
    BY <1>0, <1>16, <2>2, GoToIs
      DEF Unparks, At, PlaceInv, StatusInv, SettledSteps, Unserved, InJobs,
          Terminal, HandlerSteps, WorkerSteps
<1>17. CASE WritesCompleted(j)
  BY <1>17, <1>0, GoToIs
    DEF WritesCompleted, At, PlaceInv, StatusInv, SettledSteps, Unserved,
        InJobs, Terminal, WorkerSteps, HandlerSteps, SettleSteps, FinalSteps
<1>18. CASE Discards(j)
  BY <1>18, <1>0, DiscardsIs
    DEF Discards, At, PlaceInv, StatusInv, SettledSteps, Unserved, InJobs,
        Terminal, WorkerSteps, HandlerSteps, SettleSteps, FinalSteps, durable
<1>19. CASE Settles(j)
  <2>1. worker[j].final \in Terminal
    BY <1>19 DEF Settles, At, PlaceInv, SettleSteps
  <2> QED
    BY <1>0, <1>19, <2>1, SettlesIs
      DEF Settles, At, PlaceInv, StatusInv, SettledSteps, Unserved, InJobs,
          Terminal, HandlerSteps
<1>20. CASE SettlesOutcome(j)
  BY <1>20, <1>0, GoToIs
    DEF SettlesOutcome, At, PlaceInv, StatusInv, SettledSteps, Unserved,
        InJobs, Terminal, WorkerSteps, HandlerSteps, SettleSteps, FinalSteps
<1>21. CASE SettlesLineage(j)
  BY <1>21, <1>0, AfterSettlingIs
    DEF SettlesLineage, At, PlaceInv, StatusInv, SettledSteps, Unserved,
        InJobs, Terminal, WorkerSteps, HandlerSteps, SettleSteps, FinalSteps
<1>22. CASE SettlesRuntime(j)
  BY <1>22, <1>0, GoToIs
    DEF SettlesRuntime, At, PlaceInv, StatusInv, SettledSteps, Unserved,
        InJobs, Terminal, WorkerSteps, HandlerSteps, SettleSteps, FinalSteps,
        durable, TypeOK
<1>23. CASE SettlesAnnouncement(j)
  BY <1>23, <1>0, SettlesAnnouncementIs
    DEF SettlesAnnouncement, At, PlaceInv, StatusInv, SettledSteps, Unserved,
        InJobs, Terminal, WorkerSteps, HandlerSteps, SettleSteps, FinalSteps,
        durable
<1>24. CASE \E result \in TurnResults : TurnEnds(j, result)
  <2>1. PICK result \in TurnResults : TurnEnds(j, result)
    BY <1>24
  <2>2. worker[j].pc \in {"turn", "interrupted"}
    BY <2>1 DEF TurnEnds
  <2> QED
    BY <1>0, <2>1, <2>2, TurnEndsIs
      DEF TurnEnds, At, PlaceInv, StatusInv, SettledSteps, Unserved, InJobs,
          Terminal, HandlerSteps
<1>25. CASE Finalizes(j)
  <2>1. worker[j].final \in Active \cup Terminal
    BY WorkerTyped
  <2>2. worker[j].final \in Terminal \cup {"needs_escalation"}
    BY WorkerTyped
  <2>3. runtime'[j] = runtime[j] /\ runtime[j] /\ At(j, "finalizing")
    BY <1>25 DEF Finalizes, PlaceInv, RuntimeSteps, At
  <2>4. CASE worker[j].final = "needs_escalation"
    <3>1. /\ Persists(j, "needs_escalation", "final_escalation")
          /\ "final_escalation" \in WorkerSteps
      BY <1>25, <2>4 DEF Finalizes, WorkerSteps, FinalSteps
    <3> QED
      BY <1>0, <2>1, <2>3, <2>4, <3>1, PersistsIs
        DEF At, PlaceInv, StatusInv, SettledSteps, Unserved, InJobs, Terminal,
            HandlerSteps
  <2>5. CASE worker[j].final \in Terminal
    <3>1. /\ Persists(j, worker[j].final, "final_lineage")
          /\ "final_lineage" \in WorkerSteps
      BY <1>25, <2>5 DEF Finalizes, WorkerSteps, FinalSteps, Terminal
    <3>2. /\ store'[j] = store[j] \/ store'[j].status \in Terminal
          /\ \/ store[j].status = "absent" /\ worker'[j].pc = "settling"
             \/ /\ InJobs(j)' => store'[j].status \in Terminal
                /\ worker'[j].pc = "final_lineage"
      BY <2>1, <2>5, <3>1, PersistsIs DEF InJobs
    <3> QED
      BY <1>0, <2>3, <3>2
        DEF At, PlaceInv, StatusInv, SettledSteps, Unserved, Terminal
  <2> QED
    BY <2>2, <2>4, <2>5
<1>26. CASE FinalizesEscalation(j)
  BY <1>26, <1>0, AfterFinalizingIs
    DEF FinalizesEscalation, At, PlaceInv, StatusInv, SettledSteps, Unserved,
        InJobs, Terminal, InRequests, WorkerSteps, HandlerSteps, SettleSteps,
        FinalSteps, durable
<1>27. CASE FinalizesLineage(j)
  BY <1>27, <1>0, GoToIs
    DEF FinalizesLineage, At, PlaceInv, StatusInv, SettledSteps, Unserved,
        InJobs, Terminal, WorkerSteps, HandlerSteps, SettleSteps, FinalSteps
<1>28. CASE FinalizesRuntime(j)
  BY <1>28, <1>0, GoToIs
    DEF FinalizesRuntime, At, PlaceInv, StatusInv, SettledSteps, Unserved,
        InJobs, Terminal, WorkerSteps, HandlerSteps, SettleSteps, FinalSteps,
        durable, TypeOK
<1>29. CASE FinalizesOutcome(j)
  BY <1>29, <1>0, AfterFinalizingIs
    DEF FinalizesOutcome, At, PlaceInv, StatusInv, SettledSteps, Unserved,
        InJobs, Terminal, WorkerSteps, HandlerSteps, SettleSteps, FinalSteps
<1>30. CASE WriteRaises(j)
  BY <1>30, <1>0, WriteRaisesIs
    DEF WriteRaises, At, PlaceInv, StatusInv, SettledSteps, Unserved, InJobs,
        Terminal, WorkerSteps, HandlerSteps, SettleSteps, FinalSteps,
        RaisingSteps
<1>31. CASE WriteIsSwallowed(j)
  BY <1>31, <1>0, WriteIsSwallowedIs
    DEF WriteIsSwallowed, At, PlaceInv, StatusInv, SettledSteps, Unserved,
        InJobs, Terminal, WorkerSteps, HandlerSteps, SettleSteps, FinalSteps
<1> QED
  BY <1>1, <1>2, <1>3, <1>4, <1>5, <1>6, <1>7, <1>8, <1>9, <1>10, <1>11, <1>12,
     <1>13, <1>14, <1>15, <1>16, <1>17, <1>18, <1>19, <1>20, <1>21, <1>22,
     <1>23, <1>24, <1>25, <1>26, <1>27, <1>28, <1>29, <1>30, <1>31
    DEF WorkerStep

LEMMA SameRecovering ==
  ASSUME main' = main
  PROVE  Recovering' = Recovering /\ \A p : Busy(p)' = Busy(p)
  BY DEF Recovering, Busy

(* What a pass of recovery goes by.                                        *)
LEMMA NoPass ==
  ASSUME main'.pc \notin CreationPass \cup ApprovalPass \cup OrphanPass
                            \cup OutcomePass
  PROVE  PassesInv'
  BY DEF PassesInv, OrphanPass, OutcomePass

LEMMA NotRecovering ==
  ~ Recovering <=> main.pc \notin CreationPass \cup ApprovalPass
                                     \cup OrphanPass \cup OutcomePass
  BY DEF Recovering, CreationPass, ApprovalPass, OrphanPass, OutcomePass

LEMMA RecoveryIsOver ==
  ASSUME ~ Recovering', \A j \in Jobs : outcome'[j] = "lost" =>
                                          j \in lost'["outcomes"]
  PROVE  RecoveryInv'
<1>1. main'.pc \notin CreationPass \cup ApprovalPass \cup OrphanPass
                         \cup OutcomePass
  BY DEF Recovering, CreationPass, ApprovalPass, OrphanPass, OutcomePass
<1> QED
  BY <1>1, NoPass DEF RecoveryInv

(* A worker's step keeps the invariant of the jobs.                        *)
LEMMA WorkerKeepsJobs ==
  ASSUME TypeOK, RequestsNamed, FinalizerFindsAnswer, JobInv, NEW j \in Jobs,
         WorkerStep(j) \/ WriteRaises(j) \/ WriteIsSwallowed(j)
  PROVE  JobInv'
<1>3. PlaceInv(j) /\ StatusInv(j)
  BY DEF JobInv, WorkersIn
<1>1. Frame(j)
  BY <1>3, WorkerStepIs
<1>2. ~ Recovering /\ ~ Recovering'
  BY <1>1, SameRecovering DEF JobInv, RecoveryInv, Frame
<1>4. /\ PlaceInv(j)' /\ StatusInv(j)'
      /\ worker'[j].pc # "none"
      /\ runtime'[j] => runtime[j]
      /\ store'[j].status \in {"absent", "queued"} =>
            /\ store'[j].status = store[j].status
            /\ store'[j].promotion = store[j].promotion
  BY <1>3, OwnPlace, OwnStatus
<1>5. \A k \in Jobs : k # j =>
            /\ worker'[k] = worker[k] /\ store'[k] = store[k]
            /\ runtime'[k] = runtime[k]
  BY <1>1 DEF Frame
<1>6. /\ main' = main
      /\ creation' = creation
      /\ worker[j].pc \notin {"none", "finished"}
  BY <1>1 DEF Frame
<1>m. \A k \in Jobs : /\ InJobs(k)' => InJobs(k)
                      /\ InRequests(k)' => InRequests(k)
                      /\ k \in lost["outcomes"] => k \in lost'["outcomes"]
  BY <1>1, MissingStays DEF Frame
<1>s. store'[j].status \in Unserved /\ InJobs(j)' => runtime[j]
  BY <1>4 DEF StatusInv
<1>7. OneClaim'
  <2>1. \A k \in Jobs : Claimed(k)' => Claimed(k)
    <3> TAKE k \in Jobs
    <3>1. CASE k = j
      BY <3>1, <1>2, <1>4, <1>6, <1>s DEF Claimed, Unserved
    <3>2. CASE k # j
      BY <3>2, <1>2, <1>5, <1>6, <1>m DEF Claimed
    <3> QED
      BY <3>1, <3>2
  <2> QED
    BY <2>1 DEF JobInv, OneClaim
<1>8. FreshJobs'
  BY <1>4, <1>5, <1>6 DEF JobInv, FreshJobs, NotStarted
<1>9. Unpromoted'
  BY <1>4, <1>5 DEF JobInv, Unpromoted
<1>10. GateInv'
  BY <1>4, <1>5, <1>6, <1>m, <1>s DEF JobInv, GateInv
<1>11. StartInv'
  <2>1. main.job \in Jobs
    BY DEF TypeOK, Main
  <2> QED
    BY <1>4, <1>5, <1>6, <1>m, <2>1 DEF JobInv, StartInv, StartSteps
<1>12. WorkersIn'
  <2>1. ASSUME NEW k \in Jobs, k # j
        PROVE  PlaceInv(k)' /\ StatusInv(k)'
    <3>1. PlaceInv(k) /\ StatusInv(k)
      BY DEF JobInv, WorkersIn
    <3>2. PlaceInv(k)'
      BY <2>1, <3>1, <1>5, <1>m DEF PlaceInv
    <3>3. StatusInv(k)'
      BY <2>1, <3>1, <1>5, <1>m DEF StatusInv
    <3> QED
      BY <3>2, <3>3
  <2> QED
    BY <1>4, <2>1 DEF WorkersIn
<1>14. ServedInv'
  BY <1>2, <1>4, <1>5, <1>m DEF JobInv, ServedInv
<1>13. RecoveryInv'
  <2>1. \A k \in Jobs : outcome'[k] = "lost" => k \in lost'["outcomes"]
    <3> TAKE k \in Jobs
    <3>1. outcome[k] = "lost" => k \in lost["outcomes"]
      BY DEF JobInv, RecoveryInv
    <3>2. CASE outcome'[k] = outcome[k]
      BY <3>1, <3>2, <1>m
    <3>3. CASE outcome'[k] # outcome[k]
      BY <3>3, <1>1 DEF Frame, Terminal
    <3> QED
      BY <3>2, <3>3
  <2> QED
    BY <1>2, <2>1, RecoveryIsOver
<1> QED
  BY <1>7, <1>8, <1>9, <1>10, <1>11, <1>12, <1>14, <1>13 DEF JobInv

----------------------------------------------------------------------------
(* The steps of the main thread.                                           *)

LEMMA MainTyped ==
  ASSUME TypeOK
  PROVE  /\ main \in Main /\ main.job \in Jobs
         /\ main.request \in Requests \cup {0}
  BY DEF TypeOK, Main

LEMMA BeginIs ==
  ASSUME NEW p \in MainSteps, NEW j \in Jobs,
         main' = [MainIdle EXCEPT !.pc = p, !.job = j]
  PROVE  main' \in Main /\ main'.pc = p /\ main'.job = j /\ main'.request = 0
  BY JobAssumption DEF MainIdle, Main, Jobs

LEMMA ValidatesIs ==
  ASSUME NEW j \in Jobs, NEW r \in Requests, Validates(j, r)
  PROVE  /\ main' \in Main
         /\ main'.pc = "deciding" /\ main'.job = j /\ main'.request = r
<1>1. main' = [MainIdle EXCEPT !.pc = "deciding", !.job = j, !.request = r]
  BY DEF Validates
<1> QED
  BY <1>1 DEF MainIdle, Main, MainSteps

LEMMA CreatesJobIs ==
  ASSUME TypeOK, CreatesJob
  PROVE  /\ store' \in [Jobs -> JobRecord]
         /\ store'[main.job] = store[main.job]
               \/ store'[main.job].status = "queued"
         /\ store'[main.job].promotion = store[main.job].promotion
         /\ store'[main.job].parked = store[main.job].parked
         /\ InJobs(main.job)' => store'[main.job].status = "queued"
         /\ \A k \in Jobs \ {main.job} : store'[k] = store[k]
         /\ LostGrows
<1> DEFINE record == [store[main.job] EXCEPT !.status = "queued"]
<1>1. main.job \in Jobs /\ store \in [Jobs -> JobRecord]
  BY MainTyped DEF TypeOK
<1>2. LostGrows /\ ("jobs" \in torn => main.job \in lost'["jobs"])
  BY <1>1, AppendsIs, FilesAre DEF CreatesJob
<1>3. /\ record \in JobRecord /\ record.status = "queued"
      /\ record.promotion = store[main.job].promotion
      /\ record.parked = store[main.job].parked
  BY <1>1 DEF JobRecord, Active
<1>4. store' = IF "jobs" \in torn
                 THEN store ELSE [store EXCEPT ![main.job] = record]
  BY <1>1 DEF CreatesJob
<1>5. main'.job = main.job
  BY MainTyped, ContinueIs DEF CreatesJob, MainSteps
<1> HIDE DEF record
<1> QED
  BY <1>1, <1>2, <1>3, <1>4, <1>5 DEF InJobs

LEMMA CreatesHandleIs ==
  ASSUME TypeOK, CreatesHandle
  PROVE  lineage' \in [Jobs -> Handles] /\ LostGrows
<1>1. main.job \in Jobs
  BY MainTyped
<1>2. LostGrows
  BY <1>1, AppendsIs, FilesAre DEF CreatesHandle
<1> QED
  BY <1>1, <1>2 DEF CreatesHandle, TypeOK, Handles

(* After a raising write of start() comes the cleaning, if anything of the *)
(* job is stored.                                                          *)
LEMMA CleaningJobIs ==
  ASSUME TypeOK, main' = CleaningJob
  PROVE  /\ main' \in Main
         /\ \/ main'.pc = "idle"
            \/ /\ main'.pc = "cleaning_job" /\ main'.job = main.job
               /\ store[main.job].status # "absent"
  BY MainTyped, MainIdleIs DEF CleaningJob, Main, MainSteps

LEMMA StartRaisesIs ==
  ASSUME TypeOK, StartRaises
  PROVE  /\ main.pc \in {"bootstrapped", "lineage", "queueing", "completing"}
         /\ main' \in Main
         /\ \/ main'.pc = "idle"
            \/ /\ main'.pc \in {"cleaning_handle", "cleaning_job"}
               /\ main'.job = main.job
         /\ faults' \in 0..MaxFaults
         /\ LostGrows
<1>1. torn' \in SUBSET Files /\ lost' = lost
  BY AppendRaisesIs, FilesAre DEF StartRaises
<1>2. LostGrows
  BY <1>1, OnlyTorn
<1>3. faults' \in 0..MaxFaults
  BY JobAssumption DEF StartRaises, TypeOK
<1>4. CASE main' = [main EXCEPT !.pc = "cleaning_handle"]
  <2>1. main' \in Main /\ main'.pc = "cleaning_handle" /\ main'.job = main.job
    BY <1>4, MainTyped DEF Main, MainSteps
  <2> QED
    BY <1>2, <1>3, <2>1 DEF StartRaises, Busy
<1>5. CASE main' = CleaningJob
  BY <1>2, <1>3, <1>5, CleaningJobIs DEF StartRaises, Busy
<1> QED
  BY <1>4, <1>5 DEF StartRaises

LEMMA CleaningIsSwallowedIs ==
  ASSUME TypeOK, CleaningIsSwallowed
  PROVE  /\ main' \in Main
         /\ main.pc \in {"cleaning_handle", "cleaning_job"}
         /\ \/ main'.pc = "idle"
            \/ main'.pc = "cleaning_job" /\ main'.job = main.job
         /\ faults' \in 0..MaxFaults
         /\ LostGrows
<1>1. LostGrows
  BY MainTyped, SwallowsIs, FilesAre DEF CleaningIsSwallowed
<1>2. faults' \in 0..MaxFaults
  BY JobAssumption DEF CleaningIsSwallowed, TypeOK
<1>3. CASE main' = CleaningJob
  BY <1>1, <1>2, <1>3, CleaningJobIs DEF CleaningIsSwallowed, Busy
<1>4. CASE main' = MainIdle
  BY <1>1, <1>2, <1>4, MainIdleIs DEF CleaningIsSwallowed, Busy
<1> QED
  BY <1>3, <1>4 DEF CleaningIsSwallowed

LEMMA CallRaisesIs ==
  ASSUME TypeOK, CallRaises
  PROVE  /\ main' \in Main /\ main'.pc = "idle"
         /\ main.pc \in {"gate_journal", "discarding"}
         /\ faults' \in 0..MaxFaults
         /\ LostGrows
<1>1. torn' \in SUBSET Files /\ lost' = lost
  BY FilesAre DEF CallRaises, TypeOK
<1>2. LostGrows
  BY <1>1, OnlyTorn
<1>3. faults' \in 0..MaxFaults
  BY JobAssumption DEF CallRaises, TypeOK
<1> QED
  BY <1>2, <1>3, MainIdleIs DEF CallRaises, Busy

LEMMA WaitReturnsIs ==
  ASSUME TypeOK, WaitReturns
  PROVE  /\ main' \in Main /\ main'.pc \in {"replying", "idle"}
         /\ channel' \in [Jobs -> Channel]
<1> DEFINE c == channel[main.job]
<1>1. /\ main' = IF c.state = "parked"
                   THEN [main EXCEPT !.pc = "replying", !.request = c.request]
                   ELSE MainIdle
      /\ channel' = [channel EXCEPT ![main.job] = Closed]
  BY DEF WaitReturns
<1>2. c \in Channel /\ main \in Main /\ channel \in [Jobs -> Channel]
  BY MainTyped DEF TypeOK
<1>3. c.request \in Requests \cup {0}
  BY <1>2 DEF Channel
<1>4. Closed \in Channel
  BY DEF Closed, Channel
<1> HIDE DEF c
<1> QED
  BY <1>1, <1>2, <1>3, <1>4, MainIdleIs DEF Main, MainSteps

LEMMA ReservesIs ==
  ASSUME TypeOK, Reserves
  PROVE  /\ registry' \in [Requests -> RegistryEntry]
         /\ \/ /\ registry[main.request].state = "awaiting"
               /\ registry' = [registry EXCEPT ![main.request].state = "reserved"]
               /\ Continue("reserved")
            \/ registry' = registry /\ main' = MainIdle
<1>1. registry \in [Requests -> RegistryEntry]
  BY DEF TypeOK
<1> QED
  BY <1>1 DEF Reserves, RegistryEntry

LEMMA DecisionIntentRaisesIs ==
  ASSUME TypeOK, DecisionIntentRaises
  PROVE  /\ registry' \in [Requests -> RegistryEntry]
         /\ approval' \in [Jobs -> [Requests -> Phases]]
         /\ faults' \in 0..MaxFaults
         /\ LostGrows
<1>1. /\ main.job \in Jobs /\ registry \in [Requests -> RegistryEntry]
      /\ approval \in [Jobs -> [Requests -> Phases]]
      /\ "intent" \in Phases
  BY MainTyped DEF TypeOK, Phases
<1>2. registry' \in [Requests -> RegistryEntry]
  BY <1>1 DEF DecisionIntentRaises, RegistryEntry
<1>3. faults' \in 0..MaxFaults
  BY JobAssumption DEF DecisionIntentRaises, TypeOK
<1>4. CASE AppendRaises("journal") /\ UNCHANGED <<approval, lost>>
  <2>1. torn' \in SUBSET Files
    BY <1>4, AppendRaisesIs, FilesAre
  <2> QED
    BY <1>1, <1>2, <1>3, <1>4, <2>1, OnlyTorn
<1>5. CASE WritesApproval(main.job, main.request, "intent")
  <2>1. approval' \in [Jobs -> [Requests -> Phases]] /\ LostGrows
    BY <1>1, <1>5, WritesApprovalIs
  <2> QED
    BY <1>2, <1>3, <2>1
<1> QED
  BY <1>4, <1>5 DEF DecisionIntentRaises

LEMMA CommitsIs ==
  ASSUME TypeOK, Commits
  PROVE  /\ registry' \in [Requests -> RegistryEntry]
         /\ \A q \in Requests \ {main.request} : registry'[q] = registry[q]
         /\ main.request \in Requests =>
                  registry'[main.request].state = "decided"
<1> DEFINE entry ==
             [state |-> "decided", verdict |-> "operator", armed |-> FALSE]
<1>1. entry \in RegistryEntry /\ entry.state = "decided"
  BY DEF RegistryEntry, Verdicts
<1>2. registry' = [registry EXCEPT ![main.request] = entry]
  BY DEF Commits
<1> HIDE DEF entry
<1> QED
  BY <1>1, <1>2 DEF TypeOK

(* A step of the main thread keeps the types and the outcome records;      *)
(* calls are served only outside recovery, and do not enter it.            *)
LEMMA MainStepIs ==
  ASSUME TypeOK, Call \/ Continues
  PROVE  /\ TypeOK' /\ LostGrows /\ outcome' = outcome
         /\ ~ Recovering /\ ~ Recovering'
<1>0. main.job \in Jobs /\ main \in Main
  BY MainTyped
<1>1. CASE \E j \in Jobs : GateReadsJobs(j)
  <2>1. PICK j \in Jobs : GateReadsJobs(j)
    BY <1>1
  <2> QED
    BY <1>0, <2>1, FilesKept, BeginIs
      DEF GateReadsJobs, Busy, Recovering, TypeOK, LostGrows, MainSteps,
          Phases, Active, Terminal, Handles, counters, durable
<1>2. CASE \E j \in Jobs, r \in Requests : Validates(j, r)
  <2>1. PICK j \in Jobs, r \in Requests : Validates(j, r)
    BY <1>2
  <2> QED
    BY <1>0, <2>1, FilesKept, ValidatesIs
      DEF Validates, Busy, Recovering, TypeOK, LostGrows, MainSteps, Phases,
          Active, Terminal, Handles, counters, durable
<1>3. CASE \E j \in Jobs : PollAborts(j)
  <2>1. PICK j \in Jobs : PollAborts(j)
    BY <1>3
  <2> QED
    BY <1>0, <2>1, FilesKept, AbortIs
      DEF PollAborts, Busy, Recovering, TypeOK, LostGrows, MainSteps, Phases,
          Active, Terminal, Handles, counters, durable
<1>4. CASE \E j \in Jobs : DiscardReads(j)
  <2>1. PICK j \in Jobs : DiscardReads(j)
    BY <1>4
  <2> QED
    BY <1>0, <2>1, FilesKept, BeginIs
      DEF DiscardReads, Busy, Recovering, TypeOK, LostGrows, MainSteps, Phases,
          Active, Terminal, Handles, counters, durable
<1>5. CASE GateReadsRuntimes
  <2>1. main' = MainIdle \/ Continue("gate_journal")
    BY <1>5 DEF GateReadsRuntimes, Continue
  <2> QED
    BY <1>0, <1>5, <2>1, FilesKept, ContinueIs, MainIdleIs
      DEF GateReadsRuntimes, Busy, Recovering, TypeOK, LostGrows, MainSteps,
          durable, counters
<1>6. CASE WritesCreationIntent
  BY <1>0, <1>6, FilesKept, ContinueIs, MainIdleIs, WritesCreationIs
    DEF WritesCreationIntent, Busy, Recovering, TypeOK, LostGrows, MainSteps,
        Phases, Active, Terminal, Handles, counters
<1>7. CASE \E works \in BOOLEAN : Bootstraps(works)
  <2>1. PICK works \in BOOLEAN : Bootstraps(works)
    BY <1>7
  <2> QED
    BY <1>0, <2>1, FilesKept, ContinueIs, MainIdleIs
      DEF Bootstraps, Busy, Recovering, TypeOK, LostGrows, MainSteps, Phases,
          Active, Terminal, Handles, counters, durable
<1>8. CASE WritesCreationDispatched
  BY <1>0, <1>8, ContinueIs, WritesCreationIs
    DEF WritesCreationDispatched, Busy, Recovering, TypeOK, LostGrows,
        MainSteps, Phases, Active, Terminal, Handles, counters
<1>9. CASE RegistersRuntime
  BY <1>0, <1>9, FilesKept, ContinueIs
    DEF RegistersRuntime, Busy, Recovering, TypeOK, LostGrows, MainSteps,
        Phases, Active, Terminal, Handles, counters, durable
<1>10. CASE CreatesHandle
  BY <1>0, <1>10, ContinueIs, CreatesHandleIs
    DEF CreatesHandle, Busy, Recovering, TypeOK, LostGrows, MainSteps, Phases,
        Active, Terminal, Handles, counters
<1>11. CASE CreatesJob
  BY <1>0, <1>11, ContinueIs, CreatesJobIs
    DEF CreatesJob, Busy, Recovering, TypeOK, LostGrows, MainSteps, Phases,
        Active, Terminal, Handles, counters
<1>12. CASE WritesCreationCompleted
  BY <1>0, <1>12, ContinueIs, WritesCreationIs
    DEF WritesCreationCompleted, Busy, Recovering, TypeOK, LostGrows,
        MainSteps, Phases, Active, Terminal, Handles, counters
<1>13. CASE StartRaises
  BY <1>0, <1>13, StartRaisesIs
    DEF StartRaises, Busy, Recovering, TypeOK, LostGrows, MainSteps, Phases,
        Active, Terminal, Handles, counters
<1>14. CASE CleansHandle
  BY <1>0, <1>14, CleaningJobIs, PutHandleIs
    DEF CleansHandle, Busy, Recovering, TypeOK, LostGrows, MainSteps, Phases,
        Active, Terminal, Handles, counters
<1>15. CASE CleansJob
  BY <1>0, <1>15, TransitionIs, MainIdleIs
    DEF CleansJob, Busy, Recovering, TypeOK, LostGrows, MainSteps, Phases,
        Active, Terminal, Handles, counters
<1>16. CASE CleaningIsSwallowed
  BY <1>0, <1>16, CleaningIsSwallowedIs
    DEF CleaningIsSwallowed, Busy, Recovering, TypeOK, LostGrows, MainSteps,
        Phases, Active, Terminal, Handles, counters
<1>17. CASE CallRaises
  BY <1>0, <1>17, CallRaisesIs
    DEF CallRaises, Busy, Recovering, TypeOK, LostGrows, MainSteps, Phases,
        Active, Terminal, Handles, counters
<1>18. CASE Spawns
  BY <1>0, <1>18, FilesKept, ContinueIs, SpawnsIs
    DEF Spawns, Busy, Recovering, TypeOK, LostGrows, MainSteps, Phases, Active,
        Terminal, Handles, counters, durable
<1>19. CASE WaitReturns
  BY <1>0, <1>19, FilesKept, WaitReturnsIs
    DEF WaitReturns, Busy, Recovering, TypeOK, LostGrows, MainSteps, Phases,
        Active, Terminal, Handles, counters, durable
<1>20. CASE Replies
  BY <1>0, <1>20, FilesKept, AbortIs, MainIdleIs
    DEF Replies, Busy, Recovering, TypeOK, LostGrows, MainSteps, Phases,
        Active, Terminal, Handles, counters, durable
<1>21. CASE Reserves
  BY <1>0, <1>21, FilesKept, ContinueIs, MainIdleIs, ReservesIs
    DEF Reserves, Busy, Recovering, TypeOK, LostGrows, MainSteps, Phases,
        Active, Terminal, Handles, counters, durable
<1>22. CASE WritesDecisionIntent
  BY <1>0, <1>22, ContinueIs, WritesApprovalIs
    DEF WritesDecisionIntent, Busy, Recovering, TypeOK, LostGrows, MainSteps,
        Phases, Active, Terminal, Handles, counters
<1>23. CASE DecisionIntentRaises
  BY <1>0, <1>23, DecisionIntentRaisesIs, MainIdleIs
    DEF DecisionIntentRaises, Busy, Recovering, TypeOK, LostGrows, MainSteps,
        Phases, Active, Terminal, Handles, counters
<1>24. CASE Commits
  BY <1>0, <1>24, FilesKept, CommitsIs, MainIdleIs
    DEF Commits, Busy, Recovering, TypeOK, LostGrows, MainSteps, Phases,
        Active, Terminal, Handles, counters, durable
<1>25. CASE DiscardWrites
  BY <1>0, <1>25, DiscardedIs, MainIdleIs
    DEF DiscardWrites, Busy, Recovering, TypeOK, LostGrows, MainSteps, Phases,
        Active, Terminal, Handles, counters
<1> QED
  BY <1>1, <1>2, <1>3, <1>4, <1>5, <1>6, <1>7, <1>8, <1>9, <1>10, <1>11, <1>12,
     <1>13, <1>14, <1>15, <1>16, <1>17, <1>18, <1>19, <1>20, <1>21, <1>22,
     <1>23, <1>24, <1>25
    DEF Call, Continues

(* What the job invariant depends on, apart from what is missing.          *)
jobvars == <<store, runtime, worker, creation>>

(* A main thread that neither starts nor discards a job claims none.       *)
Elsewhere == {"idle", "deciding", "reserved", "intended", "replying"}

(* Two ways for a job to keep what its worker's place says.                *)
LEMMA WorkersCarry ==
  ASSUME WorkersIn, LostGrows,
         \A k \in Jobs :
            \/ /\ worker'[k] = worker[k] /\ runtime'[k] = runtime[k]
               /\ store'[k].status = store[k].status
            \/ worker'[k].pc = "none" /\ worker'[k].announce # "parked"
  PROVE  WorkersIn'
<1>1. ASSUME NEW k \in Jobs
      PROVE  PlaceInv(k)' /\ StatusInv(k)'
  <2>1. /\ InJobs(k)' => InJobs(k)
        /\ InRequests(k)' => InRequests(k)
    BY MissingStays
  <2>2. CASE worker'[k].pc = "none" /\ worker'[k].announce # "parked"
    BY <2>2 DEF PlaceInv, StatusInv, RuntimeSteps, HandlerSteps, SettleSteps
  <2>3. CASE /\ worker'[k] = worker[k] /\ runtime'[k] = runtime[k]
             /\ store'[k].status = store[k].status
    <3>1. PlaceInv(k) /\ StatusInv(k)
      BY DEF WorkersIn
    <3>2. PlaceInv(k)'
      BY <2>1, <2>3, <3>1 DEF PlaceInv
    <3>3. StatusInv(k)'
      BY <2>1, <2>3, <3>1 DEF StatusInv
    <3> QED
      BY <3>2, <3>3
  <2> QED
    BY <2>2, <2>3
<1> QED
  BY <1>1 DEF WorkersIn

LEMMA StillNoRecovery ==
  ASSUME JobInv, LostGrows, outcome' = outcome, ~ Recovering'
  PROVE  RecoveryInv'
<1>1. \A j \in Jobs : outcome'[j] = "lost" => j \in lost'["outcomes"]
  BY MissingStays DEF JobInv, RecoveryInv
<1> QED
  BY <1>1, RecoveryIsOver

(* A step between two steps of a start, or into one.                       *)
LEMMA QuietStart ==
  ASSUME JobInv, LostGrows, outcome' = outcome, ~ Recovering, ~ Recovering',
         UNCHANGED jobvars, OneClaim', GateInv', StartInv'
  PROVE  JobInv'
<1>1. FreshJobs' /\ Unpromoted'
  BY DEF JobInv, FreshJobs, Unpromoted, NotStarted, jobvars
<1>2. WorkersIn'
  BY WorkersCarry DEF JobInv, jobvars
<1>3. RecoveryInv'
  BY StillNoRecovery
<1>4. ServedInv'
  BY MissingStays DEF JobInv, ServedInv, jobvars
<1> QED
  BY <1>1, <1>2, <1>3, <1>4 DEF JobInv

LEMMA QuietMain ==
  ASSUME JobInv, LostGrows, outcome' = outcome, ~ Recovering, ~ Recovering',
         UNCHANGED jobvars, main'.pc \in Elsewhere
  PROVE  JobInv'
<1>1. OneClaim'
  <2>1. \A k \in Jobs : Claimed(k)' => Claimed(k)
    BY MissingStays DEF Claimed, StartSteps, Elsewhere, jobvars
  <2> QED
    BY <2>1 DEF JobInv, OneClaim
<1>2. GateInv' /\ StartInv'
  BY DEF GateInv, StartInv, StartSteps, Elsewhere
<1> QED
  BY <1>1, <1>2, QuietStart

(* The main thread's own place in a start: no worker runs for the job.     *)
LEMMA OwnStart ==
  ASSUME TypeOK, JobInv, main.pc \in StartSteps
  PROVE  /\ main.job \in Jobs
         /\ worker[main.job].pc = "none"
         /\ worker[main.job].announce # "parked"
         /\ creation[main.job] # "none"
         /\ \A k \in Jobs \ {main.job} : ~ Claimed(k)
  BY MainTyped DEF JobInv, StartInv, WorkersIn, PlaceInv, OneClaim, Claimed

(* A step of the main thread keeps the invariant of the jobs: the gate.    *)
LEMMA MainKeepsJobs ==
  ASSUME TypeOK, JobInv, Call \/ Continues
  PROVE  JobInv'
<1>0. /\ main.job \in Jobs /\ ~ Recovering /\ ~ Recovering'
      /\ LostGrows /\ outcome' = outcome
  BY MainStepIs, MainTyped
<1>m. \A k \in Jobs : InJobs(k)' => InJobs(k)
  BY <1>0, MissingStays
<1>r. RecoveryInv'
  BY <1>0, StillNoRecovery
<1>1. CASE \E j \in Jobs : GateReadsJobs(j)
  <2>0. PICK j \in Jobs : GateReadsJobs(j)
    BY <1>1
  <2>1. UNCHANGED jobvars
    BY <2>0 DEF GateReadsJobs, jobvars, durable, counters
  <2>2. /\ main'.pc = "gate_runtimes" /\ main'.job = j /\ creation[j] = "none"
        /\ \A i \in Jobs : ~ NeedsAttention(i)
    BY <2>0, BeginIs DEF GateReadsJobs, MainSteps
  <2>3. \A i \in Jobs : store[i].status # "queued"
    BY <2>2 DEF JobInv, Unpromoted, NeedsAttention
  <2>4. OneClaim'
    <3>1. \A k \in Jobs : Claimed(k)' => Claimed(k)
      BY <1>0, <1>m, <2>1, <2>2 DEF Claimed, StartSteps, jobvars
    <3> QED
      BY <3>1 DEF JobInv, OneClaim
  <2>5. GateInv' /\ StartInv'
    BY <2>1, <2>2, <2>3 DEF GateInv, StartInv, StartSteps, jobvars
  <2> QED
    BY <1>0, <2>1, <2>4, <2>5, QuietStart
<1>2. CASE \E j \in Jobs, r \in Requests : Validates(j, r)
  <2>1. PICK j \in Jobs, r \in Requests : Validates(j, r)
    BY <1>2
  <2>2. UNCHANGED jobvars /\ main'.pc \in Elsewhere
    BY <2>1, ValidatesIs
      DEF Validates, Busy, Elsewhere, MainSteps, TypeOK, jobvars, counters,
          durable
  <2> QED
    BY <1>0, <2>2, QuietMain
<1>3. CASE \E j \in Jobs : PollAborts(j)
  <2>1. PICK j \in Jobs : PollAborts(j)
    BY <1>3
  <2>2. UNCHANGED jobvars /\ main'.pc \in Elsewhere
    BY <2>1, AbortIs
      DEF PollAborts, Busy, Elsewhere, MainSteps, TypeOK, jobvars, counters,
          durable
  <2> QED
    BY <1>0, <2>2, QuietMain
<1>4. CASE \E j \in Jobs : DiscardReads(j)
  <2>0. PICK j \in Jobs : DiscardReads(j)
    BY <1>4
  <2>1. UNCHANGED jobvars
    BY <2>0 DEF DiscardReads, jobvars, durable, counters
  <2>2. main'.pc = "discarding" /\ main'.job = j /\ Discardable(j)
    BY <2>0, BeginIs DEF DiscardReads, MainSteps
  <2>3. store[j].status \notin {"absent", "queued"}
    BY <2>2 DEF JobInv, Unpromoted, Discardable, Terminal
  <2>4. OneClaim'
    <3>1. \A k \in Jobs : Claimed(k)' => Claimed(k)
      BY <1>0, <1>m, <2>1, <2>2 DEF Claimed, StartSteps, jobvars
    <3> QED
      BY <3>1 DEF JobInv, OneClaim
  <2>5. GateInv' /\ StartInv'
    BY <2>1, <2>2, <2>3 DEF GateInv, StartInv, StartSteps, jobvars
  <2> QED
    BY <1>0, <2>1, <2>4, <2>5, QuietStart
<1>5. CASE GateReadsRuntimes
  <2>1. UNCHANGED jobvars
    BY <1>5 DEF GateReadsRuntimes, jobvars, durable, counters
  <2>2. CASE main' = MainIdle
    BY <1>0, <2>1, <2>2, QuietMain, MainIdleIs DEF Elsewhere
  <2>3. CASE Continue("gate_journal") /\ ~ \E i \in Jobs : runtime[i]
    <3>1. /\ main'.pc = "gate_journal"
          /\ main'.job = main.job
          /\ main.pc = "gate_runtimes"
      BY <1>5, <2>3, ContinueIs DEF GateReadsRuntimes, Busy, TypeOK, MainSteps
    <3>2. \A i \in Jobs : /\ ~ runtime[i]
                          /\ InJobs(i) => store[i].status \notin Unserved
      BY <1>0, <2>3 DEF JobInv, WorkersIn, StatusInv, ServedInv
    <3>3. OneClaim'
      <4>1. \A k \in Jobs : Claimed(k)' => Claimed(k)
        BY <1>0, <1>m, <2>1, <3>1 DEF Claimed, StartSteps, jobvars
      <4> QED
        BY <4>1 DEF JobInv, OneClaim
    <3>4. GateInv' /\ StartInv'
      BY <1>m, <2>1, <3>1, <3>2
        DEF JobInv, GateInv, StartInv, StartSteps, jobvars
    <3> QED
      BY <1>0, <2>1, <3>3, <3>4, QuietStart
  <2> QED
    BY <1>5, <2>2, <2>3 DEF GateReadsRuntimes, Continue
<1>6. CASE WritesCreationIntent
  <2>1. CASE main' = MainIdle /\ creation' = creation
    <3>1. UNCHANGED jobvars
      BY <1>6, <2>1 DEF WritesCreationIntent, jobvars, counters
    <3> QED
      BY <1>0, <2>1, <3>1, QuietMain, MainIdleIs DEF Elsewhere
  <2>2. CASE WritesCreation(main.job, "intent") /\ Continue("bootstrapping")
    <3>1. /\ main.pc = "gate_journal"
          /\ main'.pc = "bootstrapping"
          /\ main'.job = main.job
          /\ store' = store /\ runtime' = runtime /\ worker' = worker
      BY <1>0, <1>6, <2>2, ContinueIs
        DEF WritesCreationIntent, Busy, TypeOK, MainSteps
    <3>2. /\ creation'[main.job] # "none"
          /\ \A k \in Jobs \ {main.job} : creation'[k] = creation[k]
      BY <1>0, <2>2, WritesCreationIs DEF Phases
    <3>3. \A k \in Jobs : /\ ~ runtime[k] /\ store[k].status # "queued"
                          /\ InJobs(k) => store[k].status \notin Unserved
      BY <3>1 DEF JobInv, GateInv
    <3>4. NotStarted(main.job)
      BY <1>0, <3>1 DEF JobInv, GateInv, FreshJobs
    <3>5. OneClaim'
      BY <1>m, <3>1, <3>3 DEF OneClaim, Claimed
    <3>6. FreshJobs' /\ Unpromoted'
      BY <1>0, <3>1, <3>2 DEF JobInv, FreshJobs, NotStarted, Unpromoted
    <3>7. GateInv' /\ StartInv'
      BY <1>0, <3>1, <3>2, <3>4 DEF GateInv, StartInv, NotStarted, StartSteps
    <3>8. WorkersIn'
      BY <1>0, <3>1, WorkersCarry DEF JobInv
    <3>9. ServedInv'
      BY <1>0, <1>m, <3>1 DEF JobInv, ServedInv
    <3> QED
      BY <1>r, <3>5, <3>6, <3>7, <3>8, <3>9 DEF JobInv
  <2> QED
    BY <1>6, <2>1, <2>2 DEF WritesCreationIntent
<1>7. CASE \E works \in BOOLEAN : Bootstraps(works)
  <2>0. PICK works \in BOOLEAN : Bootstraps(works)
    BY <1>7
  <2>1. UNCHANGED jobvars
    BY <2>0 DEF Bootstraps, jobvars, durable, counters
  <2>2. CASE main' = MainIdle
    BY <1>0, <2>1, <2>2, QuietMain, MainIdleIs DEF Elsewhere
  <2>3. CASE Continue("bootstrapped")
    <3>1. /\ main'.pc = "bootstrapped"
          /\ main'.job = main.job
          /\ main.pc = "bootstrapping"
      BY <2>0, <2>3, ContinueIs DEF Bootstraps, Busy, TypeOK, MainSteps
    <3>2. OneClaim'
      <4>1. \A k \in Jobs : Claimed(k)' => Claimed(k)
        BY <1>0, <1>m, <2>1, <3>1 DEF Claimed, StartSteps, jobvars
      <4> QED
        BY <4>1 DEF JobInv, OneClaim
    <3>3. GateInv' /\ StartInv'
      BY <2>1, <3>1 DEF JobInv, GateInv, StartInv, StartSteps, jobvars
    <3> QED
      BY <1>0, <2>1, <3>2, <3>3, QuietStart
  <2> QED
    BY <2>0, <2>2, <2>3 DEF Bootstraps
<1>8. CASE WritesCreationDispatched
  <2>1. /\ main.pc = "bootstrapped"
        /\ main'.pc = "registering"
        /\ main'.job = main.job
        /\ store' = store /\ runtime' = runtime /\ worker' = worker
    BY <1>0, <1>8, ContinueIs
      DEF WritesCreationDispatched, Busy, TypeOK, MainSteps
  <2>2. /\ creation'[main.job] # "none"
        /\ \A k \in Jobs \ {main.job} : creation'[k] = creation[k]
    BY <1>0, <1>8, WritesCreationIs DEF WritesCreationDispatched, Phases
  <2>3. /\ main.job \in Jobs
        /\ worker[main.job].pc = "none"
        /\ worker[main.job].announce # "parked"
        /\ creation[main.job] # "none"
        /\ \A k \in Jobs \ {main.job} : ~ Claimed(k)
    BY <2>1, OwnStart DEF StartSteps
  <2>4. OneClaim'
    <3>1. \A k \in Jobs \ {main.job} : Claimed(k)' => Claimed(k)
      BY <1>0, <1>m, <2>1, <2>2 DEF Claimed, StartSteps
    <3> QED
      BY <2>3, <3>1 DEF OneClaim
  <2>5. FreshJobs' /\ Unpromoted'
    BY <2>1, <2>2, <2>3 DEF JobInv, FreshJobs, NotStarted, Unpromoted, StartInv
  <2>6. GateInv' /\ StartInv'
    BY <1>m, <2>1, <2>2, <2>3 DEF JobInv, GateInv, StartInv, StartSteps
  <2>7. WorkersIn'
    BY <1>0, <2>1, <2>2, <2>3, WorkersCarry DEF JobInv
  <2>8. ServedInv'
    BY <1>0, <1>m, <2>1, <2>2, <2>3 DEF JobInv, ServedInv, Unserved
  <2> QED
    BY <1>r, <2>4, <2>5, <2>6, <2>7, <2>8 DEF JobInv
<1>9. CASE RegistersRuntime
  <2>1. /\ main.pc = "registering"
        /\ main'.pc = "lineage"
        /\ main'.job = main.job
        /\ store' = store /\ creation' = creation /\ worker' = worker
    BY <1>0, <1>9, ContinueIs
      DEF RegistersRuntime, Busy, TypeOK, MainSteps, durable
  <2>2. /\ runtime'[main.job]
        /\ \A k \in Jobs \ {main.job} : runtime'[k] = runtime[k]
    BY <1>0, <1>9, MainTyped DEF RegistersRuntime, TypeOK
  <2>3. /\ main.job \in Jobs
        /\ worker[main.job].pc = "none"
        /\ worker[main.job].announce # "parked"
        /\ creation[main.job] # "none"
        /\ \A k \in Jobs \ {main.job} : ~ Claimed(k)
    BY <2>1, OwnStart DEF StartSteps
  <2>4. OneClaim'
    <3>1. \A k \in Jobs \ {main.job} : Claimed(k)' => Claimed(k)
      BY <1>0, <1>m, <2>1, <2>2 DEF Claimed, StartSteps
    <3> QED
      BY <2>3, <3>1 DEF OneClaim
  <2>5. FreshJobs' /\ Unpromoted'
    BY <2>1, <2>2, <2>3 DEF JobInv, FreshJobs, NotStarted, Unpromoted, StartInv
  <2>6. GateInv' /\ StartInv'
    BY <1>m, <2>1, <2>2, <2>3 DEF JobInv, GateInv, StartInv, StartSteps
  <2>7. WorkersIn'
    BY <1>0, <2>1, <2>2, <2>3, WorkersCarry DEF JobInv
  <2>8. ServedInv'
    BY <1>0, <1>m, <2>1, <2>2, <2>3 DEF JobInv, ServedInv, Unserved
  <2> QED
    BY <1>r, <2>4, <2>5, <2>6, <2>7, <2>8 DEF JobInv
<1>10. CASE CreatesHandle
  <2>1. /\ main.pc = "lineage"
        /\ main'.pc = "queueing"
        /\ main'.job = main.job
        /\ store' = store
        /\ creation' = creation
        /\ worker' = worker
        /\ runtime' = runtime
    BY <1>0, <1>10, ContinueIs DEF CreatesHandle, Busy, TypeOK, MainSteps
  <2>3. /\ main.job \in Jobs
        /\ worker[main.job].pc = "none"
        /\ worker[main.job].announce # "parked"
        /\ creation[main.job] # "none"
        /\ \A k \in Jobs \ {main.job} : ~ Claimed(k)
    BY <2>1, OwnStart DEF StartSteps
  <2>4. OneClaim'
    <3>1. \A k \in Jobs \ {main.job} : Claimed(k)' => Claimed(k)
      BY <1>0, <1>m, <2>1 DEF Claimed, StartSteps
    <3> QED
      BY <2>3, <3>1 DEF OneClaim
  <2>5. FreshJobs' /\ Unpromoted'
    BY <2>1, <2>3 DEF JobInv, FreshJobs, NotStarted, Unpromoted, StartInv
  <2>6. GateInv' /\ StartInv'
    BY <1>m, <2>1, <2>3 DEF JobInv, GateInv, StartInv, StartSteps
  <2>7. WorkersIn'
    BY <1>0, <2>1, <2>3, WorkersCarry DEF JobInv
  <2>8. ServedInv'
    BY <1>0, <1>m, <2>1, <2>3 DEF JobInv, ServedInv, Unserved
  <2> QED
    BY <1>r, <2>4, <2>5, <2>6, <2>7, <2>8 DEF JobInv
<1>11. CASE CreatesJob
  <2>1. /\ main.pc = "queueing"
        /\ main'.pc = "completing"
        /\ main'.job = main.job
        /\ creation' = creation /\ worker' = worker /\ runtime' = runtime
    BY <1>0, <1>11, ContinueIs DEF CreatesJob, Busy, TypeOK, MainSteps
  <2>2. /\ store'[main.job] = store[main.job]
              \/ store'[main.job].status = "queued"
        /\ store'[main.job].promotion = store[main.job].promotion
        /\ InJobs(main.job)' => store'[main.job].status = "queued"
        /\ \A k \in Jobs \ {main.job} : store'[k] = store[k]
    BY <1>0, <1>11, CreatesJobIs
  <2>3. /\ main.job \in Jobs
        /\ worker[main.job].pc = "none"
        /\ worker[main.job].announce # "parked"
        /\ creation[main.job] # "none"
        /\ \A k \in Jobs \ {main.job} : ~ Claimed(k)
    BY <2>1, OwnStart DEF StartSteps
  <2>4. OneClaim'
    <3>1. \A k \in Jobs \ {main.job} : Claimed(k)' => Claimed(k)
      BY <1>0, <1>m, <2>1, <2>2 DEF Claimed, StartSteps
    <3> QED
      BY <2>3, <3>1 DEF OneClaim
  <2>5. FreshJobs' /\ Unpromoted'
    BY <2>1, <2>2, <2>3 DEF JobInv, FreshJobs, NotStarted, Unpromoted, StartInv
  <2>6. GateInv' /\ StartInv'
    BY <1>m, <2>1, <2>2, <2>3 DEF JobInv, GateInv, StartInv, StartSteps
  <2>7. WorkersIn'
    BY <1>0, <2>1, <2>2, <2>3, WorkersCarry DEF JobInv
  <2>8. ServedInv'
    BY <1>0, <1>m, <2>1, <2>2, <2>3 DEF JobInv, ServedInv, Unserved
  <2> QED
    BY <1>r, <2>4, <2>5, <2>6, <2>7, <2>8 DEF JobInv
<1>12. CASE WritesCreationCompleted
  <2>1. /\ main.pc = "completing"
        /\ main'.pc = "spawning"
        /\ main'.job = main.job
        /\ store' = store /\ runtime' = runtime /\ worker' = worker
    BY <1>0, <1>12, ContinueIs
      DEF WritesCreationCompleted, Busy, TypeOK, MainSteps
  <2>2. /\ creation'[main.job] # "none"
        /\ \A k \in Jobs \ {main.job} : creation'[k] = creation[k]
    BY <1>0, <1>12, WritesCreationIs DEF WritesCreationCompleted, Phases
  <2>3. /\ main.job \in Jobs
        /\ worker[main.job].pc = "none"
        /\ worker[main.job].announce # "parked"
        /\ creation[main.job] # "none"
        /\ \A k \in Jobs \ {main.job} : ~ Claimed(k)
    BY <2>1, OwnStart DEF StartSteps
  <2>4. OneClaim'
    <3>1. \A k \in Jobs \ {main.job} : Claimed(k)' => Claimed(k)
      BY <1>0, <1>m, <2>1, <2>2 DEF Claimed, StartSteps
    <3> QED
      BY <2>3, <3>1 DEF OneClaim
  <2>5. FreshJobs' /\ Unpromoted'
    BY <2>1, <2>2, <2>3 DEF JobInv, FreshJobs, NotStarted, Unpromoted, StartInv
  <2>6. GateInv' /\ StartInv'
    BY <1>m, <2>1, <2>2, <2>3 DEF JobInv, GateInv, StartInv, StartSteps
  <2>7. WorkersIn'
    BY <1>0, <2>1, <2>2, <2>3, WorkersCarry DEF JobInv
  <2>8. ServedInv'
    BY <1>0, <1>m, <2>1, <2>2, <2>3 DEF JobInv, ServedInv, Unserved
  <2> QED
    BY <1>r, <2>4, <2>5, <2>6, <2>7, <2>8 DEF JobInv
<1>13. CASE StartRaises
  <2>1. /\ main.pc \in {"bootstrapped", "lineage", "queueing", "completing"}
        /\ main'.pc \in {"cleaning_handle", "cleaning_job", "idle"}
        /\ main'.pc # "idle" => main'.job = main.job
        /\ store' = store
        /\ creation' = creation
        /\ worker' = worker
        /\ runtime' = runtime
    BY <1>0, <1>13, StartRaisesIs DEF StartRaises
  <2>3. /\ main.job \in Jobs
        /\ worker[main.job].pc = "none"
        /\ worker[main.job].announce # "parked"
        /\ creation[main.job] # "none"
        /\ \A k \in Jobs \ {main.job} : ~ Claimed(k)
    BY <2>1, OwnStart DEF StartSteps
  <2>4. OneClaim'
    <3>1. \A k \in Jobs \ {main.job} : Claimed(k)' => Claimed(k)
      BY <1>0, <1>m, <2>1 DEF Claimed, StartSteps
    <3> QED
      BY <2>3, <3>1 DEF OneClaim
  <2>5. FreshJobs' /\ Unpromoted'
    BY <2>1, <2>3 DEF JobInv, FreshJobs, NotStarted, Unpromoted, StartInv
  <2>6. GateInv' /\ StartInv'
    BY <1>m, <2>1, <2>3 DEF JobInv, GateInv, StartInv, StartSteps
  <2>7. WorkersIn'
    BY <1>0, <2>1, <2>3, WorkersCarry DEF JobInv
  <2>8. ServedInv'
    BY <1>0, <1>m, <2>1, <2>3 DEF JobInv, ServedInv, Unserved
  <2> QED
    BY <1>r, <2>4, <2>5, <2>6, <2>7, <2>8 DEF JobInv
<1>14. CASE CleansHandle
  <2>1. /\ main.pc = "cleaning_handle"
        /\ main'.pc \in {"cleaning_job", "idle"}
        /\ main'.pc # "idle" => main'.job = main.job
        /\ store' = store
        /\ creation' = creation
        /\ worker' = worker
        /\ runtime' = runtime
    BY <1>0, <1>14, CleaningJobIs DEF CleansHandle, Busy
  <2>3. /\ main.job \in Jobs
        /\ worker[main.job].pc = "none"
        /\ worker[main.job].announce # "parked"
        /\ creation[main.job] # "none"
        /\ \A k \in Jobs \ {main.job} : ~ Claimed(k)
    BY <2>1, OwnStart DEF StartSteps
  <2>4. OneClaim'
    <3>1. \A k \in Jobs \ {main.job} : Claimed(k)' => Claimed(k)
      BY <1>0, <1>m, <2>1 DEF Claimed, StartSteps
    <3> QED
      BY <2>3, <3>1 DEF OneClaim
  <2>5. FreshJobs' /\ Unpromoted'
    BY <2>1, <2>3 DEF JobInv, FreshJobs, NotStarted, Unpromoted, StartInv
  <2>6. GateInv' /\ StartInv'
    BY <1>m, <2>1, <2>3 DEF JobInv, GateInv, StartInv, StartSteps
  <2>7. WorkersIn'
    BY <1>0, <2>1, <2>3, WorkersCarry DEF JobInv
  <2>8. ServedInv'
    BY <1>0, <1>m, <2>1, <2>3 DEF JobInv, ServedInv, Unserved
  <2> QED
    BY <1>r, <2>4, <2>5, <2>6, <2>7, <2>8 DEF JobInv
<1>15. CASE CleansJob
  <2>1. /\ main.pc = "cleaning_job"
        /\ main'.pc = "idle"
        /\ creation' = creation /\ worker' = worker /\ runtime' = runtime
    BY <1>0, <1>15, MainIdleIs DEF CleansJob, Busy
  <2>2. /\ \A k \in Jobs \ {main.job} : store'[k] = store[k]
        /\ \/ store'[main.job] = store[main.job]
           \/ /\ store'[main.job].status = "unknown"
              /\ store[main.job].status # "absent"
    BY <1>0, <1>15, TransitionIs DEF CleansJob, Terminal
  <2>3. /\ main.job \in Jobs
        /\ worker[main.job].pc = "none"
        /\ worker[main.job].announce # "parked"
        /\ creation[main.job] # "none"
        /\ \A k \in Jobs \ {main.job} : ~ Claimed(k)
    BY <2>1, OwnStart DEF StartSteps
  <2>4. OneClaim'
    <3>1. \A k \in Jobs \ {main.job} : Claimed(k)' => Claimed(k)
      BY <1>0, <1>m, <2>1, <2>2 DEF Claimed, StartSteps
    <3> QED
      BY <2>3, <3>1 DEF OneClaim
  <2>5. FreshJobs' /\ Unpromoted'
    BY <2>1, <2>2, <2>3 DEF JobInv, FreshJobs, NotStarted, Unpromoted, StartInv
  <2>6. GateInv' /\ StartInv'
    BY <1>m, <2>1, <2>2, <2>3 DEF JobInv, GateInv, StartInv, StartSteps
  <2>7. WorkersIn'
    BY <1>0, <2>1, <2>2, <2>3, WorkersCarry DEF JobInv
  <2>8. ServedInv'
    BY <1>0, <1>m, <2>1, <2>2, <2>3 DEF JobInv, ServedInv, Unserved
  <2> QED
    BY <1>r, <2>4, <2>5, <2>6, <2>7, <2>8 DEF JobInv
<1>16. CASE CleaningIsSwallowed
  <2>1. /\ main.pc \in {"cleaning_handle", "cleaning_job"}
        /\ main'.pc \in {"cleaning_job", "idle"}
        /\ main'.pc # "idle" => main'.job = main.job
        /\ store' = store
        /\ creation' = creation
        /\ worker' = worker
        /\ runtime' = runtime
    BY <1>0, <1>16, CleaningIsSwallowedIs DEF CleaningIsSwallowed
  <2>3. /\ main.job \in Jobs
        /\ worker[main.job].pc = "none"
        /\ worker[main.job].announce # "parked"
        /\ creation[main.job] # "none"
        /\ \A k \in Jobs \ {main.job} : ~ Claimed(k)
    BY <2>1, OwnStart DEF StartSteps
  <2>4. OneClaim'
    <3>1. \A k \in Jobs \ {main.job} : Claimed(k)' => Claimed(k)
      BY <1>0, <1>m, <2>1 DEF Claimed, StartSteps
    <3> QED
      BY <2>3, <3>1 DEF OneClaim
  <2>5. FreshJobs' /\ Unpromoted'
    BY <2>1, <2>3 DEF JobInv, FreshJobs, NotStarted, Unpromoted, StartInv
  <2>6. GateInv' /\ StartInv'
    BY <1>m, <2>1, <2>3 DEF JobInv, GateInv, StartInv, StartSteps
  <2>7. WorkersIn'
    BY <1>0, <2>1, <2>3, WorkersCarry DEF JobInv
  <2>8. ServedInv'
    BY <1>0, <1>m, <2>1, <2>3 DEF JobInv, ServedInv, Unserved
  <2> QED
    BY <1>r, <2>4, <2>5, <2>6, <2>7, <2>8 DEF JobInv
<1>17. CASE CallRaises
  <2>1. UNCHANGED jobvars /\ main'.pc \in Elsewhere
    BY <1>17, CallRaisesIs DEF CallRaises, Elsewhere, jobvars
  <2> QED
    BY <1>0, <2>1, QuietMain
<1>18. CASE Spawns
  <2>1. /\ main.pc = "spawning"
        /\ main'.pc = "waiting"
        /\ main'.job = main.job
        /\ store' = store /\ runtime' = runtime /\ creation' = creation
        /\ lost' = lost
    BY <1>0, <1>18, ContinueIs
      DEF Spawns, Busy, TypeOK, MainSteps, durable, files
  <2>2. /\ worker'[main.job].pc = "spawned"
        /\ worker'[main.job].announce = "empty"
        /\ \A k \in Jobs \ {main.job} : worker'[k] = worker[k]
    BY <1>18, SpawnsIs
  <2>3. /\ main.job \in Jobs
        /\ creation[main.job] # "none"
        /\ runtime[main.job]
        /\ InJobs(main.job) => store[main.job].status = "queued"
        /\ \A k \in Jobs \ {main.job} : ~ Claimed(k)
    BY <2>1, OwnStart DEF StartSteps, JobInv, StartInv
  <2>4. OneClaim'
    <3>1. \A k \in Jobs \ {main.job} : Claimed(k)' => Claimed(k)
      BY <1>0, <1>m, <2>1, <2>2 DEF Claimed, StartSteps
    <3> QED
      BY <2>3, <3>1 DEF OneClaim
  <2>5. FreshJobs' /\ Unpromoted'
    BY <2>1, <2>2, <2>3 DEF JobInv, FreshJobs, NotStarted, Unpromoted
  <2>6. GateInv' /\ StartInv'
    BY <2>1 DEF GateInv, StartInv, StartSteps
  <2>7. ASSUME NEW k \in Jobs PROVE PlaceInv(k)' /\ StatusInv(k)'
    <3>1. CASE k = main.job
      <4>1. PlaceInv(k)'
        BY <2>1, <2>2, <2>3, <3>1 DEF PlaceInv, SettleSteps
      <4>2. StatusInv(k)'
        BY <2>1, <2>2, <2>3, <3>1 DEF StatusInv, InJobs, Unserved, SettledSteps
      <4> QED
        BY <4>1, <4>2
    <3>2. CASE k # main.job
      <4>1. worker'[k] = worker[k] /\ PlaceInv(k) /\ StatusInv(k)
        BY <2>2, <3>2 DEF JobInv, WorkersIn
      <4>2. PlaceInv(k)'
        BY <2>1, <4>1 DEF PlaceInv, InRequests
      <4>3. StatusInv(k)'
        BY <2>1, <4>1 DEF StatusInv, InJobs, InRequests
      <4> QED
        BY <4>2, <4>3
    <3> QED
      BY <3>1, <3>2
  <2>8. WorkersIn'
    BY <2>7 DEF WorkersIn
  <2>9. ServedInv'
    BY <1>0, <1>m, <2>1, <2>2, <2>3 DEF JobInv, ServedInv
  <2> QED
    BY <1>r, <2>4, <2>5, <2>6, <2>8, <2>9 DEF JobInv
<1>19. CASE WaitReturns
  <2>1. UNCHANGED jobvars /\ main'.pc \in Elsewhere
    BY <1>19, WaitReturnsIs
      DEF WaitReturns, Busy, Elsewhere, MainSteps, TypeOK, jobvars, counters,
          durable
  <2> QED
    BY <1>0, <2>1, QuietMain
<1>20. CASE Replies
  <2>1. UNCHANGED jobvars /\ main'.pc \in Elsewhere
    BY <1>20, AbortIs, MainIdleIs
      DEF Replies, Busy, Elsewhere, MainSteps, TypeOK, jobvars, counters,
          durable
  <2> QED
    BY <1>0, <2>1, QuietMain
<1>21. CASE Reserves
  <2>1. UNCHANGED jobvars /\ main'.pc \in Elsewhere
    BY <1>21, ContinueIs, MainIdleIs, ReservesIs
      DEF Reserves, Busy, Elsewhere, MainSteps, TypeOK, jobvars, counters,
          durable
  <2> QED
    BY <1>0, <2>1, QuietMain
<1>22. CASE WritesDecisionIntent
  <2>1. UNCHANGED jobvars /\ main'.pc \in Elsewhere
    BY <1>22, ContinueIs, WritesApprovalIs
      DEF WritesDecisionIntent, Busy, Elsewhere, MainSteps, TypeOK, jobvars,
          counters
  <2> QED
    BY <1>0, <2>1, QuietMain
<1>23. CASE DecisionIntentRaises
  <2>1. UNCHANGED jobvars /\ main'.pc \in Elsewhere
    BY <1>23, DecisionIntentRaisesIs, MainIdleIs
      DEF DecisionIntentRaises, Busy, Elsewhere, MainSteps, TypeOK, jobvars,
          counters
  <2> QED
    BY <1>0, <2>1, QuietMain
<1>24. CASE Commits
  <2>1. UNCHANGED jobvars /\ main'.pc \in Elsewhere
    BY <1>24, CommitsIs, MainIdleIs
      DEF Commits, Busy, Elsewhere, MainSteps, TypeOK, jobvars, counters,
          durable
  <2> QED
    BY <1>0, <2>1, QuietMain
<1>25. CASE DiscardWrites
  <2>1. /\ main.pc = "discarding" /\ main'.pc = "idle"
        /\ runtime' = runtime /\ creation' = creation /\ worker' = worker
    BY <1>0, <1>25, MainIdleIs DEF DiscardWrites, Busy
  <2>2. /\ store'[main.job].status = store[main.job].status
        /\ \A k \in Jobs \ {main.job} : store'[k] = store[k]
    BY <1>0, <1>25, DiscardedIs DEF DiscardWrites
  <2>3. \A k \in Jobs : store'[k].status = store[k].status
    BY <2>2
  <2>4. OneClaim'
    <3>1. \A k \in Jobs : Claimed(k)' => Claimed(k)
      BY <1>0, <1>m, <2>1, <2>3 DEF Claimed, StartSteps
    <3> QED
      BY <3>1 DEF JobInv, OneClaim
  <2>5. FreshJobs' /\ Unpromoted'
    BY <2>1, <2>2 DEF JobInv, FreshJobs, NotStarted, Unpromoted, StartInv
  <2>6. GateInv' /\ StartInv'
    BY <2>1 DEF GateInv, StartInv, StartSteps
  <2>7. WorkersIn'
    BY <1>0, <2>1, <2>3, WorkersCarry DEF JobInv
  <2>8. ServedInv'
    BY <1>0, <1>m, <2>1, <2>3 DEF JobInv, ServedInv
  <2> QED
    BY <1>r, <2>4, <2>5, <2>6, <2>7, <2>8 DEF JobInv
<1> QED
  BY <1>1, <1>2, <1>3, <1>4, <1>5, <1>6, <1>7, <1>8, <1>9, <1>10, <1>11, <1>12,
     <1>13, <1>14, <1>15, <1>16, <1>17, <1>18, <1>19, <1>20, <1>21, <1>22,
     <1>23, <1>24, <1>25
    DEF Call, Continues

----------------------------------------------------------------------------
(* Timers, crashes and recovery.                                           *)

LEMMA TimerFiresIs ==
  ASSUME TypeOK, NEW r \in Requests, TimerFires(r)
  PROVE  /\ TypeOK' /\ LostGrows
         /\ \A q \in Requests :
               \/ registry'[q].state = registry[q].state
               \/ /\ registry[q].state = "awaiting"
                  /\ registry'[q].state = "decided"
<1> DEFINE decided ==
             [state |-> "decided", verdict |-> "timeout", armed |-> FALSE]
           spent == [registry[r] EXCEPT !.armed = FALSE]
<1>1. registry' = [registry EXCEPT ![r] =
                     IF registry[r].state = "awaiting" THEN decided ELSE spent]
  BY DEF TimerFires
<1>2. decided \in RegistryEntry /\ decided.state = "decided"
  BY DEF RegistryEntry, Verdicts
<1>3. registry[r] \in RegistryEntry
  BY DEF TypeOK
<1>4. spent \in RegistryEntry /\ spent.state = registry[r].state
  BY <1>3 DEF RegistryEntry
<1> HIDE DEF decided, spent
<1>5. registry' \in [Requests -> RegistryEntry]
  BY <1>1, <1>2, <1>4 DEF TypeOK
<1>6. LostGrows
  BY FilesKept DEF TimerFires, durable
<1>7. TypeOK'
  BY <1>5, <1>6 DEF TypeOK, TimerFires, durable, counters, LostGrows
<1>8. registry \in [Requests -> RegistryEntry]
  BY DEF TypeOK
<1> QED
  BY <1>1, <1>2, <1>4, <1>6, <1>7, <1>8

(* No timer is armed in recovery, and it changes the registry alone.       *)
LEMMA TimerKeepsJobs ==
  ASSUME TypeOK, JobInv, NEW r \in Requests, TimerFires(r)
  PROVE  JobInv'
<1>1. ~ Recovering
  BY DEF TimerFires, JobInv, RecoveryInv, NoEntry
<1>2. UNCHANGED <<jobvars, main>> /\ outcome' = outcome /\ LostGrows
  BY TimerFiresIs DEF TimerFires, jobvars, durable
<1>3. ~ Recovering'
  BY <1>1, <1>2, SameRecovering
<1>4. OneClaim'
  <2>1. \A k \in Jobs : Claimed(k)' => Claimed(k)
    BY <1>1, <1>2, MissingStays DEF Claimed, jobvars
  <2> QED
    BY <2>1 DEF JobInv, OneClaim
<1>5. GateInv' /\ StartInv'
  <2>1. \A k \in Jobs : InJobs(k)' => InJobs(k)
    BY <1>2, MissingStays
  <2>2. main.job \in Jobs
    BY MainTyped
  <2> QED
    BY <1>2, <2>1, <2>2 DEF JobInv, GateInv, StartInv, StartSteps, jobvars
<1> QED
  BY <1>1, <1>2, <1>3, <1>4, <1>5, QuietStart

(* A crash takes what is volatile, the history of what is missing and the  *)
(* keys in memory, and leaves what is durable.                             *)
LEMMA CrashIs ==
  ASSUME TypeOK, Crash
  PROVE  /\ TypeOK'
         /\ main'.pc = "recover_creation" /\ main'.job = 1
         /\ \A j \in Jobs : /\ ~ runtime'[j] /\ worker'[j] = NoWorker
                            /\ outcome'[j] # "lost"
         /\ \A r \in Requests : registry'[r] = NoEntry
<1>1. NoEntry \in RegistryEntry /\ Closed \in Channel
  BY DEF NoEntry, RegistryEntry, Verdicts, Closed, Channel
<1>2. main' \in Main /\ main'.pc = "recover_creation" /\ main'.job = 1
  BY OneIsJob DEF Crash, MainIdle, Main, MainSteps
<1>3. crashes' \in 0..MaxCrashes
  BY JobAssumption DEF Crash, TypeOK
<1>4. /\ worker' \in [Jobs -> Worker]
      /\ registry' \in [Requests -> RegistryEntry]
      /\ channel' \in [Jobs -> Channel] /\ runtime' \in [Jobs -> BOOLEAN]
      /\ \A j \in Jobs : ~ runtime'[j] /\ worker'[j] = NoWorker
      /\ \A r \in Requests : registry'[r] = NoEntry
  BY <1>1, NoWorkerIs DEF Crash
<1>5. /\ outcome' \in [Jobs -> Terminal \cup {"none", "lost"}]
      /\ \A j \in Jobs : outcome'[j] # "lost"
  BY DEF Crash, TypeOK
<1>6. torn' \in SUBSET Files
  BY DEF Crash, TypeOK
<1>7. lost' \in [Files -> SUBSET Jobs]
  BY DEF Crash
<1> QED
  BY <1>2, <1>3, <1>4, <1>5, <1>6, <1>7 DEF Crash, TypeOK

LEMMA CrashKeepsJobs ==
  ASSUME TypeOK, JobInv, Crash
  PROVE  JobInv'
<1>1. /\ main'.pc = "recover_creation" /\ main'.job = 1
      /\ \A j \in Jobs : /\ ~ runtime'[j] /\ worker'[j].pc = "none"
                         /\ worker'[j].announce # "parked"
                         /\ outcome'[j] # "lost"
      /\ \A r \in Requests : registry'[r] = NoEntry
      /\ store' = store /\ creation' = creation
  BY CrashIs, NoWorkerIs DEF Crash
<1>2. Recovering'
  BY <1>1 DEF Recovering
<1>3. OneClaim'
  <2>1. \A k \in Jobs : Claimed(k)' => Claimed(k)
    BY <1>1, <1>2 DEF Claimed, StartSteps
  <2> QED
    BY <2>1 DEF JobInv, OneClaim
<1>4. FreshJobs' /\ Unpromoted'
  BY <1>1 DEF JobInv, FreshJobs, Unpromoted, NotStarted
<1>5. GateInv' /\ StartInv'
  BY <1>1 DEF GateInv, StartInv, StartSteps
<1>6. WorkersIn'
  BY <1>1
    DEF WorkersIn, PlaceInv, StatusInv, RuntimeSteps, HandlerSteps, SettleSteps
<1>7. PassesInv'
  <2>1. \A k \in Jobs : ~ (k < 1)
    BY DEF Jobs
  <2> QED
    BY <1>1, <2>1 DEF PassesInv, ApprovalPass, OrphanPass, OutcomePass
<1>8. RecoveryInv'
  BY <1>1, <1>7 DEF RecoveryInv
<1>9. ServedInv'
  BY <1>2 DEF ServedInv
<1> QED
  BY <1>3, <1>4, <1>5, <1>6, <1>8, <1>9 DEF JobInv

(* The cursor of a pass: to the next job, or to the next pass.             *)
LEMMA OnwardIs ==
  ASSUME TypeOK, NEW p \in MainSteps, NEW next \in MainSteps,
         Onward(p, next)
  PROVE  /\ main' \in Main /\ main'.request = 0
         /\ \/ /\ main'.pc = p
               /\ \A k \in Jobs : k < main'.job =>
                                     k < main.job \/ k = main.job
            \/ /\ main'.pc = next
               /\ \A k \in Jobs : ~ (k < main'.job)
               /\ \A k \in Jobs : k < main.job \/ k = main.job
<1>1. main.job \in 1..MaxJobs /\ MaxJobs \in Nat \ {0}
  BY MainTyped, JobAssumption DEF Jobs
<1>2. CASE main.job < MaxJobs
  <2> DEFINE n == main.job + 1
  <2>1. n \in Jobs /\ \A k \in Jobs : k < n => k < main.job \/ k = main.job
    BY <1>1, <1>2 DEF Jobs
  <2>2. main' = [MainIdle EXCEPT !.pc = p, !.job = n]
    BY <1>2 DEF Onward
  <2> HIDE DEF n
  <2>3. main' \in Main /\ main'.pc = p /\ main'.job = n /\ main'.request = 0
    BY <2>1, <2>2, BeginIs
  <2> QED
    BY <2>1, <2>3
<1>3. CASE ~ (main.job < MaxJobs)
  <2>1. main' = [MainIdle EXCEPT !.pc = next]
    BY <1>3 DEF Onward
  <2>2. main' \in Main /\ main'.pc = next /\ main'.job = 1 /\ main'.request = 0
    BY <2>1, OneIsJob DEF MainIdle, Main
  <2>3. \A k \in Jobs : ~ (k < 1) /\ (k < main.job \/ k = main.job)
    BY <1>1, <1>3 DEF Jobs
  <2> QED
    BY <2>2, <2>3
<1> QED
  BY <1>2, <1>3

(* What a step of recovery does to the records: no job is made new, a      *)
(* status becomes unknown, and nothing is served.                          *)
Recovers ==
    /\ LostGrows
    /\ runtime' = runtime /\ worker' = worker /\ registry' = registry
    /\ \A k \in Jobs :
          /\ creation'[k] = "none" => creation[k] = "none"
          /\ \/ store'[k] = store[k]
             \/ /\ store'[k].status = "unknown"
                /\ store[k].status # "absent"
    /\ main'.pc \in {"recover_creation", "recover_created_job",
                     "recover_closing", "recover_approval",
                     "recover_orphans", "recover_orphan_handle",
                     "recover_outcomes", "recover_canceled", "idle"}

LEMMA OutcomeFollows ==
  ASSUME TypeOK, AfterOutcome
  PROVE  /\ main' \in Main
         /\ \/ Continue("recover_canceled")
            \/ Onward("recover_outcomes", "idle")
         /\ main'.pc \in {"recover_outcomes", "recover_canceled", "idle"}
<1>1. \/ Continue("recover_canceled")
      \/ Onward("recover_outcomes", "idle")
  BY DEF AfterOutcome
<1>2. {"recover_outcomes", "recover_canceled", "idle"} \subseteq MainSteps
  BY DEF MainSteps
<1> QED
  BY <1>1, <1>2, ContinueIs, OnwardIs, MainTyped

LEMMA RecoveryStepIs ==
  ASSUME TypeOK, RecoveryStep
  PROVE  TypeOK' /\ Recovers /\ Recovering
<1>0. /\ main.job \in Jobs /\ main \in Main
      /\ {"recover_creation", "recover_created_job", "recover_closing",
          "recover_approval", "recover_orphans", "recover_orphan_handle",
          "recover_outcomes", "recover_canceled", "idle"} \subseteq MainSteps
      /\ "unknown" \in Active \cup Terminal
      /\ "unknown" \in Handles /\ "completed" \in Handles
      /\ "completed" \in Phases
  BY MainTyped DEF MainSteps, Terminal, Handles, Phases
<1>1. CASE RecoversHandle
  <2>1. lineage' \in [Jobs -> Handles] /\ LostGrows
    <3>1. CASE PutHandle(main.job, "unknown")
      BY <1>0, <3>1, PutHandleIs
    <3>2. CASE UNCHANGED <<lineage, files>>
      BY <3>2, FilesKept DEF TypeOK, Handles
    <3> QED
      BY <1>1, <3>1, <3>2 DEF RecoversHandle
  <2>2. /\ main' \in Main
        /\ main'.pc \in {"recover_creation", "recover_created_job",
                         "recover_approval"}
    BY <1>0, <1>1, ContinueIs, OnwardIs DEF RecoversHandle
  <2> QED
    BY <1>1, <2>1, <2>2
      DEF RecoversHandle, Handles, Busy, Recovering, TypeOK, Recovers,
          LostGrows, counters
<1>2. CASE RecoversCreatedJob
  <2>1. /\ store' \in [Jobs -> JobRecord] /\ LostGrows
        /\ \A k \in Jobs : \/ store'[k] = store[k]
                           \/ /\ store'[k].status = "unknown"
                              /\ store[k].status # "absent"
    <3>1. CASE Transition(main.job, "unknown")
      BY <1>0, <3>1, TransitionIs
    <3>2. CASE UNCHANGED <<store, files>>
      BY <3>2, FilesKept DEF TypeOK
    <3> QED
      BY <1>2, <3>1, <3>2 DEF RecoversCreatedJob
  <2>2. main' \in Main /\ main'.pc = "recover_closing"
    BY <1>0, <1>2, ContinueIs DEF RecoversCreatedJob
  <2> QED
    BY <1>2, <2>1, <2>2
      DEF RecoversCreatedJob, Busy, Recovering, TypeOK, Recovers, LostGrows,
          counters
<1>3. CASE ClosesCreation
  <2>1. /\ creation' \in [Jobs -> Phases \cup {"lost"}] /\ LostGrows
        /\ \A k \in Jobs : creation'[k] = "none" => creation[k] = "none"
    BY <1>0, <1>3, WritesCreationIs DEF ClosesCreation
  <2>2. main' \in Main /\ main'.pc \in {"recover_creation", "recover_approval"}
    BY <1>0, <1>3, OnwardIs DEF ClosesCreation
  <2> QED
    BY <1>3, <2>1, <2>2
      DEF ClosesCreation, Busy, Recovering, TypeOK, Recovers, LostGrows,
          counters
<1>4. CASE ClosesApproval
  <2>1. approval' \in [Jobs -> [Requests -> Phases]] /\ LostGrows
    <3>1. CASE UNCHANGED <<approval, files>>
      BY <3>1, FilesKept DEF TypeOK
    <3>2. CASE WritesApproval(main.job, main.request + 1, "completed")
      BY <1>0, <3>2, WritesApprovalIs
    <3> QED
      BY <1>4, <3>1, <3>2 DEF ClosesApproval
  <2>2. main' \in Main /\ main'.pc \in {"recover_approval", "recover_orphans"}
    <3>1. CASE Onward("recover_approval", "recover_orphans")
      BY <1>0, <3>1, OnwardIs
    <3>2. CASE /\ main.request + 1 < MaxRequests
               /\ main' = [main EXCEPT !.request = main.request + 1]
      <4>1. main.request + 1 \in Requests
        BY <3>2, MainTyped, JobAssumption DEF Requests
      <4> QED
        BY <1>0, <1>4, <3>2, <4>1 DEF ClosesApproval, Busy, Main
    <3> QED
      BY <1>4, <3>1, <3>2 DEF ClosesApproval
  <2> QED
    BY <1>4, <2>1, <2>2
      DEF ClosesApproval, Busy, Recovering, TypeOK, Recovers, LostGrows,
          counters
<1>5. CASE RecoversOrphan
  <2>1. /\ store' \in [Jobs -> JobRecord] /\ LostGrows
        /\ \A k \in Jobs : \/ store'[k] = store[k]
                           \/ /\ store'[k].status = "unknown"
                              /\ store[k].status # "absent"
    <3>1. CASE Transition(main.job, "unknown")
      BY <1>0, <3>1, TransitionIs
    <3>2. CASE UNCHANGED <<store, files>>
      BY <3>2, FilesKept DEF TypeOK
    <3> QED
      BY <1>5, <3>1, <3>2 DEF RecoversOrphan
  <2>2. /\ main' \in Main
        /\ main'.pc \in {"recover_orphans", "recover_orphan_handle",
                         "recover_outcomes"}
    BY <1>0, <1>5, ContinueIs, OnwardIs DEF RecoversOrphan
  <2> QED
    BY <1>5, <2>1, <2>2
      DEF RecoversOrphan, Busy, Recovering, TypeOK, Recovers, LostGrows,
          counters
<1>6. CASE RecoversOrphanHandle
  <2>1. lineage' \in [Jobs -> Handles] /\ LostGrows
    <3>1. CASE PutHandle(main.job, "unknown")
      BY <1>0, <3>1, PutHandleIs
    <3>2. CASE UNCHANGED <<lineage, files>>
      BY <3>2, FilesKept DEF TypeOK, Handles
    <3> QED
      BY <1>6, <3>1, <3>2 DEF RecoversOrphanHandle
  <2>2. main' \in Main /\ main'.pc \in {"recover_orphans", "recover_outcomes"}
    BY <1>0, <1>6, OnwardIs DEF RecoversOrphanHandle
  <2> QED
    BY <1>6, <2>1, <2>2
      DEF RecoversOrphanHandle, Handles, Busy, Recovering, TypeOK, Recovers,
          LostGrows, counters
<1>7. CASE RecoversOutcome
  <2>1. /\ outcome' \in [Jobs -> Terminal \cup {"none", "lost"}]
        /\ LostGrows
    BY <1>0, <1>7, EmitIs DEF RecoversOutcome
  <2>2. /\ main' \in Main
        /\ main'.pc \in {"recover_outcomes", "recover_canceled", "idle"}
    BY <1>7, OutcomeFollows DEF RecoversOutcome
  <2> QED
    BY <1>7, <2>1, <2>2
      DEF RecoversOutcome, Busy, Recovering, TypeOK, Recovers, LostGrows,
          counters
<1>8. CASE OutcomeIsSwallowed
  <2>1. LostGrows
    BY <1>0, <1>8, FilesAre, SwallowsIs DEF OutcomeIsSwallowed
  <2>2. /\ main' \in Main
        /\ main'.pc \in {"recover_outcomes", "recover_canceled", "idle"}
    BY <1>8, OutcomeFollows DEF OutcomeIsSwallowed
  <2>3. faults' \in 0..MaxFaults
    BY <1>8, JobAssumption DEF OutcomeIsSwallowed, TypeOK
  <2> QED
    BY <1>8, <2>1, <2>2, <2>3
      DEF OutcomeIsSwallowed, Busy, Recovering, TypeOK, Recovers, LostGrows,
          counters
<1>9. CASE RecoversCanceledHandle
  <2>1. lineage' \in [Jobs -> Handles] /\ LostGrows
    <3>1. CASE PutHandle(main.job, "completed")
      BY <1>0, <3>1, PutHandleIs
    <3>2. CASE UNCHANGED <<lineage, files>>
      BY <3>2, FilesKept DEF TypeOK, Handles
    <3> QED
      BY <1>9, <3>1, <3>2 DEF RecoversCanceledHandle
  <2>2. main' \in Main /\ main'.pc \in {"recover_outcomes", "idle"}
    BY <1>0, <1>9, OnwardIs DEF RecoversCanceledHandle
  <2> QED
    BY <1>9, <2>1, <2>2
      DEF RecoversCanceledHandle, Handles, Busy, Recovering, TypeOK, Recovers,
          LostGrows, counters
<1> QED
  BY <1>1, <1>2, <1>3, <1>4, <1>5, <1>6, <1>7, <1>8, <1>9 DEF RecoveryStep

(* What recovery leaves of a job.                                          *)
Settled(j) ==
    /\ CreationClosed(j)
    /\ \A r \in Requests : ApprovalClosed(j, r)
    /\ NoOrphan(j)
    /\ HasOutcome(j)

LEMMA PassesCarry ==
  ASSUME LostGrows, NEW k \in Jobs
  PROVE  /\ CreationClosed(k) /\ creation'[k] = creation[k] =>
               CreationClosed(k)'
         /\ \A r \in Requests :
               ApprovalClosed(k, r) /\ approval'[k][r] = approval[k][r] =>
                  ApprovalClosed(k, r)'
         /\ NoOrphan(k) /\ store'[k] = store[k] => NoOrphan(k)'
         /\ /\ HasOutcome(k) /\ store'[k] = store[k]
            /\ outcome'[k] = outcome[k]
            => HasOutcome(k)'
<1>1. /\ InJobs(k)' => InJobs(k)
      /\ k \notin lost'["journal"] => k \notin lost["journal"]
      /\ k \notin lost'["outcomes"] => k \notin lost["outcomes"]
  BY MissingStays
<1>2. CreationClosed(k) /\ creation'[k] = creation[k] => CreationClosed(k)'
  BY <1>1 DEF CreationClosed, Unresolved
<1>3. \A r \in Requests :
         ApprovalClosed(k, r) /\ approval'[k][r] = approval[k][r] =>
            ApprovalClosed(k, r)'
  BY <1>1 DEF ApprovalClosed, Unresolved
<1>4. NoOrphan(k) /\ store'[k] = store[k] => NoOrphan(k)'
  BY <1>1 DEF NoOrphan
<1>5. /\ HasOutcome(k) /\ store'[k] = store[k] /\ outcome'[k] = outcome[k]
      => HasOutcome(k)'
  BY <1>1 DEF HasOutcome
<1> QED
  BY <1>2, <1>3, <1>4, <1>5

(* A step of recovery moves its pass on, and the last one leaves every job *)
(* settled.                                                                *)
LEMMA RecoveryAdvances ==
  ASSUME TypeOK, JobInv, RecoveryStep
  PROVE  PassesInv' /\ (main'.pc = "idle" => \A k \in Jobs : Settled(k)')
<1>0. /\ main.job \in Jobs /\ LostGrows /\ PassesInv
      /\ {"recover_creation", "recover_created_job", "recover_closing",
          "recover_approval", "recover_orphans", "recover_orphan_handle",
          "recover_outcomes", "recover_canceled", "idle"} \subseteq MainSteps
  BY MainTyped, RecoveryStepIs DEF Recovers, JobInv, RecoveryInv, MainSteps
<1>1. CASE RecoversHandle
  <2>1. \A k \in Jobs : k < main.job => CreationClosed(k)'
    BY <1>0, <1>1, PassesCarry
      DEF RecoversHandle, Busy, PassesInv, CreationPass
  <2>2. CASE Continue("recover_created_job")
    BY <1>0, <2>1, <2>2, MainTyped, ContinueIs
      DEF PassesInv, CreationPass, ApprovalPass, OrphanPass, OutcomePass
  <2>3. CASE /\ ~ Unresolved(creation[main.job])
             /\ Onward("recover_creation", "recover_approval")
    <3>1. \A k \in Jobs : k = main.job => CreationClosed(k)'
      BY <1>1, <2>3 DEF RecoversHandle, CreationClosed, Unresolved
    <3>2. /\ main'.request = 0
          /\ \/ /\ main'.pc = "recover_creation"
                /\ \A k \in Jobs : k < main'.job => CreationClosed(k)'
             \/ /\ main'.pc = "recover_approval"
                /\ \A k \in Jobs : CreationClosed(k)' /\ ~ (k < main'.job)
      BY <1>0, <2>1, <2>3, <3>1, OnwardIs
    <3>3. \A r \in Requests : ~ (r <= 0)
      BY DEF Requests
    <3> QED
      BY <3>2, <3>3
        DEF PassesInv, CreationPass, ApprovalPass, OrphanPass, OutcomePass
  <2> QED
    BY <1>1, <2>2, <2>3 DEF RecoversHandle
<1>2. CASE RecoversCreatedJob
  <2>1. \A k \in Jobs : k < main.job => CreationClosed(k)'
    BY <1>0, <1>2, PassesCarry
      DEF RecoversCreatedJob, Busy, PassesInv, CreationPass
  <2> QED
    BY <1>0, <1>2, <2>1, MainTyped, ContinueIs
      DEF RecoversCreatedJob, PassesInv, CreationPass, ApprovalPass,
          OrphanPass, OutcomePass
<1>3. CASE ClosesCreation
  <2>1. /\ \A k \in Jobs \ {main.job} : creation'[k] = creation[k]
        /\ main.job \notin lost'["journal"] =>
              creation'[main.job] = "completed"
    BY <1>0, <1>3, WritesCreationIs DEF ClosesCreation, Phases
  <2>2. \A k \in Jobs : k = main.job => CreationClosed(k)'
    BY <2>1 DEF CreationClosed, Unresolved
  <2>3. \A k \in Jobs : k # main.job /\ k < main.job => CreationClosed(k)'
    BY <1>0, <1>3, <2>1, PassesCarry
      DEF ClosesCreation, Busy, PassesInv, CreationPass
  <2>4. /\ main'.request = 0
        /\ \/ /\ main'.pc = "recover_creation"
              /\ \A k \in Jobs : k < main'.job => CreationClosed(k)'
           \/ /\ main'.pc = "recover_approval"
              /\ \A k \in Jobs : CreationClosed(k)' /\ ~ (k < main'.job)
    BY <1>0, <1>3, <2>2, <2>3, OnwardIs DEF ClosesCreation
  <2>5. \A r \in Requests : ~ (r <= 0)
    BY DEF Requests
  <2> QED
    BY <2>4, <2>5
      DEF PassesInv, CreationPass, ApprovalPass, OrphanPass, OutcomePass
<1>4. CASE ClosesApproval
  <2> DEFINE r == main.request + 1
  <2>1. \A k \in Jobs : CreationClosed(k)'
    BY <1>0, <1>4, PassesCarry
      DEF ClosesApproval, Busy, PassesInv, ApprovalPass
  <2>2. \A k \in Jobs, q \in Requests :
           (k # main.job \/ q # r) => approval'[k][q] = approval[k][q]
    <3>1. CASE WritesApproval(main.job, r, "completed")
      BY <1>0, <3>1, WritesApprovalIs DEF Phases
    <3>2. CASE approval' = approval
      BY <3>2
    <3> QED
      BY <1>4, <3>1, <3>2 DEF ClosesApproval
  <2>3. \A k \in Jobs, q \in Requests :
           k = main.job /\ q = r => ApprovalClosed(k, q)'
    <3>1. CASE r \in Requests /\ Unresolved(approval[main.job][r])
      <4>1. main.job \notin lost'["journal"] =>
               approval'[main.job][r] = "completed"
        BY <1>0, <1>4, <3>1, WritesApprovalIs DEF ClosesApproval, Phases
      <4> QED
        BY <4>1 DEF ApprovalClosed, Unresolved
    <3>2. CASE r \in Requests /\ ~ Unresolved(approval[main.job][r])
      BY <1>4, <3>2 DEF ClosesApproval, ApprovalClosed, Unresolved
    <3> QED
      BY <3>1, <3>2
  <2>4. \A k \in Jobs, q \in Requests :
           \/ k < main.job
           \/ k = main.job /\ q <= main.request
           => ApprovalClosed(k, q)'
    BY <1>0, <1>4, <2>2, <2>3, PassesCarry
      DEF ClosesApproval, Busy, PassesInv, ApprovalPass
  <2>5. main.request \in Nat /\ MaxRequests \in Nat
    BY MainTyped, JobAssumption DEF Requests
  <2>6. CASE r < MaxRequests /\ main' = [main EXCEPT !.request = r]
    <3>1. main'.pc = "recover_approval" /\ main'.job = main.job
          /\ main'.request = r
      BY <1>4, <2>6, MainTyped DEF Main, ClosesApproval, Busy
    <3>2. \A q \in Requests : q <= r => q <= main.request \/ q = r
      BY <2>5 DEF Requests
    <3>3. \A k \in Jobs, q \in Requests :
             \/ k < main'.job
             \/ k = main'.job /\ q <= main'.request
             => ApprovalClosed(k, q)'
      BY <2>3, <2>4, <3>1, <3>2
    <3> QED
      BY <2>1, <3>1, <3>3
        DEF PassesInv, CreationPass, ApprovalPass, OrphanPass, OutcomePass
  <2>7. CASE /\ ~ (r < MaxRequests)
             /\ Onward("recover_approval", "recover_orphans")
    <3>1. \A q \in Requests : q <= main.request \/ q = r
      BY <2>5, <2>7 DEF Requests
    <3>2. \A k \in Jobs, q \in Requests :
             k < main.job \/ k = main.job => ApprovalClosed(k, q)'
      BY <2>3, <2>4, <3>1
    <3>3. /\ main'.request = 0
          /\ \/ /\ main'.pc = "recover_approval"
                /\ \A k \in Jobs, q \in Requests :
                      k < main'.job => ApprovalClosed(k, q)'
             \/ /\ main'.pc = "recover_orphans"
                /\ \A k \in Jobs : ~ (k < main'.job)
                /\ \A k \in Jobs, q \in Requests : ApprovalClosed(k, q)'
      BY <1>0, <2>7, <3>2, OnwardIs
    <3>4. \A q \in Requests : ~ (q <= 0)
      BY DEF Requests
    <3> QED
      BY <2>1, <3>3, <3>4
        DEF PassesInv, CreationPass, ApprovalPass, OrphanPass, OutcomePass
  <2> QED
    BY <1>4, <2>6, <2>7 DEF ClosesApproval
<1>5. CASE RecoversOrphan
  <2>1. \A k \in Jobs : /\ CreationClosed(k)'
                        /\ \A r \in Requests : ApprovalClosed(k, r)'
    BY <1>0, <1>5, PassesCarry DEF RecoversOrphan, Busy, PassesInv, OrphanPass
  <2>2. CASE /\ Orphaned(main.job)
             /\ Transition(main.job, "unknown")
             /\ Continue("recover_orphan_handle")
    <3>1. /\ \A k \in Jobs \ {main.job} : store'[k] = store[k]
          /\ main.job \notin lost'["jobs"] =>
                store'[main.job].status = "unknown"
      BY <1>0, <2>2, TransitionIs DEF Orphaned, Terminal
    <3>2. \A k \in Jobs : k = main.job => NoOrphan(k)'
      BY <3>1 DEF NoOrphan, InJobs, Unserved
    <3>3. \A k \in Jobs : k # main.job /\ k < main.job => NoOrphan(k)'
      BY <1>0, <1>5, <3>1, PassesCarry
        DEF RecoversOrphan, Busy, PassesInv, OrphanPass
    <3>4. main'.pc = "recover_orphan_handle" /\ main'.job = main.job
      BY <1>0, <2>2, MainTyped, ContinueIs
    <3> QED
      BY <2>1, <3>2, <3>3, <3>4
        DEF PassesInv, CreationPass, ApprovalPass, OrphanPass, OutcomePass
  <2>3. CASE /\ ~ Orphaned(main.job)
             /\ store' = store
             /\ Onward("recover_orphans", "recover_outcomes")
    <3>1. \A k \in Jobs : k = main.job => NoOrphan(k)'
      BY <2>3 DEF NoOrphan, Orphaned, Unserved
    <3>2. \A k \in Jobs : k < main.job => NoOrphan(k)'
      BY <1>0, <1>5, <2>3, PassesCarry
        DEF RecoversOrphan, Busy, PassesInv, OrphanPass
    <3>3. \/ /\ main'.pc = "recover_orphans"
              /\ \A k \in Jobs : k < main'.job => NoOrphan(k)'
           \/ /\ main'.pc = "recover_outcomes"
              /\ \A k \in Jobs : NoOrphan(k)' /\ ~ (k < main'.job)
      BY <1>0, <2>3, <3>1, <3>2, OnwardIs
    <3> QED
      BY <2>1, <3>3
        DEF PassesInv, CreationPass, ApprovalPass, OrphanPass, OutcomePass
  <2> QED
    BY <1>5, <2>2, <2>3 DEF RecoversOrphan
<1>6. CASE RecoversOrphanHandle
  <2>1. \A k \in Jobs : /\ CreationClosed(k)'
                        /\ \A r \in Requests : ApprovalClosed(k, r)'
    BY <1>0, <1>6, PassesCarry
      DEF RecoversOrphanHandle, Busy, PassesInv, OrphanPass
  <2>2. \A k \in Jobs : k < main.job \/ k = main.job => NoOrphan(k)'
    BY <1>0, <1>6, PassesCarry
      DEF RecoversOrphanHandle, Busy, PassesInv, OrphanPass
  <2>3. \/ /\ main'.pc = "recover_orphans"
              /\ \A k \in Jobs : k < main'.job => NoOrphan(k)'
           \/ /\ main'.pc = "recover_outcomes"
              /\ \A k \in Jobs : NoOrphan(k)' /\ ~ (k < main'.job)
    BY <1>0, <1>6, <2>2, OnwardIs DEF RecoversOrphanHandle
  <2> QED
    BY <2>1, <2>3
      DEF PassesInv, CreationPass, ApprovalPass, OrphanPass, OutcomePass
<1>7. CASE RecoversOutcome
  <2>1. \A k \in Jobs : /\ CreationClosed(k)' /\ NoOrphan(k)'
                        /\ \A r \in Requests : ApprovalClosed(k, r)'
    BY <1>0, <1>7, PassesCarry
      DEF RecoversOutcome, Busy, PassesInv, OutcomePass
  <2>2. /\ \A k \in Jobs \ {main.job} : outcome'[k] = outcome[k]
        /\ store[main.job].status \in Terminal => outcome'[main.job] # "none"
        /\ outcome'[main.job] # outcome[main.job] =>
              \/ outcome'[main.job] \in Terminal
              \/ main.job \in lost'["outcomes"]
        /\ outcome' \in [Jobs -> Terminal \cup {"none", "lost"}]
        /\ store' = store
    BY <1>0, <1>7, EmitIs DEF RecoversOutcome
  <2>3. \A k \in Jobs : k # main.job /\ k < main.job => HasOutcome(k)'
    BY <1>0, <1>7, <2>2, PassesCarry
      DEF RecoversOutcome, Busy, PassesInv, OutcomePass
  <2>4. \A k \in Jobs : k = main.job => HasOutcome(k)'
    <3>1. outcome[main.job] = "lost" => main.job \in lost'["outcomes"]
      BY <1>0, MissingStays DEF JobInv, RecoveryInv
    <3> QED
      BY <1>0, <2>2, <3>1 DEF HasOutcome
  <2>5. CASE Continue("recover_canceled")
    <3>1. main'.pc = "recover_canceled" /\ main'.job = main.job
      BY <1>0, <2>5, MainTyped, ContinueIs
    <3> QED
      BY <2>1, <2>3, <2>4, <3>1
        DEF PassesInv, CreationPass, ApprovalPass, OrphanPass, OutcomePass
  <2>6. CASE Onward("recover_outcomes", "idle")
    <3>1. \/ /\ main'.pc = "recover_outcomes"
             /\ \A k \in Jobs : k < main'.job => HasOutcome(k)'
          \/ main'.pc = "idle" /\ \A k \in Jobs : HasOutcome(k)'
      BY <1>0, <2>3, <2>4, <2>6, OnwardIs
    <3> QED
      BY <2>1, <3>1
        DEF Settled, PassesInv, CreationPass, ApprovalPass, OrphanPass,
            OutcomePass
  <2> QED
    BY <1>7, <2>5, <2>6, OutcomeFollows DEF RecoversOutcome
<1>8. CASE OutcomeIsSwallowed
  <2>1. \A k \in Jobs : /\ CreationClosed(k)' /\ NoOrphan(k)'
                        /\ \A r \in Requests : ApprovalClosed(k, r)'
    BY <1>0, <1>8, PassesCarry
      DEF OutcomeIsSwallowed, Busy, PassesInv, OutcomePass
  <2>2. main.job \in lost'["outcomes"]
    BY <1>0, <1>8, SwallowsIs, FilesAre DEF OutcomeIsSwallowed
  <2>3. \A k \in Jobs : k # main.job /\ k < main.job => HasOutcome(k)'
    BY <1>0, <1>8, PassesCarry
      DEF OutcomeIsSwallowed, Busy, PassesInv, OutcomePass
  <2>4. \A k \in Jobs : k = main.job => HasOutcome(k)'
    BY <2>2 DEF HasOutcome
  <2>5. CASE Continue("recover_canceled")
    <3>1. main'.pc = "recover_canceled" /\ main'.job = main.job
      BY <1>0, <2>5, MainTyped, ContinueIs
    <3> QED
      BY <2>1, <2>3, <2>4, <3>1
        DEF PassesInv, CreationPass, ApprovalPass, OrphanPass, OutcomePass
  <2>6. CASE Onward("recover_outcomes", "idle")
    <3>1. \/ /\ main'.pc = "recover_outcomes"
             /\ \A k \in Jobs : k < main'.job => HasOutcome(k)'
          \/ main'.pc = "idle" /\ \A k \in Jobs : HasOutcome(k)'
      BY <1>0, <2>3, <2>4, <2>6, OnwardIs
    <3> QED
      BY <2>1, <3>1
        DEF Settled, PassesInv, CreationPass, ApprovalPass, OrphanPass,
            OutcomePass
  <2> QED
    BY <1>8, <2>5, <2>6, OutcomeFollows DEF OutcomeIsSwallowed
<1>9. CASE RecoversCanceledHandle
  <2>1. \A k \in Jobs : /\ CreationClosed(k)' /\ NoOrphan(k)'
                        /\ \A r \in Requests : ApprovalClosed(k, r)'
    BY <1>0, <1>9, PassesCarry
      DEF RecoversCanceledHandle, Busy, PassesInv, OutcomePass
  <2>2. \A k \in Jobs : k < main.job \/ k = main.job => HasOutcome(k)'
    BY <1>0, <1>9, PassesCarry
      DEF RecoversCanceledHandle, Busy, PassesInv, OutcomePass
  <2>3. \/ /\ main'.pc = "recover_outcomes"
           /\ \A k \in Jobs : k < main'.job => HasOutcome(k)'
        \/ main'.pc = "idle" /\ \A k \in Jobs : HasOutcome(k)'
    BY <1>0, <1>9, <2>2, OnwardIs DEF RecoversCanceledHandle
  <2> QED
    BY <2>1, <2>3
      DEF Settled, PassesInv, CreationPass, ApprovalPass, OrphanPass,
          OutcomePass
<1> QED
  BY <1>1, <1>2, <1>3, <1>4, <1>5, <1>6, <1>7, <1>8, <1>9 DEF RecoveryStep

(* Recovery keeps the invariant of the jobs.                               *)
LEMMA RecoveryKeepsJobs ==
  ASSUME TypeOK, JobInv, RecoveryStep
  PROVE  JobInv'
<1>1. Recovers /\ Recovering /\ main.job \in Jobs
  BY RecoveryStepIs, MainTyped
<1>2. /\ LostGrows /\ runtime' = runtime /\ worker' = worker
      /\ \A k \in Jobs : /\ ~ runtime[k] /\ worker[k].pc = "none"
                         /\ worker[k].announce # "parked"
      /\ \A k \in Jobs : \/ store'[k] = store[k]
                         \/ /\ store'[k].status = "unknown"
                            /\ store[k].status # "absent"
      /\ \A k \in Jobs : creation'[k] = "none" => creation[k] = "none"
  BY <1>1 DEF Recovers, JobInv, RecoveryInv, WorkersIn, PlaceInv
<1>3. main'.pc \notin StartSteps \cup {"waiting", "gate_runtimes",
                                      "gate_journal", "discarding"}
  BY <1>1 DEF Recovers, StartSteps
<1>4. \A k \in Jobs : NoOrphan(k)' \/ Recovering'
  BY <1>1, RecoveryAdvances DEF Recovers, Recovering, Settled
<1>5. OneClaim'
  <2>1. \A k \in Jobs : Claimed(k)' => Claimed(k)
    BY <1>2, <1>3, <1>4 DEF Claimed, NoOrphan
  <2> QED
    BY <2>1 DEF JobInv, OneClaim
<1>6. FreshJobs' /\ Unpromoted'
  BY <1>2 DEF JobInv, FreshJobs, Unpromoted, NotStarted
<1>7. GateInv' /\ StartInv'
  BY <1>3 DEF GateInv, StartInv, StartSteps
<1>8. WorkersIn'
  BY <1>2, WorkersCarry DEF JobInv
<1>9. ServedInv'
  BY <1>4 DEF ServedInv, NoOrphan
<1>10. RecoveryInv'
  <2>1. \A k \in Jobs : outcome'[k] = "lost" => k \in lost'["outcomes"]
    <3>1. \A k \in Jobs : outcome[k] = "lost" => k \in lost'["outcomes"]
      BY <1>2, MissingStays DEF JobInv, RecoveryInv
    <3>2. CASE RecoversOutcome
      <4>1. /\ \A k \in Jobs \ {main.job} : outcome'[k] = outcome[k]
            /\ outcome'[main.job] # outcome[main.job] =>
                  \/ outcome'[main.job] \in Terminal
                  \/ main.job \in lost'["outcomes"]
        BY <1>1, <3>2, EmitIs DEF RecoversOutcome
      <4> QED
        BY <3>1, <4>1 DEF Terminal
    <3>3. CASE outcome' = outcome
      BY <3>1, <3>3
    <3> QED
      BY <3>2, <3>3
        DEF RecoveryStep, RecoversHandle, RecoversCreatedJob, ClosesCreation,
            ClosesApproval, RecoversOrphan, RecoversOrphanHandle,
            OutcomeIsSwallowed, RecoversCanceledHandle
  <2>2. \A r \in Requests : registry'[r] = NoEntry
    BY <1>1 DEF Recovers, JobInv, RecoveryInv
  <2> QED
    BY <1>2, <2>1, <2>2, RecoveryAdvances DEF RecoveryInv
<1> QED
  BY <1>5, <1>6, <1>7, <1>8, <1>9, <1>10 DEF JobInv

----------------------------------------------------------------------------
(* Requests.                                                               *)

Answered(j) ==
    At(j, "turn") /\ worker[j].captured # 0 /\ InRequests(j) =>
        /\ psr[worker[j].captured].status \in Answers
        /\ psr[worker[j].captured].job = j

OpenStates == {"awaiting", "reserved"}

LEMMA ZeroIsNoRequest == \A r \in Requests : r # 0
  BY JobAssumption DEF Requests

LEMMA NamesFollow == HandlersInv => RequestsNamed
  BY DEF HandlersInv, HandlesOwn, RequestsNamed

(* What the worker of a job keeps true of its own request.                 *)
LEMMA OwnRequest ==
  ASSUME TypeOK, RequestsNamed, NEW j \in Jobs, PlaceInv(j), StatusInv(j),
         HandlesOwn(j), Answered(j),
         WorkerStep(j) \/ WriteRaises(j) \/ WriteIsSwallowed(j)
  PROVE  HandlesOwn(j)' /\ Answered(j)'
<1>0. /\ InJobs(j)' => InJobs(j)
      /\ InRequests(j)' => InRequests(j)
      /\ InJobs(j) /\ worker[j].pc # "none" => store[j].status # "absent"
      /\ worker[j].request \in Requests \cup {0}
  BY WorkerStepIs, MissingStays, WorkerTyped DEF Frame, StatusInv
<1>1. CASE BeginsTurn(j)
  <2>1. worker'[j].pc = "turn" /\ worker'[j].captured = worker[j].captured
        /\ worker[j].pc = "spawned"
    BY <1>1, GoToIs DEF BeginsTurn, At, WorkerSteps
  <2> QED
    BY <2>1 DEF HandlesOwn, Answered, At, HandlerSteps
<1>2. CASE \E kind \in ParkableKinds : ParkableArrives(j, kind)
  <2>1. PICK kind \in ParkableKinds : ParkableArrives(j, kind)
    BY <1>2
  <2>2. /\ worker'[j].pc = "parking" /\ worker'[j].request \in Requests
        /\ worker'[j].captured = worker'[j].request
        /\ InRequests(j)' =>
              psr'[worker'[j].request] = [status |-> "pending", job |-> j]
    BY <2>1, ParkableArrivesIs DEF InRequests
  <2>3. worker'[j].request # 0
    BY <2>2, ZeroIsNoRequest
  <2>4. InRequests(j)' =>
           /\ psr'[worker'[j].request].status = "pending"
           /\ psr'[worker'[j].request].job = j
    BY <2>2
  <2> QED
    BY <2>2, <2>3, <2>4 DEF HandlesOwn, Answered, At, HandlerSteps
<1>3. CASE \E kind \in UnknownKinds : UnknownArrives(j, kind)
  <2>1. worker'[j].pc = "interrupting"
    BY <1>3, UnknownArrivesIs
  <2> QED
    BY <2>1 DEF HandlesOwn, Answered, At, HandlerSteps
<1>4. CASE Interrupts(j)
  <2>1. worker'[j].pc \in {"settling", "interrupted"}
    BY <1>4, InterruptsIs DEF Interrupts
  <2> QED
    BY <2>1 DEF HandlesOwn, Answered, At, HandlerSteps
<1>5. CASE TurnRaises(j)
  <2>1. worker'[j].pc \in {"settling"}
    BY <1>5, FailsIs DEF TurnRaises
  <2> QED
    BY <2>1 DEF HandlesOwn, Answered, At, HandlerSteps
<1>6. CASE Parks(j)
  <2>1. /\ InJobs(j)' => store'[j].parked = worker[j].request
        /\ psr' = psr /\ worker[j].pc = "parking"
    BY <1>0, <1>6, ParkedIs DEF Parks, At, InJobs
  <2>2. /\ worker'[j].pc = "escalating"
        /\ worker'[j].request = worker[j].request
        /\ worker'[j].captured = worker[j].captured
    BY <1>6, GoToIs DEF Parks, WorkerSteps, HandlerSteps
  <2> QED
    BY <1>0, <2>1, <2>2 DEF HandlesOwn, Answered, At, HandlerSteps
<1>7. CASE Escalates(j)
  <2>1. Persists(j, "needs_escalation", "registering")
    BY <1>7 DEF Escalates
  <2>2. /\ "needs_escalation" \in Active \cup Terminal
        /\ "registering" \in WorkerSteps
    BY DEF Active, WorkerSteps, HandlerSteps
  <2>3. \/ worker'[j].pc = "settling"
        \/ /\ worker'[j].pc = "registering"
           /\ worker'[j].request = worker[j].request
           /\ worker'[j].captured = worker[j].captured
           /\ store'[j].parked = store[j].parked
           /\ InJobs(j)' => store'[j].status = "needs_escalation"
    BY <2>1, <2>2, PersistsIs DEF InJobs
  <2>4. psr' = psr /\ worker[j].pc = "escalating"
    BY <1>7 DEF Escalates, At
  <2> QED
    BY <1>0, <2>3, <2>4 DEF HandlesOwn, Answered, At, HandlerSteps
<1>8. CASE Registers(j)
  <2>1. store' = store /\ psr' = psr /\ worker[j].pc = "registering"
    BY <1>8 DEF Registers, At, durable
  <2> QED
    BY <1>0, <1>8, <2>1, RegistersIs DEF HandlesOwn, Answered, At, HandlerSteps
<1>9. CASE AnnouncesPark(j)
  <2>1. store' = store /\ psr' = psr /\ worker[j].pc = "announcing"
    BY <1>9 DEF AnnouncesPark, At, durable
  <2>2. /\ worker'[j].pc = "waiting"
        /\ worker'[j].request = worker[j].request
        /\ worker'[j].captured = worker[j].captured
    BY <1>9, GoToIs DEF AnnouncesPark, WorkerSteps, HandlerSteps
  <2> QED
    BY <1>0, <2>1, <2>2 DEF HandlesOwn, Answered, At, HandlerSteps
<1>10. CASE Wakes(j)
  <2>1. worker[j].request \in Requests
    BY <1>10, WorkerTyped DEF Wakes, At, RequestsNamed, HandlerSteps
  <2>2. store' = store /\ psr' = psr /\ worker[j].pc = "waiting"
    BY <1>10 DEF Wakes, At, durable
  <2> QED
    BY <1>0, <1>10, <2>1, <2>2, WakesIs
      DEF HandlesOwn, Answered, At, HandlerSteps
<1>11. CASE WritesIntent(j)
  <2>1. store' = store /\ psr' = psr /\ worker[j].pc = "intending"
    BY <1>11 DEF WritesIntent, At
  <2>2. /\ worker'[j].pc \in {"dispatching", "resuming"}
        /\ worker'[j].request = worker[j].request
        /\ worker'[j].captured = worker[j].captured
    BY <1>11, GoToIs DEF WritesIntent, WorkerSteps, HandlerSteps
  <2> QED
    BY <1>0, <2>1, <2>2 DEF HandlesOwn, Answered, At, HandlerSteps
<1>12. CASE Resumes(j)
  <2>1. store'[j].parked = store[j].parked
    BY <1>12, TransitionIs DEF Resumes, Active
  <2>2. /\ worker'[j].pc = "dispatching"
        /\ worker'[j].request = worker[j].request
        /\ worker'[j].captured = worker[j].captured
    BY <1>12, GoToIs DEF Resumes, WorkerSteps, HandlerSteps
  <2>3. psr' = psr /\ worker[j].pc = "resuming"
    BY <1>12 DEF Resumes, At
  <2> QED
    BY <1>0, <2>1, <2>2, <2>3 DEF HandlesOwn, Answered, At, HandlerSteps
<1>13. CASE WritesDispatched(j)
  <2>1. store' = store /\ psr' = psr /\ worker[j].pc = "dispatching"
    BY <1>13 DEF WritesDispatched, At
  <2>2. /\ worker'[j].pc \in {"recording", "responding"}
        /\ worker'[j].request = worker[j].request
        /\ worker'[j].captured = worker[j].captured
    BY <1>13, GoToIs DEF WritesDispatched, WorkerSteps, HandlerSteps
  <2> QED
    BY <1>0, <2>1, <2>2 DEF HandlesOwn, Answered, At, HandlerSteps
<1>14. CASE \E works \in BOOLEAN : Responds(j, works)
  <2>1. PICK works \in BOOLEAN : Responds(j, works)
    BY <1>14
  <2>2. store' = store /\ psr' = psr /\ worker[j].pc = "responding"
    BY <2>1 DEF Responds, At, durable
  <2> QED
    BY <1>0, <2>1, <2>2, RespondsIs DEF HandlesOwn, Answered, At, HandlerSteps
<1>15. CASE RecordsAnswer(j)
  <2>1. worker[j].request \in Requests
    BY <1>15, WorkerTyped DEF RecordsAnswer, At, RequestsNamed, HandlerSteps
  <2>2. store' = store /\ worker[j].pc = "recording"
    BY <1>15 DEF RecordsAnswer, At
  <2>3. /\ worker'[j].pc = "unparking"
        /\ worker'[j].request = worker[j].request
        /\ worker'[j].captured = worker[j].captured
    BY <1>15, GoToIs DEF RecordsAnswer, WorkerSteps, HandlerSteps
  <2>4. InRequests(j) =>
            /\ psr[worker[j].request].status = "pending"
            /\ psr[worker[j].request].job = j
    BY <2>2 DEF HandlesOwn, HandlerSteps
  <2>5. /\ psr'[worker[j].request].job = psr[worker[j].request].job
        /\ InRequests(j)' => psr'[worker[j].request].status \in Answers
    BY <1>0, <1>15, <2>1, <2>4, RecordsAnswerIs DEF InRequests
  <2> QED
    BY <1>0, <2>2, <2>3, <2>4, <2>5 DEF HandlesOwn, Answered, At, HandlerSteps
<1>16. CASE Unparks(j)
  <2>1. TRUE /\ psr' = psr /\ worker[j].pc = "unparking"
    BY <1>16 DEF Unparks, At
  <2>2. /\ worker'[j].pc = "completing"
        /\ worker'[j].request = worker[j].request
        /\ worker'[j].captured = worker[j].captured
    BY <1>16, GoToIs DEF Unparks, WorkerSteps, HandlerSteps
  <2> QED
    BY <1>0, <2>1, <2>2 DEF HandlesOwn, Answered, At, HandlerSteps
<1>17. CASE WritesCompleted(j)
  <2>1. TRUE /\ psr' = psr /\ worker[j].pc = "completing"
    BY <1>17 DEF WritesCompleted, At
  <2>2. /\ worker'[j].pc = "discarding"
        /\ worker'[j].request = worker[j].request
        /\ worker'[j].captured = worker[j].captured
    BY <1>17, GoToIs DEF WritesCompleted, WorkerSteps, HandlerSteps
  <2> QED
    BY <1>0, <2>1, <2>2 DEF HandlesOwn, Answered, At, HandlerSteps
<1>18. CASE Discards(j)
  <2>1. store' = store /\ psr' = psr /\ worker[j].pc = "discarding"
        /\ lost' = lost
    BY <1>18 DEF Discards, At, durable, files
  <2>2. InRequests(j) =>
            /\ psr[worker[j].captured].status \in Answers
            /\ psr[worker[j].captured].job = j
    BY <2>1 DEF HandlesOwn, HandlerSteps
  <2>3. \/ worker'[j].pc = "settling"
        \/ worker'[j].pc = "turn" /\ worker'[j].captured = worker[j].captured
    BY <1>18, DiscardsIs
  <2> QED
    BY <1>0, <2>1, <2>2, <2>3 DEF HandlesOwn, Answered, At, HandlerSteps
<1>19. CASE Settles(j)
  <2>1. worker[j].final \in Terminal
    BY <1>19 DEF Settles, At, PlaceInv, SettleSteps
  <2>2. worker'[j].pc \in {"settling", "settle_outcome"}
    BY <1>19, <2>1, SettlesIs
  <2> QED
    BY <2>2 DEF HandlesOwn, Answered, At, HandlerSteps
<1>20. CASE SettlesOutcome(j)
  <2>1. worker'[j].pc \in {"settle_lineage"}
    BY <1>20, GoToIs DEF SettlesOutcome, WorkerSteps, SettleSteps, FinalSteps
  <2> QED
    BY <2>1 DEF HandlesOwn, Answered, At, HandlerSteps
<1>21. CASE SettlesLineage(j)
  <2>1. worker'[j].pc \in {"settle_announce", "settle_release"}
    BY <1>21, AfterSettlingIs DEF SettlesLineage
  <2> QED
    BY <2>1 DEF HandlesOwn, Answered, At, HandlerSteps
<1>22. CASE SettlesRuntime(j)
  <2>1. worker'[j].pc \in {"settle_announce"}
    BY <1>22, GoToIs DEF SettlesRuntime, WorkerSteps, SettleSteps, FinalSteps
  <2> QED
    BY <2>1 DEF HandlesOwn, Answered, At, HandlerSteps
<1>23. CASE SettlesAnnouncement(j)
  <2>1. worker'[j].pc \in {"interrupted", "finished"}
    BY <1>23, SettlesAnnouncementIs DEF SettlesAnnouncement
  <2> QED
    BY <2>1 DEF HandlesOwn, Answered, At, HandlerSteps
<1>24. CASE \E result \in TurnResults : TurnEnds(j, result)
  <2>1. PICK result \in TurnResults : TurnEnds(j, result)
    BY <1>24
  <2>2. worker'[j].pc = "finalizing"
    BY <2>1, TurnEndsIs
  <2> QED
    BY <2>2 DEF HandlesOwn, Answered, At, HandlerSteps
<1>25. CASE Finalizes(j)
  <2>1. /\ worker[j].final \in Active \cup Terminal
        /\ "final_escalation" \in WorkerSteps
        /\ "final_lineage" \in WorkerSteps
    BY WorkerTyped DEF WorkerSteps, FinalSteps
  <2>2. worker'[j].pc \in {"settling", "final_escalation", "final_lineage"}
    BY <1>25, <2>1, PersistsIs DEF Finalizes
  <2> QED
    BY <2>2 DEF HandlesOwn, Answered, At, HandlerSteps
<1>26. CASE FinalizesEscalation(j)
  <2>1. worker'[j].pc \in {"settle_announce"}
    BY <1>26, AfterFinalizingIs DEF FinalizesEscalation
  <2> QED
    BY <2>1 DEF HandlesOwn, Answered, At, HandlerSteps
<1>27. CASE FinalizesLineage(j)
  <2>1. worker'[j].pc \in {"final_release"}
    BY <1>27, GoToIs DEF FinalizesLineage, WorkerSteps, SettleSteps, FinalSteps
  <2> QED
    BY <2>1 DEF HandlesOwn, Answered, At, HandlerSteps
<1>28. CASE FinalizesRuntime(j)
  <2>1. worker'[j].pc \in {"final_outcome"}
    BY <1>28, GoToIs DEF FinalizesRuntime, WorkerSteps, SettleSteps, FinalSteps
  <2> QED
    BY <2>1 DEF HandlesOwn, Answered, At, HandlerSteps
<1>29. CASE FinalizesOutcome(j)
  <2>1. worker'[j].pc \in {"settle_announce"}
    BY <1>29, AfterFinalizingIs DEF FinalizesOutcome
  <2> QED
    BY <2>1 DEF HandlesOwn, Answered, At, HandlerSteps
<1>30. CASE WriteRaises(j)
  <2>1. worker'[j].pc \in {"settling", "settle_announce"}
    BY <1>30, WriteRaisesIs
  <2> QED
    BY <2>1 DEF HandlesOwn, Answered, At, HandlerSteps
<1>31. CASE WriteIsSwallowed(j)
  <2>1. worker'[j].pc \in {"settle_outcome", "settle_lineage",
                            "settle_announce", "settle_release"}
    BY <1>31, WriteIsSwallowedIs
  <2> QED
    BY <2>1 DEF HandlesOwn, Answered, At, HandlerSteps
<1> QED
  BY <1>1, <1>2, <1>3, <1>4, <1>5, <1>6, <1>7, <1>8, <1>9, <1>10, <1>11, <1>12,
     <1>13, <1>14, <1>15, <1>16, <1>17, <1>18, <1>19, <1>20, <1>21, <1>22,
     <1>23, <1>24, <1>25, <1>26, <1>27, <1>28, <1>29, <1>30, <1>31
    DEF WorkerStep

(* Only register() opens a request, and no worker of another job closes it. *)
LEMMA RegistryStep ==
  ASSUME TypeOK, NEW j \in Jobs,
         WorkerStep(j) \/ WriteRaises(j) \/ WriteIsSwallowed(j)
  PROVE  /\ \A r \in Requests : registry'[r].state \in OpenStates =>
               \/ registry[r].state \in OpenStates
               \/ /\ worker[j].pc = "registering" /\ r = worker[j].request
                  /\ worker'[j].pc = "announcing"
                  /\ worker'[j].request = worker[j].request
                  /\ UNCHANGED durable
         /\ psr' = psr \/ worker[j].pc \in {"turn", "recording", "interrupted"}
         /\ \A r \in Requests : registry[r].state = "reserved" =>
               \/ registry'[r].state = "reserved"
               \/ worker[j].pc = "discarding" /\ r = worker[j].request
<1>1. CASE BeginsTurn(j)
  BY <1>1 DEF BeginsTurn, At, OpenStates
<1>2. CASE \E kind \in ParkableKinds : ParkableArrives(j, kind)
  BY <1>2 DEF ParkableArrives, At, OpenStates
<1>3. CASE \E kind \in UnknownKinds : UnknownArrives(j, kind)
  BY <1>3 DEF UnknownArrives, At, OpenStates
<1>4. CASE Interrupts(j)
  BY <1>4 DEF Interrupts, At, OpenStates, durable
<1>5. CASE TurnRaises(j)
  BY <1>5 DEF TurnRaises, At, OpenStates, durable
<1>6. CASE Parks(j)
  BY <1>6 DEF Parks, At, OpenStates
<1>7. CASE Escalates(j)
  BY <1>7 DEF Escalates, At, OpenStates
<1>8. CASE Registers(j)
  <2>1. UNCHANGED durable /\ worker[j].pc = "registering" /\ psr' = psr
    BY <1>8 DEF Registers, At, durable
  <2>2. \/ /\ worker'[j].pc = "announcing"
           /\ worker'[j].request = worker[j].request
           /\ \A q \in Requests \ {worker[j].request} :
                 registry'[q] = registry[q]
        \/ registry' = registry
    BY <1>8, RegistersIs
  <2>3. registry[worker[j].request].state = "reserved" => registry' = registry
    BY <1>8 DEF Registers
  <2> QED
    BY <2>1, <2>2, <2>3
<1>9. CASE AnnouncesPark(j)
  BY <1>9 DEF AnnouncesPark, At, OpenStates, durable
<1>10. CASE Wakes(j)
  BY <1>10 DEF Wakes, At, OpenStates, durable
<1>11. CASE WritesIntent(j)
  BY <1>11 DEF WritesIntent, At, OpenStates
<1>12. CASE Resumes(j)
  BY <1>12 DEF Resumes, At, OpenStates
<1>13. CASE WritesDispatched(j)
  BY <1>13 DEF WritesDispatched, At, OpenStates
<1>14. CASE \E works \in BOOLEAN : Responds(j, works)
  BY <1>14 DEF Responds, At, OpenStates, durable
<1>15. CASE RecordsAnswer(j)
  BY <1>15 DEF RecordsAnswer, At, OpenStates
<1>16. CASE Unparks(j)
  BY <1>16 DEF Unparks, At, OpenStates
<1>17. CASE WritesCompleted(j)
  BY <1>17 DEF WritesCompleted, At, OpenStates
<1>18. CASE Discards(j)
  <2>1. psr' = psr /\ worker[j].pc = "discarding"
    BY <1>18 DEF Discards, At, durable
  <2>2. \A r \in Requests \ {worker[j].request} : registry'[r] = registry[r]
    BY <1>18, DiscardsIs
  <2>3. worker[j].request \in Requests =>
           registry'[worker[j].request].state = "absent"
    BY <1>18, DiscardsIs
  <2> QED
    BY <2>1, <2>2, <2>3 DEF OpenStates
<1>19. CASE Settles(j)
  BY <1>19 DEF Settles, At, OpenStates
<1>20. CASE SettlesOutcome(j)
  BY <1>20 DEF SettlesOutcome, At, OpenStates
<1>21. CASE SettlesLineage(j)
  BY <1>21 DEF SettlesLineage, At, OpenStates
<1>22. CASE SettlesRuntime(j)
  BY <1>22 DEF SettlesRuntime, At, OpenStates, durable
<1>23. CASE SettlesAnnouncement(j)
  BY <1>23 DEF SettlesAnnouncement, At, OpenStates, durable
<1>24. CASE \E result \in TurnResults : TurnEnds(j, result)
  BY <1>24 DEF TurnEnds, At, OpenStates
<1>25. CASE Finalizes(j)
  BY <1>25 DEF Finalizes, At, OpenStates
<1>26. CASE FinalizesEscalation(j)
  BY <1>26 DEF FinalizesEscalation, At, OpenStates, durable
<1>27. CASE FinalizesLineage(j)
  BY <1>27 DEF FinalizesLineage, At, OpenStates
<1>28. CASE FinalizesRuntime(j)
  BY <1>28 DEF FinalizesRuntime, At, OpenStates, durable
<1>29. CASE FinalizesOutcome(j)
  BY <1>29 DEF FinalizesOutcome, At, OpenStates
<1>30. CASE WriteRaises(j)
  BY <1>30 DEF WriteRaises, At, OpenStates
<1>31. CASE WriteIsSwallowed(j)
  BY <1>31 DEF WriteIsSwallowed, At, OpenStates
<1> QED
  BY <1>1, <1>2, <1>3, <1>4, <1>5, <1>6, <1>7, <1>8, <1>9, <1>10, <1>11, <1>12,
     <1>13, <1>14, <1>15, <1>16, <1>17, <1>18, <1>19, <1>20, <1>21, <1>22,
     <1>23, <1>24, <1>25, <1>26, <1>27, <1>28, <1>29, <1>30, <1>31
    DEF WorkerStep

(* A worker that announces or waits leaves the files alone, and goes on    *)
(* only when its request is decided.                                       *)
LEMMA WaitingStep ==
  ASSUME TypeOK, NEW j \in Jobs, worker[j].pc \in {"announcing", "waiting"},
         WorkerStep(j) \/ WriteRaises(j) \/ WriteIsSwallowed(j)
  PROVE  /\ UNCHANGED durable
         /\ registry' = registry
         /\ \/ /\ worker'[j].pc = "waiting"
               /\ worker'[j].request = worker[j].request
            \/ registry[worker[j].request].state = "decided"
<1>1. CASE BeginsTurn(j)
  BY <1>1 DEF BeginsTurn, At
<1>2. CASE \E kind \in ParkableKinds : ParkableArrives(j, kind)
  BY <1>2 DEF ParkableArrives, At
<1>3. CASE \E kind \in UnknownKinds : UnknownArrives(j, kind)
  BY <1>3 DEF UnknownArrives, At
<1>4. CASE Interrupts(j)
  BY <1>4 DEF Interrupts, At
<1>5. CASE TurnRaises(j)
  BY <1>5 DEF TurnRaises, At
<1>6. CASE Parks(j)
  BY <1>6 DEF Parks, At
<1>7. CASE Escalates(j)
  BY <1>7 DEF Escalates, At
<1>8. CASE Registers(j)
  BY <1>8 DEF Registers, At
<1>9. CASE AnnouncesPark(j)
  BY <1>9, GoToIs DEF AnnouncesPark, At, WorkerSteps, HandlerSteps
<1>10. CASE Wakes(j)
  BY <1>10 DEF Wakes, At
<1>11. CASE WritesIntent(j)
  BY <1>11 DEF WritesIntent, At
<1>12. CASE Resumes(j)
  BY <1>12 DEF Resumes, At
<1>13. CASE WritesDispatched(j)
  BY <1>13 DEF WritesDispatched, At
<1>14. CASE \E works \in BOOLEAN : Responds(j, works)
  BY <1>14 DEF Responds, At
<1>15. CASE RecordsAnswer(j)
  BY <1>15 DEF RecordsAnswer, At
<1>16. CASE Unparks(j)
  BY <1>16 DEF Unparks, At
<1>17. CASE WritesCompleted(j)
  BY <1>17 DEF WritesCompleted, At
<1>18. CASE Discards(j)
  BY <1>18 DEF Discards, At
<1>19. CASE Settles(j)
  BY <1>19 DEF Settles, At
<1>20. CASE SettlesOutcome(j)
  BY <1>20 DEF SettlesOutcome, At
<1>21. CASE SettlesLineage(j)
  BY <1>21 DEF SettlesLineage, At
<1>22. CASE SettlesRuntime(j)
  BY <1>22 DEF SettlesRuntime, At
<1>23. CASE SettlesAnnouncement(j)
  BY <1>23 DEF SettlesAnnouncement, At
<1>24. CASE \E result \in TurnResults : TurnEnds(j, result)
  BY <1>24 DEF TurnEnds, At
<1>25. CASE Finalizes(j)
  BY <1>25 DEF Finalizes, At
<1>26. CASE FinalizesEscalation(j)
  BY <1>26 DEF FinalizesEscalation, At
<1>27. CASE FinalizesLineage(j)
  BY <1>27 DEF FinalizesLineage, At
<1>28. CASE FinalizesRuntime(j)
  BY <1>28 DEF FinalizesRuntime, At
<1>29. CASE FinalizesOutcome(j)
  BY <1>29 DEF FinalizesOutcome, At
<1>30. CASE WriteRaises(j)
  BY <1>30 DEF WriteRaises, WorkerWrites, At
<1>31. CASE WriteIsSwallowed(j)
  BY <1>31 DEF WriteIsSwallowed, At
<1> QED
  BY <1>1, <1>2, <1>3, <1>4, <1>5, <1>6, <1>7, <1>8, <1>9, <1>10, <1>11, <1>12,
     <1>13, <1>14, <1>15, <1>16, <1>17, <1>18, <1>19, <1>20, <1>21, <1>22,
     <1>23, <1>24, <1>25, <1>26, <1>27, <1>28, <1>29, <1>30, <1>31
    DEF WorkerStep

LEMMA FinalizerIs ==
  ASSUME TypeOK
  PROVE  FinalizerFindsAnswer <=> \A j \in Jobs : Answered(j)
<1>1. ASSUME NEW j \in Jobs, worker[j].captured # 0
      PROVE  psr[worker[j].captured] \in RequestRecord
  BY <1>1, WorkerTyped DEF TypeOK
<1> QED
  BY <1>1
    DEF FinalizerFindsAnswer, Answered, Answers, InRequests, RequestRecord

(* The worker that serves a request which can be decided.                  *)
ServesOpen(j, r) ==
    /\ worker[j].pc \in {"announcing", "waiting"}
    /\ worker[j].request = r
    /\ InRequests(j) => psr[r] = [status |-> "pending", job |-> j]
    /\ InJobs(j) => store[j].parked = r /\ store[j].status = "needs_escalation"

LEMMA OpenIs ==
  OpenRequestIsParked <=>
    \A r \in Requests : registry[r].state \in OpenStates =>
        \E j \in Jobs : ServesOpen(j, r)
  BY DEF OpenRequestIsParked, OpenStates, ServesOpen, InJobs, InRequests

(* Two workers cannot be in a handler at once.                             *)
LEMMA OneHandler ==
  ASSUME JobInv, NEW j \in Jobs, NEW k \in Jobs,
         worker[j].pc \in RuntimeSteps, worker[k].pc \in RuntimeSteps
  PROVE  j = k
  BY DEF JobInv, WorkersIn, PlaceInv, OneClaim, Claimed

(* A worker's step keeps the invariant of the requests.                    *)
LEMMA WorkerKeepsTurns ==
  ASSUME TypeOK, JobInv, TurnInv, NEW j \in Jobs,
         WorkerStep(j) \/ WriteRaises(j) \/ WriteIsSwallowed(j)
  PROVE  TurnInv'
<1>1. /\ RequestsNamed
      /\ PlaceInv(j)
      /\ StatusInv(j)
      /\ HandlesOwn(j)
      /\ Answered(j)
  BY NamesFollow, FinalizerIs DEF TurnInv, HandlersInv, JobInv, WorkersIn
<1>2. Frame(j) /\ TypeOK'
  BY <1>1, WorkerStepIs
<1>3. HandlesOwn(j)' /\ Answered(j)'
  BY <1>1, OwnRequest
<1>4. \A k \in Jobs \ {j} : /\ worker'[k] = worker[k] /\ store'[k] = store[k]
  BY <1>2 DEF Frame
<1>m. \A k \in Jobs :
         (InJobs(k)' => InJobs(k)) /\ (InRequests(k)' => InRequests(k))
  BY <1>2, MissingStays DEF Frame
<1>5. psr' # psr => worker[j].pc \in RuntimeSteps
  BY RegistryStep DEF RuntimeSteps, HandlerSteps
<1>6. \A k \in Jobs \ {j} :
         worker[k].pc \in HandlerSteps \cup {"turn"} => psr' = psr
  BY <1>5, OneHandler DEF RuntimeSteps
<1>7. HandlersInv'
  <2>1. ASSUME NEW k \in Jobs, k # j  PROVE HandlesOwn(k)'
    <3>1. HandlesOwn(k) /\ worker'[k] = worker[k] /\ store'[k] = store[k]
      BY <1>4, <2>1 DEF TurnInv, HandlersInv
    <3>2. CASE worker[k].pc \in HandlerSteps
      <4>1. psr' = psr
        BY <1>6, <2>1, <3>2
      <4> QED
        BY <1>m, <3>1, <4>1 DEF HandlesOwn
    <3>3. CASE worker[k].pc \notin HandlerSteps
      BY <3>1, <3>3 DEF HandlesOwn, HandlerSteps
    <3> QED
      BY <3>2, <3>3
  <2> QED
    BY <1>3, <2>1 DEF HandlersInv
<1>8. FinalizerFindsAnswer'
  <2>1. ASSUME NEW k \in Jobs, k # j  PROVE Answered(k)'
    <3>1. Answered(k)
      BY FinalizerIs DEF TurnInv
    <3> QED
      BY <1>4, <1>6, <1>m, <2>1, <3>1 DEF Answered, At
  <2>2. \A k \in Jobs : Answered(k)'
    BY <1>3, <2>1
  <2>3. ASSUME NEW k \in Jobs, worker'[k].captured # 0
        PROVE  psr'[worker'[k].captured] \in RequestRecord
    <3>1. worker'[k] \in Worker /\ psr' \in [Requests -> RequestRecord]
      BY <1>2 DEF TypeOK
    <3> QED
      BY <2>3, <3>1 DEF Worker
  <2> QED
    BY <2>2, <2>3
      DEF FinalizerFindsAnswer, Answered, Answers, InRequests, RequestRecord
<1>9. OpenRequestIsParked'
  <2> SUFFICES ASSUME NEW r \in Requests, registry'[r].state \in OpenStates
               PROVE  \E k \in Jobs : ServesOpen(k, r)'
    BY DEF OpenRequestIsParked, OpenStates, ServesOpen, InJobs, InRequests
  <2>1. CASE registry[r].state \in OpenStates
    <3>1. PICK k \in Jobs : ServesOpen(k, r)
      BY <2>1, OpenIs DEF TurnInv
    <3>2. CASE k = j
      <4>1. /\ worker'[j].pc = "waiting" /\ worker'[j].request = r
            /\ psr' = psr /\ store' = store
        BY <2>1, <3>1, <3>2, WaitingStep DEF OpenStates, ServesOpen, durable
      <4> QED
        BY <1>m, <3>1, <3>2, <4>1 DEF ServesOpen
    <3>3. CASE k # j
      <4>1. worker[k].pc \in HandlerSteps
        BY <3>1 DEF ServesOpen, HandlerSteps
      <4>2. psr' = psr
        BY <1>6, <3>3, <4>1
      <4> QED
        BY <1>4, <1>m, <3>1, <3>3, <4>2 DEF ServesOpen
    <3> QED
      BY <3>2, <3>3
  <2>2. CASE registry[r].state \notin OpenStates
    <3>1. /\ worker[j].pc = "registering" /\ r = worker[j].request
          /\ worker'[j].pc = "announcing"
          /\ worker'[j].request = worker[j].request
          /\ UNCHANGED durable
      BY <2>2, RegistryStep
    <3>2. psr' = psr /\ store' = store
      BY <3>1 DEF durable
    <3>3. /\ InRequests(j) => psr[r].job = j /\ psr[r].status = "pending"
          /\ InJobs(j) =>
                store[j].parked = r /\ store[j].status = "needs_escalation"
      BY <1>1, <3>1 DEF HandlesOwn, HandlerSteps
    <3>4. InRequests(j) => psr[r] = [status |-> "pending", job |-> j]
      BY <3>3 DEF TypeOK, RequestRecord
    <3>5. ServesOpen(j, r)'
      BY <1>m, <3>1, <3>2, <3>3, <3>4 DEF ServesOpen
    <3> QED
      BY <3>5
  <2> QED
    BY <2>1, <2>2
<1>10. DecideInv'
  <2>1. main' = main
    BY <1>2 DEF Frame
  <2>2. ASSUME main.pc \in {"reserved", "intended"}
        PROVE  registry'[main.request].state = "reserved"
    <3>1. /\ main.request \in Requests
          /\ registry[main.request].state = "reserved"
      BY <2>2, MainTyped DEF TurnInv, DecideInv
    <3>2. ~ (worker[j].pc = "discarding" /\ main.request = worker[j].request)
      <4>1. PICK k \in Jobs : ServesOpen(k, main.request)
        BY <3>1, OpenIs DEF TurnInv, OpenStates
      <4>2. worker[k].pc \in RuntimeSteps /\ worker[k].pc # "discarding"
        BY <4>1 DEF ServesOpen, RuntimeSteps, HandlerSteps
      <4>3. worker[j].pc = "discarding" => worker[j].pc \in RuntimeSteps
        BY DEF RuntimeSteps, HandlerSteps
      <4> QED
        BY <4>2, <4>3, OneHandler
    <3> QED
      BY <3>1, <3>2, RegistryStep
  <2> QED
    BY <2>1, <2>2 DEF TurnInv, DecideInv
<1> QED
  BY <1>7, <1>8, <1>9, <1>10 DEF TurnInv

----------------------------------------------------------------------------
(* A step that leaves the workers and their requests alone.                *)
TurnFrame ==
    /\ LostGrows
    /\ psr' = psr
    /\ \A k \in Jobs : store'[k].parked = store[k].parked
    /\ \A k \in Jobs : store[k].status = "needs_escalation" =>
          store'[k].status = "needs_escalation"
    /\ \A k \in Jobs :
          \/ worker'[k] = worker[k]
          \/ /\ worker[k].pc = "none"
             /\ worker'[k].pc = "spawned"
             /\ worker'[k].captured = 0
    /\ \A r \in Requests : registry'[r].state \in OpenStates =>
          registry[r].state \in OpenStates

(* Such a step keeps the invariant of the requests.                        *)
LEMMA TurnsCarry ==
  ASSUME TypeOK, TypeOK', TurnInv, TurnFrame, DecideInv'
  PROVE  TurnInv'
<1>m. \A k \in Jobs :
         (InJobs(k)' => InJobs(k)) /\ (InRequests(k)' => InRequests(k))
  BY MissingStays DEF TurnFrame
<1>1. HandlersInv'
  <2> SUFFICES ASSUME NEW k \in Jobs PROVE HandlesOwn(k)'
    BY DEF HandlersInv
  <2>1. CASE worker'[k] = worker[k]
    <3>1. /\ HandlesOwn(k) /\ psr' = psr
          /\ store'[k].parked = store[k].parked
          /\ store[k].status = "needs_escalation" =>
                store'[k].status = "needs_escalation"
      BY DEF TurnInv, HandlersInv, TurnFrame
    <3> QED
      BY <1>m, <2>1, <3>1 DEF HandlesOwn
  <2>2. CASE worker'[k].pc = "spawned" /\ worker'[k].captured = 0
    BY <2>2 DEF HandlesOwn, HandlerSteps
  <2> QED
    BY <2>1, <2>2 DEF TurnFrame
<1>2. FinalizerFindsAnswer'
  <2>1. ASSUME NEW k \in Jobs PROVE Answered(k)'
    <3>1. Answered(k)
      BY FinalizerIs DEF TurnInv
    <3> QED
      BY <1>m, <3>1 DEF Answered, At, TurnFrame
  <2>2. ASSUME NEW k \in Jobs, worker'[k].captured # 0
        PROVE  psr'[worker'[k].captured] \in RequestRecord
    <3>1. worker'[k] \in Worker /\ psr' \in [Requests -> RequestRecord]
      BY DEF TypeOK
    <3> QED
      BY <2>2, <3>1 DEF Worker
  <2> QED
    BY <2>1, <2>2
      DEF FinalizerFindsAnswer, Answered, Answers, InRequests, RequestRecord
<1>3. OpenRequestIsParked'
  <2> SUFFICES ASSUME NEW r \in Requests, registry'[r].state \in OpenStates
               PROVE  \E k \in Jobs : ServesOpen(k, r)'
    BY DEF OpenRequestIsParked, OpenStates, ServesOpen, InJobs, InRequests
  <2>1. PICK k \in Jobs : ServesOpen(k, r)
    BY OpenIs DEF TurnInv, TurnFrame
  <2>2. worker'[k] = worker[k]
    BY <2>1 DEF TurnFrame, ServesOpen
  <2>3. ServesOpen(k, r)'
    BY <1>m, <2>1, <2>2 DEF TurnFrame, ServesOpen
  <2> QED
    BY <2>3
<1> QED
  BY <1>1, <1>2, <1>3 DEF TurnInv

LEMMA QuietTurns ==
  ASSUME LostGrows, psr' = psr, store' = store, worker' = worker,
         \A r \in Requests : registry'[r].state \in OpenStates =>
            registry[r].state \in OpenStates
  PROVE  TurnFrame
  BY DEF TurnFrame

(* Every step of the main thread is such a step.                           *)
LEMMA MainStepTurns ==
  ASSUME TypeOK, JobInv, TurnInv, Call \/ Continues
  PROVE  TurnFrame
<1>0. main.job \in Jobs /\ LostGrows
  BY MainTyped, MainStepIs
<1>1. CASE \E j \in Jobs : GateReadsJobs(j)
  <2>1. /\ psr' = psr /\ store' = store /\ worker' = worker
        /\ registry' = registry
    BY <1>1 DEF GateReadsJobs, durable
  <2> QED
    BY <1>0, <2>1, QuietTurns
<1>2. CASE \E j \in Jobs, r \in Requests : Validates(j, r)
  <2>1. /\ psr' = psr /\ store' = store /\ worker' = worker
        /\ registry' = registry
    BY <1>2 DEF Validates, durable
  <2> QED
    BY <1>0, <2>1, QuietTurns
<1>3. CASE \E j \in Jobs : PollAborts(j)
  <2>1. PICK j \in Jobs : PollAborts(j)
    BY <1>3
  <2>2. \A r \in Requests : registry'[r].state \in OpenStates =>
           registry[r].state \in OpenStates
    BY <2>1, AbortIs DEF PollAborts, TypeOK, OpenStates
  <2>3. psr' = psr /\ store' = store /\ worker' = worker
    BY <2>1 DEF PollAborts, durable
  <2> QED
    BY <1>0, <2>2, <2>3, QuietTurns
<1>4. CASE \E j \in Jobs : DiscardReads(j)
  <2>1. /\ psr' = psr /\ store' = store /\ worker' = worker
        /\ registry' = registry
    BY <1>4 DEF DiscardReads, durable
  <2> QED
    BY <1>0, <2>1, QuietTurns
<1>5. CASE GateReadsRuntimes
  <2>1. /\ psr' = psr /\ store' = store /\ worker' = worker
        /\ registry' = registry
    BY <1>5 DEF GateReadsRuntimes, durable
  <2> QED
    BY <1>0, <2>1, QuietTurns
<1>6. CASE WritesCreationIntent
  <2>1. /\ psr' = psr /\ store' = store /\ worker' = worker
        /\ registry' = registry
    BY <1>6 DEF WritesCreationIntent
  <2> QED
    BY <1>0, <2>1, QuietTurns
<1>7. CASE \E works \in BOOLEAN : Bootstraps(works)
  <2>1. /\ psr' = psr /\ store' = store /\ worker' = worker
        /\ registry' = registry
    BY <1>7 DEF Bootstraps, durable
  <2> QED
    BY <1>0, <2>1, QuietTurns
<1>8. CASE WritesCreationDispatched
  <2>1. /\ psr' = psr /\ store' = store /\ worker' = worker
        /\ registry' = registry
    BY <1>8 DEF WritesCreationDispatched
  <2> QED
    BY <1>0, <2>1, QuietTurns
<1>9. CASE RegistersRuntime
  <2>1. /\ psr' = psr /\ store' = store /\ worker' = worker
        /\ registry' = registry
    BY <1>9 DEF RegistersRuntime, durable
  <2> QED
    BY <1>0, <2>1, QuietTurns
<1>10. CASE CreatesHandle
  <2>1. /\ psr' = psr /\ store' = store /\ worker' = worker
        /\ registry' = registry
    BY <1>10 DEF CreatesHandle
  <2> QED
    BY <1>0, <2>1, QuietTurns
<1>11. CASE CreatesJob
  <2>1. store[main.job].status = "absent"
    BY <1>11 DEF CreatesJob, Busy, JobInv, StartInv, StartSteps
  <2>2. \A k \in Jobs : /\ store'[k].parked = store[k].parked
                        /\ store[k].status = "needs_escalation" =>
                              store'[k].status = "needs_escalation"
    BY <1>0, <1>11, <2>1, CreatesJobIs DEF CreatesJob, Terminal
  <2> QED
    BY <1>0, <1>11, <2>2 DEF CreatesJob, TurnFrame
<1>12. CASE WritesCreationCompleted
  <2>1. /\ psr' = psr /\ store' = store /\ worker' = worker
        /\ registry' = registry
    BY <1>12 DEF WritesCreationCompleted
  <2> QED
    BY <1>0, <2>1, QuietTurns
<1>13. CASE StartRaises
  <2>1. /\ psr' = psr /\ store' = store /\ worker' = worker
        /\ registry' = registry
    BY <1>13 DEF StartRaises
  <2> QED
    BY <1>0, <2>1, QuietTurns
<1>14. CASE CleansHandle
  <2>1. /\ psr' = psr /\ store' = store /\ worker' = worker
        /\ registry' = registry
    BY <1>14 DEF CleansHandle
  <2> QED
    BY <1>0, <2>1, QuietTurns
<1>15. CASE CleansJob
  <2>1. store[main.job].status \in {"absent", "queued"}
    BY <1>15 DEF CleansJob, Busy, JobInv, StartInv, StartSteps
  <2>2. \A k \in Jobs : /\ store'[k].parked = store[k].parked
                        /\ store[k].status = "needs_escalation" =>
                              store'[k].status = "needs_escalation"
    BY <1>0, <1>15, <2>1, TransitionIs DEF CleansJob, Terminal
  <2> QED
    BY <1>0, <1>15, <2>2 DEF CleansJob, TurnFrame
<1>16. CASE CleaningIsSwallowed
  <2>1. /\ psr' = psr /\ store' = store /\ worker' = worker
        /\ registry' = registry
    BY <1>16 DEF CleaningIsSwallowed
  <2> QED
    BY <1>0, <2>1, QuietTurns
<1>17. CASE CallRaises
  <2>1. /\ psr' = psr /\ store' = store /\ worker' = worker
        /\ registry' = registry
    BY <1>17 DEF CallRaises
  <2> QED
    BY <1>0, <2>1, QuietTurns
<1>18. CASE Spawns
  <2>1. worker[main.job].pc = "none"
    BY <1>18 DEF Spawns, Busy, JobInv, StartInv, StartSteps
  <2>2. \A k \in Jobs :
           \/ worker'[k] = worker[k]
           \/ /\ worker[k].pc = "none"
              /\ worker'[k].pc = "spawned"
              /\ worker'[k].captured = 0
    BY <1>0, <1>18, <2>1, SpawnsIs
  <2> QED
    BY <1>0, <1>18, <2>2 DEF Spawns, TurnFrame, durable
<1>19. CASE WaitReturns
  <2>1. /\ psr' = psr /\ store' = store /\ worker' = worker
        /\ registry' = registry
    BY <1>19 DEF WaitReturns, durable
  <2> QED
    BY <1>0, <2>1, QuietTurns
<1>20. CASE Replies
  <2>1. registry' = registry \/ Abort(main.request)
    BY <1>20 DEF Replies
  <2>2. \A r \in Requests : registry'[r].state \in OpenStates =>
           registry[r].state \in OpenStates
    BY <2>1, AbortIs DEF TypeOK, OpenStates
  <2>3. psr' = psr /\ store' = store /\ worker' = worker
    BY <1>20 DEF Replies, durable
  <2> QED
    BY <1>0, <2>2, <2>3, QuietTurns
<1>21. CASE Reserves
  <2>1. \A r \in Requests : registry'[r].state \in OpenStates =>
           registry[r].state \in OpenStates
    BY <1>0, <1>21, ReservesIs DEF Reserves, TypeOK, OpenStates
  <2>2. psr' = psr /\ store' = store /\ worker' = worker
    BY <1>21 DEF Reserves, durable
  <2> QED
    BY <1>0, <2>1, <2>2, QuietTurns
<1>22. CASE WritesDecisionIntent
  <2>1. /\ psr' = psr /\ store' = store /\ worker' = worker
        /\ registry' = registry
    BY <1>22 DEF WritesDecisionIntent
  <2> QED
    BY <1>0, <2>1, QuietTurns
<1>23. CASE DecisionIntentRaises
  <2>0. registry[main.request].state = "reserved"
    BY <1>23 DEF DecisionIntentRaises, Busy, TurnInv, DecideInv
  <2>1. \A r \in Requests : registry'[r].state \in OpenStates =>
           registry[r].state \in OpenStates
    BY <1>0, <1>23, <2>0 DEF DecisionIntentRaises, TypeOK, OpenStates
  <2>2. psr' = psr /\ store' = store /\ worker' = worker
    BY <1>23 DEF DecisionIntentRaises
  <2> QED
    BY <1>0, <2>1, <2>2, QuietTurns
<1>24. CASE Commits
  <2>1. \A r \in Requests : registry'[r].state \in OpenStates =>
           registry[r].state \in OpenStates
    BY <1>0, <1>24 DEF Commits, TypeOK, OpenStates
  <2>2. psr' = psr /\ store' = store /\ worker' = worker
    BY <1>24 DEF Commits, durable
  <2> QED
    BY <1>0, <2>1, <2>2, QuietTurns
<1>25. CASE DiscardWrites
  <2>1. \A k \in Jobs : /\ store'[k].parked = store[k].parked
                        /\ store'[k].status = store[k].status
    BY <1>0, <1>25, DiscardedIs DEF DiscardWrites
  <2> QED
    BY <1>0, <1>25, <2>1 DEF DiscardWrites, TurnFrame
<1> QED
  BY <1>1, <1>2, <1>3, <1>4, <1>5, <1>6, <1>7, <1>8, <1>9, <1>10, <1>11, <1>12,
     <1>13, <1>14, <1>15, <1>16, <1>17, <1>18, <1>19, <1>20, <1>21, <1>22,
     <1>23, <1>24, <1>25
    DEF Call, Continues

(* decide() keeps its reservation from reserve() to commit_signal().       *)
LEMMA MainStepDecides ==
  ASSUME TypeOK, TurnInv, Call \/ Continues
  PROVE  DecideInv'
<1>0. main \in Main /\ main.job \in Jobs
  BY MainTyped
<1>1. CASE \E j \in Jobs : GateReadsJobs(j)
  <2>1. PICK j \in Jobs : GateReadsJobs(j)
    BY <1>1
  <2> QED
    BY <1>0, <2>1, BeginIs DEF GateReadsJobs, DecideInv, MainSteps
<1>2. CASE \E j \in Jobs, r \in Requests : Validates(j, r)
  <2>1. PICK j \in Jobs, r \in Requests : Validates(j, r)
    BY <1>2
  <2> QED
    BY <2>1, ValidatesIs, ZeroIsNoRequest DEF DecideInv
<1>3. CASE \E j \in Jobs : PollAborts(j)
  <2>1. PICK j \in Jobs : PollAborts(j)
    BY <1>3
  <2> QED
    BY <2>1 DEF PollAborts, Busy, DecideInv
<1>4. CASE \E j \in Jobs : DiscardReads(j)
  <2>1. PICK j \in Jobs : DiscardReads(j)
    BY <1>4
  <2> QED
    BY <1>0, <2>1, BeginIs DEF DiscardReads, DecideInv, MainSteps
<1>5. CASE GateReadsRuntimes
  <2>1. main' = MainIdle \/ Continue("gate_journal")
    BY <1>5 DEF GateReadsRuntimes, Continue
  <2> QED
    BY <1>0, <2>1, ContinueIs, MainIdleIs DEF DecideInv, MainSteps
<1>6. CASE WritesCreationIntent
  <2>1. main' = MainIdle \/ Continue("bootstrapping")
    BY <1>6 DEF WritesCreationIntent, Continue
  <2> QED
    BY <1>0, <2>1, ContinueIs, MainIdleIs DEF DecideInv, MainSteps
<1>7. CASE \E works \in BOOLEAN : Bootstraps(works)
  <2>1. main' = MainIdle \/ Continue("bootstrapped")
    BY <1>7 DEF Bootstraps, Continue
  <2> QED
    BY <1>0, <2>1, ContinueIs, MainIdleIs DEF DecideInv, MainSteps
<1>8. CASE WritesCreationDispatched
  BY <1>0, <1>8, ContinueIs DEF WritesCreationDispatched, DecideInv, MainSteps
<1>9. CASE RegistersRuntime
  BY <1>0, <1>9, ContinueIs DEF RegistersRuntime, DecideInv, MainSteps
<1>10. CASE CreatesHandle
  BY <1>0, <1>10, ContinueIs DEF CreatesHandle, DecideInv, MainSteps
<1>11. CASE CreatesJob
  BY <1>0, <1>11, ContinueIs DEF CreatesJob, DecideInv, MainSteps
<1>12. CASE WritesCreationCompleted
  BY <1>0, <1>12, ContinueIs DEF WritesCreationCompleted, DecideInv, MainSteps
<1>13. CASE StartRaises
  BY <1>0, <1>13, StartRaisesIs DEF StartRaises, DecideInv, MainSteps
<1>14. CASE CleansHandle
  BY <1>0, <1>14, CleaningJobIs DEF CleansHandle, DecideInv, MainSteps
<1>15. CASE CleansJob
  BY <1>0, <1>15, MainIdleIs DEF CleansJob, DecideInv, MainSteps
<1>16. CASE CleaningIsSwallowed
  BY <1>0, <1>16, CleaningIsSwallowedIs
    DEF CleaningIsSwallowed, DecideInv, MainSteps
<1>17. CASE CallRaises
  BY <1>0, <1>17, CallRaisesIs DEF CallRaises, DecideInv, MainSteps
<1>18. CASE Spawns
  BY <1>0, <1>18, ContinueIs DEF Spawns, DecideInv, MainSteps
<1>19. CASE WaitReturns
  BY <1>0, <1>19, WaitReturnsIs DEF WaitReturns, DecideInv, MainSteps
<1>20. CASE Replies
  BY <1>0, <1>20, MainIdleIs DEF Replies, DecideInv, MainSteps
<1>21. CASE Reserves
  <2>1. CASE main' = MainIdle
    BY <2>1, MainIdleIs DEF DecideInv
  <2>2. CASE /\ registry' = [registry EXCEPT ![main.request].state = "reserved"]
             /\ Continue("reserved")
    <3>1. main'.pc = "reserved" /\ main'.request = main.request
      BY <1>0, <2>2, ContinueIs DEF MainSteps
    <3>2. main.request # 0 /\ main.request \in Requests
      BY <1>21, MainTyped DEF Reserves, Busy, TurnInv, DecideInv
    <3>3. registry[main.request] \in RegistryEntry
      BY <3>2 DEF TypeOK
    <3>4. registry'[main.request].state = "reserved"
      BY <2>2, <3>2, <3>3 DEF TypeOK, RegistryEntry
    <3> QED
      BY <3>1, <3>2, <3>4 DEF DecideInv
  <2> QED
    BY <1>21, <2>1, <2>2, ReservesIs
<1>22. CASE WritesDecisionIntent
  <2>1. /\ main.pc = "reserved" /\ registry' = registry
        /\ main'.pc = "intended" /\ main'.request = main.request
    BY <1>0, <1>22, ContinueIs DEF WritesDecisionIntent, Busy, MainSteps
  <2> QED
    BY <2>1 DEF TurnInv, DecideInv
<1>23. CASE DecisionIntentRaises
  BY <1>0, <1>23, MainIdleIs DEF DecisionIntentRaises, DecideInv, MainSteps
<1>24. CASE Commits
  BY <1>0, <1>24, MainIdleIs DEF Commits, DecideInv, MainSteps
<1>25. CASE DiscardWrites
  BY <1>0, <1>25, MainIdleIs DEF DiscardWrites, DecideInv, MainSteps
<1> QED
  BY <1>1, <1>2, <1>3, <1>4, <1>5, <1>6, <1>7, <1>8, <1>9, <1>10, <1>11, <1>12,
     <1>13, <1>14, <1>15, <1>16, <1>17, <1>18, <1>19, <1>20, <1>21, <1>22,
     <1>23, <1>24, <1>25
    DEF Call, Continues

(* A timer decides only what is awaiting, never what is reserved.          *)
LEMMA TimerKeepsTurns ==
  ASSUME TypeOK, TurnInv, NEW r \in Requests, TimerFires(r)
  PROVE  TurnInv'
<1>1. \A q \in Requests : registry'[q].state \in OpenStates =>
            registry[q].state \in OpenStates
  BY TimerFiresIs DEF OpenStates
<1>2. TurnFrame
  BY <1>1, TimerFiresIs, QuietTurns DEF TimerFires, durable
<1>3. DecideInv'
  <2>1. main' = main
    BY DEF TimerFires
  <2>2. ASSUME main.pc \in {"reserved", "intended"}
        PROVE  registry'[main.request].state = "reserved"
    <3>1. /\ main.request \in Requests
          /\ registry[main.request].state = "reserved"
      BY <2>2, MainTyped DEF TurnInv, DecideInv
    <3> QED
      BY <3>1, TimerFiresIs
  <2> QED
    BY <2>1, <2>2 DEF TurnInv, DecideInv
<1> QED
  BY <1>2, <1>3, TurnsCarry, TimerFiresIs

(* While nothing is served there is no turn.                               *)
LEMMA NoTurns ==
  ASSUME \A j \in Jobs : worker'[j].pc = "none",
         \A r \in Requests : registry'[r] = NoEntry,
         main'.pc \notin {"deciding", "reserved", "intended"}
  PROVE  TurnInv'
<1>1. HandlersInv'
  BY DEF HandlersInv, HandlesOwn, HandlerSteps
<1>2. FinalizerFindsAnswer'
  BY DEF FinalizerFindsAnswer, At
<1>3. OpenRequestIsParked'
  BY DEF OpenRequestIsParked, NoEntry
<1>4. DecideInv'
  BY DEF DecideInv
<1> QED
  BY <1>1, <1>2, <1>3, <1>4 DEF TurnInv

(* A crash, and recovery after it.                                         *)
LEMMA RestartKeepsTurns ==
  ASSUME TypeOK, JobInv, Crash \/ RecoveryStep
  PROVE  TurnInv'
<1>1. CASE Crash
  <2>1. /\ main'.pc = "recover_creation"
        /\ \A j \in Jobs : worker'[j].pc = "none"
        /\ \A r \in Requests : registry'[r] = NoEntry
    BY <1>1, CrashIs, NoWorkerIs
  <2> QED
    BY <2>1, NoTurns
<1>2. CASE RecoveryStep
  <2>1. /\ main'.pc \notin {"deciding", "reserved", "intended"}
        /\ \A j \in Jobs : worker'[j].pc = "none"
        /\ \A r \in Requests : registry'[r] = NoEntry
    BY <1>2, RecoveryStepIs DEF Recovers, JobInv, RecoveryInv
  <2> QED
    BY <2>1, NoTurns
<1> QED
  BY <1>1, <1>2

----------------------------------------------------------------------------
(* What start() is told.                                                   *)

(* Where the worker is when the channel says that its turn was ended.      *)
TerminalSteps == {"interrupted", "finished"} \cup SettleSteps \cup FinalSteps

(* A step that announces nothing, and after which the worker neither waits *)
(* nor has ended.                                                          *)
LEMMA ToldOnward ==
  ASSUME TypeOK, LostGrows, NEW j \in Jobs, Told(j), channel' = channel,
         worker[j].pc # "finished",
         worker'[j].pc \notin {"none", "waiting", "finished"},
         \A q \in Requests : psr'[q].job \in {psr[q].job, j},
         worker[j].pc \in TerminalSteps =>
            /\ worker'[j].pc \in TerminalSteps
            /\ store[j].status \in Terminal /\ InRequests(j) =>
                  store'[j].status \in Terminal
  PROVE  Told(j)'
<1>1. (InJobs(j)' => InJobs(j)) /\ (InRequests(j)' => InRequests(j))
  BY MissingStays
<1>2. channel[j].request \in Requests \cup {0}
  BY DEF TypeOK, Channel
<1>3. channel[j].state # "empty"
  BY DEF Told
<1>4. channel[j].state = "terminal" => worker[j].pc \in TerminalSteps
  BY DEF Told, TerminalSteps
<1>5. /\ channel[j].state # "closed"
      /\ channel[j].state = "parked" => channel[j].request # 0
      /\ channel[j].state = "parked" /\ InRequests(j) =>
            psr[channel[j].request].job = j
      /\ channel[j].state = "terminal" /\ InJobs(j) /\ InRequests(j) =>
            store[j].status \in Terminal
  BY DEF Told
<1> QED
  BY <1>1, <1>2, <1>3, <1>4, <1>5 DEF Told, TerminalSteps

(* A step of a worker that cannot have announced such an end.              *)
LEMMA ToldBefore ==
  ASSUME TypeOK, LostGrows, NEW j \in Jobs, Told(j), channel' = channel,
         worker[j].pc \in {"spawned", "turn", "interrupting"} \cup HandlerSteps,
         worker'[j].pc \notin {"none", "waiting", "finished"},
         psr' = psr
  PROVE  Told(j)'
<1>1. worker[j].pc \notin TerminalSteps /\ worker[j].pc # "finished"
  BY DEF TerminalSteps, SettleSteps, FinalSteps, HandlerSteps
<1> QED
  BY <1>1, ToldOnward

LEMMA ToldAfter ==
  ASSUME TypeOK, LostGrows, NEW j \in Jobs, Told(j), channel' = channel,
         worker[j].pc # "finished",
         worker'[j].pc \in TerminalSteps \ {"finished"},
         psr' = psr, store' = store
  PROVE  Told(j)'
<1>1. worker'[j].pc \notin {"none", "waiting", "finished"}
  BY DEF TerminalSteps, SettleSteps, FinalSteps
<1> QED
  BY <1>1, ToldOnward

(* A worker's step keeps what start() is told of its own job.              *)
LEMMA OwnTold ==
  ASSUME TypeOK, RequestsNamed, NEW j \in Jobs, PlaceInv(j), StatusInv(j),
         HandlesOwn(j), Told(j),
         WorkerStep(j) \/ WriteRaises(j) \/ WriteIsSwallowed(j)
  PROVE  Told(j)'
<1>0. LostGrows
  BY WorkerStepIs DEF Frame
<1>1. CASE BeginsTurn(j)
  <2>1. /\ channel' = channel /\ psr' = psr
        /\ worker[j].pc = "spawned"
    BY <1>1 DEF BeginsTurn, At
  <2>2. worker'[j].pc \in {"turn"}
    BY <1>1, GoToIs
      DEF BeginsTurn, WorkerSteps, HandlerSteps, SettleSteps, FinalSteps
  <2> QED
    BY <1>0, <2>1, <2>2, ToldBefore DEF HandlerSteps
<1>2. CASE \E kind \in ParkableKinds : ParkableArrives(j, kind)
  <2>0. PICK kind \in ParkableKinds : ParkableArrives(j, kind)
    BY <1>2
  <2>1. channel' = channel /\ worker[j].pc = "turn"
    BY <2>0 DEF ParkableArrives, At
  <2>2. worker'[j].pc = "parking"
    BY <2>0, ParkableArrivesIs
  <2>3. \A q \in Requests : psr'[q] = psr[q] \/ psr'[q].job = j
    BY <2>0, ParkableArrivesIs
  <2>4. worker[j].pc \notin TerminalSteps
    BY <2>1 DEF TerminalSteps, SettleSteps, FinalSteps
  <2>5. \A q \in Requests : psr'[q].job \in {psr[q].job, j}
    BY <2>3
  <2> QED
    BY <1>0, <2>1, <2>2, <2>4, <2>5, ToldOnward
<1>3. CASE \E kind \in UnknownKinds : UnknownArrives(j, kind)
  <2>0. PICK kind \in UnknownKinds : UnknownArrives(j, kind)
    BY <1>3
  <2>1. channel' = channel /\ worker[j].pc = "turn"
    BY <2>0 DEF UnknownArrives, At
  <2>2. worker'[j].pc = "interrupting"
    BY <2>0, UnknownArrivesIs
  <2>3. \A q \in Requests : psr'[q] = psr[q] \/ psr'[q].job = j
    BY <2>0, UnknownArrivesIs
  <2>4. worker[j].pc \notin TerminalSteps
    BY <2>1 DEF TerminalSteps, SettleSteps, FinalSteps
  <2>5. \A q \in Requests : psr'[q].job \in {psr[q].job, j}
    BY <2>3
  <2> QED
    BY <1>0, <2>1, <2>2, <2>4, <2>5, ToldOnward
<1>4. CASE Interrupts(j)
  <2>1. /\ channel' = channel /\ psr' = psr
        /\ worker[j].pc = "interrupting"
    BY <1>4 DEF Interrupts, At, durable
  <2>2. worker'[j].pc \in {"settling", "interrupted"}
    BY <1>4, InterruptsIs DEF Interrupts
  <2> QED
    BY <1>0, <2>1, <2>2, ToldBefore DEF HandlerSteps
<1>5. CASE TurnRaises(j)
  <2>1. /\ channel' = channel /\ psr' = psr /\ store' = store
        /\ worker[j].pc # "finished"
    BY <1>5 DEF TurnRaises, At, durable
  <2>2. worker'[j].pc \in {"settling"}
    BY <1>5, FailsIs DEF TurnRaises
  <2> QED
    BY <1>0, <2>1, <2>2, ToldAfter DEF TerminalSteps, SettleSteps, FinalSteps
<1>6. CASE Parks(j)
  <2>1. /\ channel' = channel /\ psr' = psr
        /\ worker[j].pc = "parking"
    BY <1>6 DEF Parks, At
  <2>2. worker'[j].pc \in {"escalating"}
    BY <1>6, GoToIs
      DEF Parks, WorkerSteps, HandlerSteps, SettleSteps, FinalSteps
  <2> QED
    BY <1>0, <2>1, <2>2, ToldBefore DEF HandlerSteps
<1>7. CASE Escalates(j)
  <2>1. /\ channel' = channel /\ psr' = psr
        /\ worker[j].pc = "escalating"
    BY <1>7 DEF Escalates, At
  <2>2. worker'[j].pc \in {"settling", "registering"}
    BY <1>7, PersistsIs DEF Escalates, WorkerSteps, HandlerSteps, Active
  <2> QED
    BY <1>0, <2>1, <2>2, ToldBefore DEF HandlerSteps
<1>8. CASE Registers(j)
  <2>1. /\ channel' = channel /\ psr' = psr
        /\ worker[j].pc = "registering"
    BY <1>8 DEF Registers, At, durable
  <2>2. worker'[j].pc \in {"settling", "announcing"}
    BY <1>8, RegistersIs DEF Registers
  <2> QED
    BY <1>0, <2>1, <2>2, ToldBefore DEF HandlerSteps
<1>9. CASE AnnouncesPark(j)
  <2>1. /\ worker[j].request \in Requests /\ worker[j].request # 0
        /\ InRequests(j) => psr[worker[j].request].job = j
    BY <1>9, WorkerTyped DEF AnnouncesPark, At, HandlesOwn, HandlerSteps
  <2>2. /\ store' = store /\ runtime' = runtime /\ psr' = psr
        /\ worker[j].pc = "announcing"
        /\ InRequests(j)' => InRequests(j)
    BY <1>0, <1>9, MissingStays DEF AnnouncesPark, At, durable
  <2>3. worker'[j].pc = "waiting"
    BY <1>9, GoToIs DEF AnnouncesPark, WorkerSteps, HandlerSteps
  <2>4. channel \in [Jobs -> Channel] /\ "parked" \in Outcomes
    BY DEF TypeOK, Outcomes
  <2>5. /\ channel[j].state # "open" => channel'[j] = channel[j]
        /\ channel[j].state = "open" =>
              /\ channel'[j].state = "parked"
              /\ channel'[j].request = worker[j].request
    BY <1>9, <2>1, <2>4, AnnounceIs DEF AnnouncesPark
  <2>6. channel[j].state \notin {"empty", "terminal", "closed"}
    BY <2>2 DEF Told, SettleSteps, FinalSteps
  <2>7. channel[j].state \in Outcomes \cup {"closed", "open"}
    BY <2>4 DEF Channel
  <2>8. channel[j].state = "parked" =>
           /\ channel[j].request # 0
           /\ InRequests(j) => psr[channel[j].request].job = j
    BY DEF Told
  <2> QED
    BY <2>1, <2>2, <2>3, <2>5, <2>6, <2>7, <2>8 DEF Told, Outcomes
<1>10. CASE Wakes(j)
  <2>1. worker[j].request \in Requests
    BY <1>10, WorkerTyped DEF Wakes, At, RequestsNamed, HandlerSteps
  <2>2. channel' = channel /\ psr' = psr /\ worker[j].pc = "waiting"
    BY <1>10 DEF Wakes, At, durable
  <2>3. worker'[j].pc \in {"resuming", "intending"}
    BY <1>10, <2>1, WakesIs
  <2> QED
    BY <1>0, <2>2, <2>3, ToldBefore DEF HandlerSteps
<1>11. CASE WritesIntent(j)
  <2>1. /\ channel' = channel /\ psr' = psr
        /\ worker[j].pc = "intending"
    BY <1>11 DEF WritesIntent, At
  <2>2. worker'[j].pc \in {"dispatching", "resuming"}
    BY <1>11, GoToIs
      DEF WritesIntent, WorkerSteps, HandlerSteps, SettleSteps, FinalSteps
  <2> QED
    BY <1>0, <2>1, <2>2, ToldBefore DEF HandlerSteps
<1>12. CASE Resumes(j)
  <2>1. /\ channel' = channel /\ psr' = psr
        /\ worker[j].pc = "resuming"
    BY <1>12 DEF Resumes, At
  <2>2. worker'[j].pc \in {"dispatching"}
    BY <1>12, GoToIs
      DEF Resumes, WorkerSteps, HandlerSteps, SettleSteps, FinalSteps
  <2> QED
    BY <1>0, <2>1, <2>2, ToldBefore DEF HandlerSteps
<1>13. CASE WritesDispatched(j)
  <2>1. /\ channel' = channel /\ psr' = psr
        /\ worker[j].pc = "dispatching"
    BY <1>13 DEF WritesDispatched, At
  <2>2. worker'[j].pc \in {"recording", "responding"}
    BY <1>13, GoToIs
      DEF WritesDispatched, WorkerSteps, HandlerSteps, SettleSteps, FinalSteps
  <2> QED
    BY <1>0, <2>1, <2>2, ToldBefore DEF HandlerSteps
<1>14. CASE \E works \in BOOLEAN : Responds(j, works)
  <2>0. PICK works \in BOOLEAN : Responds(j, works)
    BY <1>14
  <2>1. /\ channel' = channel /\ psr' = psr
        /\ worker[j].pc = "responding"
    BY <2>0 DEF Responds, At, durable
  <2>2. worker'[j].pc \in {"recording"}
    BY <2>0, RespondsIs DEF Responds
  <2> QED
    BY <1>0, <2>1, <2>2, ToldBefore DEF HandlerSteps
<1>15. CASE RecordsAnswer(j)
  <2>1. worker[j].request \in Requests
    BY <1>15, WorkerTyped DEF RecordsAnswer, At, RequestsNamed, HandlerSteps
  <2>2. channel' = channel /\ worker[j].pc = "recording"
    BY <1>15 DEF RecordsAnswer, At
  <2>3. worker'[j].pc = "unparking"
    BY <1>15, GoToIs DEF RecordsAnswer, WorkerSteps, HandlerSteps
  <2>4. \A q \in Requests : psr'[q].job \in {psr[q].job, j}
    BY <1>15, <2>1, RecordsAnswerIs
  <2>5. worker[j].pc \notin TerminalSteps
    BY <2>2 DEF TerminalSteps, SettleSteps, FinalSteps
  <2> QED
    BY <1>0, <2>2, <2>3, <2>4, <2>5, ToldOnward
<1>16. CASE Unparks(j)
  <2>1. /\ channel' = channel /\ psr' = psr
        /\ worker[j].pc = "unparking"
    BY <1>16 DEF Unparks, At
  <2>2. worker'[j].pc \in {"completing"}
    BY <1>16, GoToIs
      DEF Unparks, WorkerSteps, HandlerSteps, SettleSteps, FinalSteps
  <2> QED
    BY <1>0, <2>1, <2>2, ToldBefore DEF HandlerSteps
<1>17. CASE WritesCompleted(j)
  <2>1. /\ channel' = channel /\ psr' = psr
        /\ worker[j].pc = "completing"
    BY <1>17 DEF WritesCompleted, At
  <2>2. worker'[j].pc \in {"discarding"}
    BY <1>17, GoToIs
      DEF WritesCompleted, WorkerSteps, HandlerSteps, SettleSteps, FinalSteps
  <2> QED
    BY <1>0, <2>1, <2>2, ToldBefore DEF HandlerSteps
<1>18. CASE Discards(j)
  <2>1. /\ channel' = channel /\ psr' = psr
        /\ worker[j].pc = "discarding"
    BY <1>18 DEF Discards, At, durable
  <2>2. worker'[j].pc \in {"settling", "turn"}
    BY <1>18, DiscardsIs DEF Discards
  <2> QED
    BY <1>0, <2>1, <2>2, ToldBefore DEF HandlerSteps
<1>19. CASE Settles(j)
  <2>1. worker[j].final \in Terminal
    BY <1>19 DEF Settles, At, PlaceInv, SettleSteps
  <2>2. /\ channel' = channel /\ psr' = psr
        /\ worker[j].pc = "settling"
    BY <1>19 DEF Settles, At
  <2>3. /\ worker'[j].pc \in {"settling", "settle_outcome"}
        /\ store'[j] = store[j] \/ store'[j].status \in Terminal
    BY <1>19, <2>1, SettlesIs
  <2> QED
    BY <1>0, <2>2, <2>3, ToldOnward DEF TerminalSteps, SettleSteps
<1>20. CASE SettlesOutcome(j)
  <2>1. /\ channel' = channel /\ psr' = psr /\ store' = store
        /\ worker[j].pc # "finished"
    BY <1>20 DEF SettlesOutcome, At
  <2>2. worker'[j].pc \in {"settle_lineage"}
    BY <1>20, GoToIs DEF SettlesOutcome, WorkerSteps, SettleSteps, FinalSteps
  <2> QED
    BY <1>0, <2>1, <2>2, ToldAfter DEF TerminalSteps, SettleSteps, FinalSteps
<1>21. CASE SettlesLineage(j)
  <2>1. /\ channel' = channel /\ psr' = psr /\ store' = store
        /\ worker[j].pc # "finished"
    BY <1>21 DEF SettlesLineage, At
  <2>2. worker'[j].pc \in {"settle_announce", "settle_release"}
    BY <1>21, AfterSettlingIs DEF SettlesLineage
  <2> QED
    BY <1>0, <2>1, <2>2, ToldAfter DEF TerminalSteps, SettleSteps, FinalSteps
<1>22. CASE SettlesRuntime(j)
  <2>1. /\ channel' = channel /\ psr' = psr /\ store' = store
        /\ worker[j].pc # "finished"
    BY <1>22 DEF SettlesRuntime, At, durable
  <2>2. worker'[j].pc \in {"settle_announce"}
    BY <1>22, GoToIs DEF SettlesRuntime, WorkerSteps, SettleSteps, FinalSteps
  <2> QED
    BY <1>0, <2>1, <2>2, ToldAfter DEF TerminalSteps, SettleSteps, FinalSteps
<1>23. CASE SettlesAnnouncement(j)
  <2>1. /\ store' = store /\ runtime' = runtime /\ psr' = psr
        /\ worker[j].pc = "settle_announce"
    BY <1>23 DEF SettlesAnnouncement, At, durable
  <2>2. IF worker[j].announce = "terminal"
          THEN worker'[j].pc = "interrupted" ELSE worker'[j].pc = "finished"
    BY <1>23, SettlesAnnouncementIs
  <2>3. worker[j].announce \in Outcomes \ {"parked"}
    BY WorkerTyped DEF PlaceInv
  <2>4. /\ channel[j].state # "open" => channel'[j] = channel[j]
        /\ channel[j].state = "open" => channel'[j].state = worker[j].announce
    BY <1>23, SettlesAnnouncementIs
  <2>5. /\ InJobs(j) /\ InRequests(j) /\ worker[j].announce # "failed" =>
              store[j].status \in Terminal
        /\ worker[j].announce = "empty" /\ InRequests(j) => ~ runtime[j]
    BY <2>1 DEF PlaceInv, StatusInv, SettleSteps
  <2>6. (InJobs(j)' => InJobs(j)) /\ (InRequests(j)' => InRequests(j))
    BY <1>0, MissingStays
  <2>7. /\ channel[j].state \in Outcomes \cup {"open"}
        /\ channel[j].state # "empty"
    BY <2>1 DEF Told, TypeOK, Channel
  <2>8. CASE channel[j].state # "open"
    BY <2>1, <2>2, <2>4, <2>6, <2>7, <2>8 DEF Told, SettleSteps, FinalSteps
  <2>9. CASE channel[j].state = "open"
    BY <2>1, <2>2, <2>3, <2>4, <2>5, <2>6, <2>9
      DEF Told, Outcomes, SettleSteps, FinalSteps
  <2> QED
    BY <2>8, <2>9
<1>24. CASE \E result \in TurnResults : TurnEnds(j, result)
  <2>0. PICK result \in TurnResults : TurnEnds(j, result)
    BY <1>24
  <2>1. /\ channel' = channel /\ store' = store
        /\ worker[j].pc \in {"turn", "interrupted"}
    BY <2>0 DEF TurnEnds
  <2>2. worker'[j].pc = "finalizing"
    BY <2>0, TurnEndsIs
  <2>3. \A q \in Requests : psr'[q].job \in {psr[q].job, j}
    BY <2>0, TurnEndsIs
  <2> QED
    BY <1>0, <2>1, <2>2, <2>3, ToldOnward DEF TerminalSteps, FinalSteps
<1>25. CASE Finalizes(j)
  <2>1. /\ worker[j].final \in Active \cup Terminal
        /\ worker[j].final \in Terminal \cup {"needs_escalation"}
        /\ "final_escalation" \in WorkerSteps
        /\ "final_lineage" \in WorkerSteps
    BY WorkerTyped DEF WorkerSteps, FinalSteps
  <2>2. /\ channel' = channel /\ psr' = psr
        /\ worker[j].pc = "finalizing"
    BY <1>25 DEF Finalizes, At
  <2>3. /\ worker'[j].pc \in {"settling", "final_escalation", "final_lineage"}
        /\ store'[j] = store[j] \/ store'[j].status = worker[j].final
    BY <1>25, <2>1, PersistsIs DEF Finalizes
  <2>4. InRequests(j) => worker[j].final # "needs_escalation"
    BY <2>2 DEF PlaceInv
  <2> QED
    BY <1>0, <2>1, <2>2, <2>3, <2>4, ToldOnward
      DEF TerminalSteps, SettleSteps, FinalSteps
<1>26. CASE FinalizesEscalation(j)
  <2>1. /\ channel' = channel /\ psr' = psr /\ store' = store
        /\ worker[j].pc # "finished"
    BY <1>26 DEF FinalizesEscalation, At, durable
  <2>2. worker'[j].pc \in {"settle_announce"}
    BY <1>26, AfterFinalizingIs DEF FinalizesEscalation
  <2> QED
    BY <1>0, <2>1, <2>2, ToldAfter DEF TerminalSteps, SettleSteps, FinalSteps
<1>27. CASE FinalizesLineage(j)
  <2>1. /\ channel' = channel /\ psr' = psr /\ store' = store
        /\ worker[j].pc # "finished"
    BY <1>27 DEF FinalizesLineage, At
  <2>2. worker'[j].pc \in {"final_release"}
    BY <1>27, GoToIs DEF FinalizesLineage, WorkerSteps, SettleSteps, FinalSteps
  <2> QED
    BY <1>0, <2>1, <2>2, ToldAfter DEF TerminalSteps, SettleSteps, FinalSteps
<1>28. CASE FinalizesRuntime(j)
  <2>1. /\ channel' = channel /\ psr' = psr /\ store' = store
        /\ worker[j].pc # "finished"
    BY <1>28 DEF FinalizesRuntime, At, durable
  <2>2. worker'[j].pc \in {"final_outcome"}
    BY <1>28, GoToIs DEF FinalizesRuntime, WorkerSteps, SettleSteps, FinalSteps
  <2> QED
    BY <1>0, <2>1, <2>2, ToldAfter DEF TerminalSteps, SettleSteps, FinalSteps
<1>29. CASE FinalizesOutcome(j)
  <2>1. /\ channel' = channel /\ psr' = psr /\ store' = store
        /\ worker[j].pc # "finished"
    BY <1>29 DEF FinalizesOutcome, At
  <2>2. worker'[j].pc \in {"settle_announce"}
    BY <1>29, AfterFinalizingIs DEF FinalizesOutcome
  <2> QED
    BY <1>0, <2>1, <2>2, ToldAfter DEF TerminalSteps, SettleSteps, FinalSteps
<1>30. CASE WriteRaises(j)
  <2>1. channel' = channel /\ psr' = psr /\ store' = store
    BY <1>30 DEF WriteRaises
  <2>2. /\ worker[j].pc # "finished"
        /\ worker'[j].pc \in {"settling", "settle_announce"}
    BY <1>30, WriteRaisesIs DEF RaisingSteps, HandlerSteps
  <2> QED
    BY <1>0, <2>1, <2>2, ToldAfter DEF TerminalSteps, SettleSteps, FinalSteps
<1>31. CASE WriteIsSwallowed(j)
  <2>1. channel' = channel /\ psr' = psr /\ store' = store
    BY <1>31 DEF WriteIsSwallowed
  <2>2. /\ worker[j].pc # "finished"
        /\ worker'[j].pc \in {"settle_outcome", "settle_lineage",
                               "settle_announce", "settle_release"}
    BY <1>31, WriteIsSwallowedIs
  <2> QED
    BY <1>0, <2>1, <2>2, ToldAfter DEF TerminalSteps, SettleSteps, FinalSteps
<1> QED
  BY <1>1, <1>2, <1>3, <1>4, <1>5, <1>6, <1>7, <1>8, <1>9, <1>10, <1>11, <1>12,
     <1>13, <1>14, <1>15, <1>16, <1>17, <1>18, <1>19, <1>20, <1>21, <1>22,
     <1>23, <1>24, <1>25, <1>26, <1>27, <1>28, <1>29, <1>30, <1>31
    DEF WorkerStep

(* A worker's step, of the job start() waits for or of another.            *)
LEMMA WorkerKeepsTold ==
  ASSUME TypeOK, JobInv, TurnInv, ToldInv, NEW j \in Jobs,
         WorkerStep(j) \/ WriteRaises(j) \/ WriteIsSwallowed(j)
  PROVE  ToldInv'
<1>1. RequestsNamed /\ PlaceInv(j) /\ StatusInv(j) /\ HandlesOwn(j)
  BY NamesFollow DEF TurnInv, HandlersInv, JobInv, WorkersIn
<1>2. Frame(j)
  BY <1>1, WorkerStepIs
<1>3. main' = main /\ main.job \in Jobs
  BY <1>2, MainTyped DEF Frame
<1>4. ASSUME NEW k \in Jobs, k = main.job, main.pc = "waiting"
      PROVE  Told(k)'
  <2>1. Told(k)
    BY <1>4 DEF ToldInv
  <2>2. CASE k = j
    BY <1>1, <2>1, <2>2, OwnTold
  <2>3. CASE k # j
    <3>1. ~ runtime[j]
      BY <1>4, <2>3 DEF JobInv, OneClaim, Claimed
    <3>2. worker[j].pc \notin RuntimeSteps
      BY <1>1, <3>1 DEF PlaceInv
    <3>3. psr' = psr
      BY <3>2, RegistryStep DEF RuntimeSteps, HandlerSteps
    <3>4. /\ worker'[k] = worker[k] /\ store'[k] = store[k]
          /\ runtime'[k] = runtime[k] /\ channel'[k] = channel[k]
      BY <1>2, <2>3 DEF Frame
    <3>5. (InJobs(k)' => InJobs(k)) /\ (InRequests(k)' => InRequests(k))
      BY <1>2, MissingStays DEF Frame
    <3> QED
      BY <2>1, <3>3, <3>4, <3>5 DEF Told
  <2> QED
    BY <2>2, <2>3
<1> QED
  BY <1>3, <1>4 DEF ToldInv

(* Only spawn_worker() lets start() wait.                                  *)
LEMMA OnlySpawnsWaits ==
  ASSUME TypeOK, Call \/ Continues
  PROVE  Spawns \/ main'.pc # "waiting"
<1>0. main \in Main /\ main.job \in Jobs
  BY MainTyped
<1>1. CASE \E j \in Jobs : GateReadsJobs(j)
  <2>1. PICK j \in Jobs : GateReadsJobs(j)
    BY <1>1
  <2> QED
    BY <1>0, <2>1, BeginIs DEF GateReadsJobs, MainSteps
<1>2. CASE \E j \in Jobs, r \in Requests : Validates(j, r)
  <2>1. PICK j \in Jobs, r \in Requests : Validates(j, r)
    BY <1>2
  <2> QED
    BY <1>0, <2>1, ValidatesIs DEF Validates, MainSteps
<1>3. CASE \E j \in Jobs : PollAborts(j)
  <2>1. PICK j \in Jobs : PollAborts(j)
    BY <1>3
  <2> QED
    BY <2>1 DEF PollAborts, Busy
<1>4. CASE \E j \in Jobs : DiscardReads(j)
  <2>1. PICK j \in Jobs : DiscardReads(j)
    BY <1>4
  <2> QED
    BY <1>0, <2>1, BeginIs DEF DiscardReads, MainSteps
<1>5. CASE GateReadsRuntimes
  <2>1. main' = MainIdle \/ Continue("gate_journal")
    BY <1>5 DEF GateReadsRuntimes, Continue
  <2> QED
    BY <1>0, <2>1, ContinueIs, MainIdleIs DEF MainSteps
<1>6. CASE WritesCreationIntent
  <2>1. main' = MainIdle \/ Continue("bootstrapping")
    BY <1>6 DEF WritesCreationIntent, Continue
  <2> QED
    BY <1>0, <2>1, ContinueIs, MainIdleIs DEF MainSteps
<1>7. CASE \E works \in BOOLEAN : Bootstraps(works)
  <2>1. main' = MainIdle \/ Continue("bootstrapped")
    BY <1>7 DEF Bootstraps, Continue
  <2> QED
    BY <1>0, <2>1, ContinueIs, MainIdleIs DEF MainSteps
<1>8. CASE WritesCreationDispatched
  BY <1>0, <1>8, ContinueIs DEF WritesCreationDispatched, MainSteps
<1>9. CASE RegistersRuntime
  BY <1>0, <1>9, ContinueIs DEF RegistersRuntime, MainSteps
<1>10. CASE CreatesHandle
  BY <1>0, <1>10, ContinueIs DEF CreatesHandle, MainSteps
<1>11. CASE CreatesJob
  BY <1>0, <1>11, ContinueIs DEF CreatesJob, MainSteps
<1>12. CASE WritesCreationCompleted
  BY <1>0, <1>12, ContinueIs DEF WritesCreationCompleted, MainSteps
<1>13. CASE StartRaises
  BY <1>0, <1>13, StartRaisesIs DEF StartRaises, MainSteps
<1>14. CASE CleansHandle
  BY <1>0, <1>14, CleaningJobIs DEF CleansHandle, MainSteps
<1>15. CASE CleansJob
  BY <1>0, <1>15, MainIdleIs DEF CleansJob, MainSteps
<1>16. CASE CleaningIsSwallowed
  BY <1>0, <1>16, CleaningIsSwallowedIs DEF CleaningIsSwallowed, MainSteps
<1>17. CASE CallRaises
  BY <1>0, <1>17, CallRaisesIs DEF CallRaises, MainSteps
<1>18. CASE Spawns
  BY <1>18
<1>19. CASE WaitReturns
  BY <1>0, <1>19, WaitReturnsIs DEF WaitReturns, MainSteps
<1>20. CASE Replies
  BY <1>0, <1>20, MainIdleIs DEF Replies, MainSteps
<1>21. CASE Reserves
  BY <1>0, <1>21, ContinueIs, MainIdleIs, ReservesIs DEF Reserves, MainSteps
<1>22. CASE WritesDecisionIntent
  BY <1>0, <1>22, ContinueIs DEF WritesDecisionIntent, MainSteps
<1>23. CASE DecisionIntentRaises
  BY <1>0, <1>23, MainIdleIs DEF DecisionIntentRaises, MainSteps
<1>24. CASE Commits
  BY <1>0, <1>24, MainIdleIs DEF Commits, MainSteps
<1>25. CASE DiscardWrites
  BY <1>0, <1>25, MainIdleIs DEF DiscardWrites, MainSteps
<1> QED
  BY <1>1, <1>2, <1>3, <1>4, <1>5, <1>6, <1>7, <1>8, <1>9, <1>10, <1>11, <1>12,
     <1>13, <1>14, <1>15, <1>16, <1>17, <1>18, <1>19, <1>20, <1>21, <1>22,
     <1>23, <1>24, <1>25
    DEF Call, Continues

(* The main thread, which waits from the spawn on.                         *)
LEMMA MainKeepsTold ==
  ASSUME TypeOK, Call \/ Continues
  PROVE  ToldInv'
<1>1. CASE Spawns
  <2>1. main.job \in Jobs /\ main'.job = main.job
    BY <1>1, MainTyped, ContinueIs DEF Spawns, MainSteps
  <2>2. ASSUME NEW k \in Jobs, k = main.job
        PROVE  Told(k)'
    <3>1. channel'[k].state = "open" /\ worker'[k].pc = "spawned"
      BY <1>1, <2>2, SpawnsIs
    <3> QED
      BY <3>1 DEF Told
  <2> QED
    BY <2>1, <2>2 DEF ToldInv
<1>2. CASE main'.pc # "waiting"
  BY <1>2 DEF ToldInv
<1> QED
  BY <1>1, <1>2, OnlySpawnsWaits

(* Timers, crashes and recovery.                                           *)
LEMMA OthersKeepTold ==
  ASSUME TypeOK, ToldInv,
         (\E r \in Requests : TimerFires(r)) \/ Crash \/ RecoveryStep
  PROVE  ToldInv'
<1>1. CASE \E r \in Requests : TimerFires(r)
  <2>1. UNCHANGED <<main, channel, worker, store, runtime, psr, lost>>
    BY <1>1 DEF TimerFires, durable, files
  <2> QED
    BY <2>1 DEF ToldInv, Told, InJobs, InRequests
<1>2. CASE Crash
  BY <1>2, CrashIs DEF ToldInv
<1>3. CASE RecoveryStep
  BY <1>3, RecoveryStepIs DEF Recovers, ToldInv
<1> QED
  BY <1>1, <1>2, <1>3

----------------------------------------------------------------------------
(* The theorems.                                                           *)

DelegationInv == TypeOK /\ JobInv /\ TurnInv /\ ToldInv

LEMMA InitTypes == Init => TypeOK
<1>1. /\ [status |-> "absent", promotion |-> "none", parked |-> 0]
            \in JobRecord
      /\ [status |-> "absent", job |-> 0] \in RequestRecord
  BY DEF JobRecord, RequestRecord
<1>2. NoEntry \in RegistryEntry /\ Closed \in Channel
  BY DEF NoEntry, RegistryEntry, Verdicts, Closed, Channel
<1>3. 0 \in 0..MaxCrashes /\ 0 \in 0..MaxFaults
  BY JobAssumption
<1> QED
  BY <1>1, <1>2, <1>3, NoWorkerIs, MainIdleIs DEF Init, TypeOK, Phases

(* The server starts with nothing stored and nothing running.              *)
LEMMA InitHolds == Init => DelegationInv
<1> SUFFICES ASSUME Init PROVE DelegationInv
  OBVIOUS
<1>1. /\ \A j \in Jobs :
            /\ store[j].status = "absent" /\ store[j].promotion = "none"
            /\ ~ runtime[j] /\ outcome[j] = "none"
            /\ worker[j].pc = "none" /\ worker[j].captured = 0
            /\ worker[j].announce = "empty"
      /\ \A r \in Requests : registry[r].state = "absent"
      /\ main.pc = "idle"
  BY NoWorkerIs, MainIdleIs DEF Init, NoEntry
<1>2. ~ Recovering
  BY <1>1 DEF Recovering
<1>3. OneClaim /\ FreshJobs /\ Unpromoted
  BY <1>1
    DEF OneClaim, Claimed, FreshJobs, NotStarted, Unpromoted, StartSteps,
        Unserved
<1>4. GateInv /\ StartInv
  BY <1>1 DEF GateInv, StartInv, StartSteps
<1>5. WorkersIn
  BY <1>1
    DEF WorkersIn, PlaceInv, StatusInv, RuntimeSteps, HandlerSteps, SettleSteps
<1>6. ServedInv
  BY <1>1 DEF ServedInv, Unserved
<1>7. RecoveryInv
  BY <1>1, <1>2
    DEF RecoveryInv, PassesInv, CreationPass, ApprovalPass, OrphanPass,
        OutcomePass
<1>8. HandlersInv
  BY <1>1 DEF HandlersInv, HandlesOwn, HandlerSteps
<1>9. DecideInv
  BY <1>1 DEF DecideInv
<1>10. OpenRequestIsParked /\ FinalizerFindsAnswer
  BY <1>1 DEF OpenRequestIsParked, FinalizerFindsAnswer, At
<1>11. ToldInv
  BY <1>1 DEF ToldInv
<1> QED
  BY <1>3, <1>4, <1>5, <1>6, <1>7, <1>8, <1>9, <1>10, <1>11, InitTypes
    DEF DelegationInv, JobInv, TurnInv

LEMMA StutterHolds ==
  ASSUME DelegationInv, UNCHANGED vars
  PROVE  DelegationInv'
<1>1. TypeOK /\ JobInv /\ TurnInv /\ ToldInv
  BY DEF DelegationInv
<1>2. /\ UNCHANGED <<store, psr, creation, approval, outcome, lineage>>
      /\ UNCHANGED <<torn, lost, runtime, registry, channel, worker, main>>
      /\ UNCHANGED <<crashes, faults>>
  BY DEF vars, durable, volatile, counters, files
<1>3. TypeOK'
  BY <1>1, <1>2 DEF TypeOK
<1>4. Recovering' = Recovering /\ LostGrows
  BY <1>1, <1>2, FilesKept DEF Recovering, files
<1>5. WorkersIn'
  BY <1>1, <1>2, <1>4, WorkersCarry DEF JobInv
<1>6. OneClaim'
  BY <1>1, <1>2, <1>4 DEF JobInv, OneClaim, Claimed, InJobs
<1>7. FreshJobs' /\ Unpromoted' /\ GateInv' /\ StartInv'
  BY <1>1, <1>2
    DEF JobInv, FreshJobs, NotStarted, Unpromoted, GateInv, StartInv, InJobs
<1>8. ServedInv'
  BY <1>1, <1>2, <1>4 DEF JobInv, ServedInv, InJobs
<1>9. PassesInv'
  BY <1>1, <1>2
    DEF JobInv, RecoveryInv, PassesInv, CreationClosed, ApprovalClosed,
        NoOrphan, HasOutcome, InJobs
<1>10. RecoveryInv'
  BY <1>1, <1>2, <1>4, <1>9 DEF JobInv, RecoveryInv
<1>11. JobInv'
  BY <1>5, <1>6, <1>7, <1>8, <1>10 DEF JobInv
<1>12. DecideInv'
  BY <1>1, <1>2 DEF TurnInv, DecideInv
<1>13. TurnFrame
  BY <1>2, <1>4, QuietTurns
<1>14. TurnInv'
  BY <1>1, <1>3, <1>12, <1>13, TurnsCarry
<1>15. ToldInv'
  BY <1>1, <1>2 DEF ToldInv, Told, InJobs, InRequests
<1> QED
  BY <1>3, <1>11, <1>14, <1>15 DEF DelegationInv

(* The invariant is kept by every step.                                    *)
LEMMA StepHolds ==
  ASSUME DelegationInv, [Next]_vars
  PROVE  DelegationInv'
<1>0. TypeOK /\ JobInv /\ TurnInv /\ ToldInv
  BY DEF DelegationInv
<1>1. ASSUME NEW j \in Jobs,
             WorkerStep(j) \/ WriteRaises(j) \/ WriteIsSwallowed(j)
      PROVE  DelegationInv'
  <2>1. RequestsNamed /\ PlaceInv(j)
    BY <1>0, NamesFollow DEF TurnInv, JobInv, WorkersIn
  <2>2. TypeOK'
    BY <1>0, <1>1, <2>1, WorkerStepIs
  <2>3. FinalizerFindsAnswer
    BY <1>0 DEF TurnInv
  <2>4. JobInv'
    BY <1>0, <1>1, <2>1, <2>3, WorkerKeepsJobs
  <2>5. TurnInv'
    BY <1>0, <1>1, WorkerKeepsTurns
  <2>6. ToldInv'
    BY <1>0, <1>1, WorkerKeepsTold
  <2> QED
    BY <2>2, <2>4, <2>5, <2>6 DEF DelegationInv
<1>2. CASE \E r \in Requests : TimerFires(r)
  BY <1>0, <1>2, TimerFiresIs, TimerKeepsJobs, TimerKeepsTurns, OthersKeepTold
    DEF DelegationInv
<1>3. CASE Call \/ Continues
  <2>1. TypeOK' /\ JobInv' /\ ToldInv'
    BY <1>0, <1>3, MainStepIs, MainKeepsJobs, MainKeepsTold
  <2>2. TurnFrame /\ DecideInv'
    BY <1>0, <1>3, MainStepTurns, MainStepDecides
  <2>3. TurnInv'
    BY <1>0, <2>1, <2>2, TurnsCarry
  <2> QED
    BY <2>1, <2>3 DEF DelegationInv
<1>4. CASE Crash
  BY <1>0, <1>4, CrashIs, CrashKeepsJobs, RestartKeepsTurns, OthersKeepTold
    DEF DelegationInv
<1>5. CASE RecoveryStep
  BY <1>0, <1>5, RecoveryStepIs, RecoveryKeepsJobs, RestartKeepsTurns,
     OthersKeepTold
    DEF DelegationInv
<1>6. CASE UNCHANGED vars
  BY <1>6, StutterHolds
<1> QED
  BY <1>1, <1>2, <1>3, <1>4, <1>5, <1>6 DEF Next, Quiescent

(* The invariant of every reachable state: through crashes, partial lines, *)
(* writes that raise and writes that are swallowed.                        *)
THEOREM DelegationInvariant == Spec => []DelegationInv
  BY InitHolds, StepHolds, PTL DEF Spec

(* What the stores, the tables and the threads hold has its type: no       *)
(* action of start(), decide(), the worker or the recovery leaves it.      *)
THEOREM TypeCorrect == Spec => []TypeOK
<1>1. DelegationInv => TypeOK
  BY DEF DelegationInv
<1> QED
  BY DelegationInvariant, <1>1, PTL

(* The busy gate works: whatever worker is at its clean-up while start()   *)
(* reads the three sources, at most one job has a runtime or is queued,    *)
(* running or waiting for a decision, but for the jobs whose end is        *)
(* missing from the job store.                                             *)
THEOREM OneJobLives == Spec => []OneLiveJob
<1>1. DelegationInv => OneLiveJob
  <2> DEFINE L == {j \in Jobs :
                     \/ runtime[j]
                     \/ store[j].status = "queued"
                     \/ /\ store[j].status \in {"running", "needs_escalation"}
                        /\ j \notin lost["jobs"]}
  <2> SUFFICES ASSUME DelegationInv, ~ Recovering PROVE Cardinality(L) <= 1
    BY DEF OneLiveJob
  <2>1. \A i, j \in L : i = j
    BY DEF DelegationInv, JobInv, OneClaim, Claimed, Unserved, InJobs
  <2> HIDE DEF L
  <2>2. CASE L = {}
    <3>1. Cardinality(L) = 0
      BY <2>2, FS_EmptySet
    <3> QED
      BY <3>1
  <2>3. CASE L # {}
    <3>1. PICK j \in L : TRUE
      BY <2>3
    <3>2. L = {j}
      BY <2>1, <3>1
    <3>3. Cardinality({j}) = 1
      BY FS_Singleton
    <3> QED
      BY <3>2, <3>3
  <2> QED
    BY <2>2, <2>3
<1> QED
  BY DelegationInvariant, <1>1, PTL

(* Outside recovery a job that its store shows as running or waiting for a *)
(* decision has its worker at work and a runtime for decide() to find, but *)
(* for the jobs a record of which is missing.                              *)
THEOREM ActiveJobsServed == Spec => []ActiveJobIsServed
<1>1. DelegationInv => ActiveJobIsServed
  <2> SUFFICES ASSUME DelegationInv, NEW j \in Jobs, ~ Recovering,
                      store[j].status \in Unserved, InJobs(j)
               PROVE  runtime[j] /\ (Live(j) \/ ~ InRequests(j))
    BY DEF ActiveJobIsServed, Unserved, InJobs, InRequests
  <2>1. worker[j].pc # "none"
    BY DEF DelegationInv, JobInv, ServedInv
  <2>2. StatusInv(j)
    BY DEF DelegationInv, JobInv, WorkersIn
  <2>3. runtime[j]
    BY <2>1, <2>2 DEF StatusInv
  <2>4. worker[j].pc = "finished" => ~ InRequests(j)
    BY <2>1, <2>2 DEF StatusInv, Terminal, Unserved
  <2> QED
    BY <2>1, <2>3, <2>4 DEF Live
<1> QED
  BY DelegationInvariant, <1>1, PTL

(* A request that can still be decided is the one its job is parked on,    *)
(* pending in the store, with its worker announcing it or waiting, but for *)
(* what is missing from the two stores.                                    *)
THEOREM OpenRequestsParked == Spec => []OpenRequestIsParked
<1>1. DelegationInv => OpenRequestIsParked
  BY DEF DelegationInv, TurnInv
<1> QED
  BY DelegationInvariant, <1>1, PTL

(* A turn that goes on or ends after a parkable request was captured finds *)
(* that request resolved or canceled: the guard of the finalizer.          *)
THEOREM FinalizerAnswered == Spec => []FinalizerFindsAnswer
<1>1. DelegationInv => FinalizerFindsAnswer
  BY DEF DelegationInv, TurnInv
<1> QED
  BY DelegationInvariant, <1>1, PTL

(* start() has an outcome by the time its worker blocks or ends, and that  *)
(* outcome is true of the stores and of the table of runtimes, but for     *)
(* what is missing from the two stores.                                    *)
THEOREM StartTold == Spec => []StartIsTold
<1>1. DelegationInv => StartIsTold
  BY DEF DelegationInv, ToldInv, Told, StartIsTold, InJobs, InRequests
<1> QED
  BY DelegationInvariant, <1>1, PTL

(* The server serves calls again only after recover_startup() has closed   *)
(* the journal, left no job that claims to be served and given every       *)
(* terminal job its outcome record, but for the records whose write it     *)
(* swallowed or that fell on a partial line, and however often it died on  *)
(* the way.                                                                *)
THEOREM RecoveryCompletes == Spec => RecoveryIsComplete
<1> DEFINE Complete ==
      Recovering /\ main'.pc = "idle" =>
          \A j \in Jobs :
             /\ j \notin lost'["journal"] =>
                   /\ ~ Unresolved(creation'[j])
                   /\ \A r \in Requests : ~ Unresolved(approval'[j][r])
             /\ j \notin lost'["jobs"] =>
                   store'[j].status \notin {"running", "needs_escalation"}
             /\ store'[j].status \in Terminal /\ j \notin lost'["outcomes"]
                   => outcome'[j] \in Terminal
<1>1. DelegationInv /\ [Next]_vars => Complete
  <2> SUFFICES ASSUME DelegationInv, [Next]_vars, Recovering,
                      main'.pc = "idle"
               PROVE  Complete
    BY DEF Complete
  <2> HIDE DEF Complete
  <2>0. TypeOK /\ JobInv /\ TurnInv
    BY DEF DelegationInv
  <2>1. main.pc # "idle"
    BY DEF Recovering
  <2>2. ASSUME NEW j \in Jobs,
               WorkerStep(j) \/ WriteRaises(j) \/ WriteIsSwallowed(j)
        PROVE  FALSE
    <3>1. RequestsNamed /\ PlaceInv(j)
      BY <2>0, NamesFollow DEF TurnInv, JobInv, WorkersIn
    <3> QED
      BY <2>0, <2>1, <2>2, <3>1, WorkerStepIs DEF Frame
  <2>3. ASSUME NEW r \in Requests, TimerFires(r) PROVE FALSE
    BY <2>1, <2>3 DEF TimerFires
  <2>4. CASE Call \/ Continues
    BY <2>0, <2>4, MainStepIs
  <2>5. CASE Crash
    BY <2>0, <2>5, CrashIs
  <2>6. CASE RecoveryStep
    <3>1. \A k \in Jobs : Settled(k)'
      BY <2>0, <2>6, RecoveryAdvances
    <3> QED
      BY <3>1
        DEF Complete, Settled, CreationClosed, ApprovalClosed, NoOrphan,
            HasOutcome, InJobs, Unserved, Unresolved
  <2>7. CASE UNCHANGED vars
    BY <2>1, <2>7 DEF vars, volatile
  <2> QED
    BY <2>2, <2>3, <2>4, <2>5, <2>6, <2>7 DEF Next, Quiescent
<1>2. Complete => (Recovering /\ main'.pc = "idle" =>
          \A j \in Jobs :
             /\ j \notin lost'["journal"] =>
                   /\ ~ Unresolved(creation'[j])
                   /\ \A r \in Requests : ~ Unresolved(approval'[j][r])
             /\ j \notin lost'["jobs"] =>
                   store'[j].status \notin {"running", "needs_escalation"}
             /\ store'[j].status \in Terminal /\ j \notin lost'["outcomes"]
                   => outcome'[j] \in Terminal)
  OBVIOUS
<1> QED
  BY DelegationInvariant, <1>1, <1>2, PTL DEF Spec, RecoveryIsComplete
=============================================================================
