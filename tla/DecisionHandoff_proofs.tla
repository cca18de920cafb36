----------------------- MODULE DecisionHandoff_proofs -----------------------
(***************************************************************************)
(* Proofs about DecisionHandoff for any set of request ids and any bound.  *)
(***************************************************************************)
EXTENDS DecisionHandoff, TLAPS

----------------------------------------------------------------------------
(* Types.                                                                  *)

LEMMA ConstantTypes ==
    /\ AnyRequest \in Requests
    /\ NoResolution \in Resolutions
    /\ NoEntry \in Entry
    /\ NoTimer \in Timer
    /\ NoWorker \in Worker
    /\ MainIdle \in Main
  <1>1. AnyRequest \in Requests
    BY RegistryAssumption DEF AnyRequest
  <1>2. NoResolution \in Resolutions
    BY DEF NoResolution, Resolutions
  <1>3. NoEntry \in Entry
    BY <1>2 DEF NoEntry, Entry, EntryStates
  <1>4. NoTimer \in Timer
    BY <1>1 DEF NoTimer, Timer, TimerStates
  <1>5. NoWorker \in Worker
    BY <1>2 DEF NoWorker, Worker, WorkerStates
  <1>6. MainIdle \in Main
    BY <1>1 DEF MainIdle, Main, MainStates, OperatorVerdicts
  <1>7. QED
    BY <1>1, <1>2, <1>3, <1>4, <1>5, <1>6

LEMMA ResolutionTypes ==
    /\ \A v \in Verdicts : Resolution(v) \in Resolutions
    /\ \A g \in Generations : TimeoutResolution(g) \in Resolutions
  BY DEF Resolution, TimeoutResolution, Resolutions, Verdicts

(* Canceling a timer, and committing a reservation, keep the types.        *)
LEMMA CanceledType ==
    ASSUME NEW ts \in [Generations -> Timer], NEW g
    PROVE  Canceled(ts, g) \in [Generations -> Timer]
  BY DEF Canceled, Timer, TimerStates

LEMMA CommitTypes ==
    ASSUME TypeOK, NEW r \in Requests, NEW t
    PROVE  /\ CommittedEntries(r, t) \in [Requests -> Entry]
           /\ CommittedTimers(r, t) \in [Generations -> Timer]
  <1>1. CommittedEntries(r, t) \in [Requests -> Entry]
    BY DEF CommittedEntries, TypeOK, RegistryTypeOK, Entry, EntryStates
  <1>2. CommittedTimers(r, t) \in [Generations -> Timer]
    BY CanceledType DEF CommittedTimers, TypeOK, RegistryTypeOK
  <1>3. QED
    BY <1>1, <1>2

LEMMA TypeInit == Init => TypeOK
  <1> SUFFICES ASSUME Init PROVE TypeOK
    OBVIOUS
  <1>1. RegistryTypeOK
    BY ConstantTypes DEF Init, RegistryInit, RegistryTypeOK
  <1>2. failures \in 0..MaxIntentFailures
    BY HandoffAssumption DEF Init
  <1>3. QED
    BY <1>1, <1>2, ConstantTypes DEF Init, TypeOK

LEMMA ParkType ==
    ASSUME TypeOK, NEW r \in Requests, Park(r) PROVE TypeOK'
  <1>1. nextGeneration + 1 \in Generations
    BY RegistryAssumption
    DEF TypeOK, RegistryTypeOK, Park, Register, Generations
  <1>2. entries' \in [Requests -> Entry]
    BY <1>1, ConstantTypes
    DEF TypeOK, RegistryTypeOK, Park, Register, Entry, EntryStates
  <1>3. timer' \in [Generations -> Timer]
    BY <1>1 DEF TypeOK, RegistryTypeOK, Park, Register, Timer, TimerStates
  <1>4. worker' \in [Generations -> Worker]
    BY <1>1 DEF TypeOK, Park, Worker, WorkerStates
  <1>5. QED
    BY <1>1, <1>2, <1>3, <1>4 DEF TypeOK, RegistryTypeOK, Park, Register

LEMMA WorkerStepType ==
    ASSUME TypeOK, NEW g \in Generations, WorkerStep(g) PROVE TypeOK'
  <1> USE DEF TypeOK, RegistryTypeOK, registryVars
  <1>1. RequestOf(g) \in Requests
    BY DEF RequestOf, Timer
  <1>2. CASE Wakes(g)
    BY <1>2 DEF Wakes, Worker, WorkerStates
  <1>3. CASE TakesResolution(g)
    BY <1>1, <1>3 DEF TakesResolution, Worker, WorkerStates, Entry
  <1>4. CASE Leaves(g)
    <2>1. entries' \in [Requests -> Entry]
      BY <1>4, ConstantTypes DEF Leaves, Discard
    <2>2. timer' \in [Generations -> Timer]
      BY <1>4, CanceledType DEF Leaves, Discard
    <2>3. worker' \in [Generations -> Worker]
      BY <1>4 DEF Leaves, Worker, WorkerStates
    <2>4. QED
      BY <1>4, <2>1, <2>2, <2>3 DEF Leaves
  <1>5. CASE HandlerRaises(g)
    BY <1>5 DEF HandlerRaises, Worker, WorkerStates
  <1>6. QED
    BY <1>2, <1>3, <1>4, <1>5 DEF WorkerStep

LEMMA TimerRunsType ==
    ASSUME TypeOK, NEW g \in Generations, TimerRuns(g) PROVE TypeOK'
  <1> USE DEF TypeOK, RegistryTypeOK, TimerRuns
  <1>1. timer[g].request \in Requests
    BY DEF Timer
  <1>2. CASE TimerExpires(g)
    BY <1>2 DEF TimerExpires, Timer, TimerStates
  <1>3. CASE TimerLooksUp(g)
    BY <1>3 DEF TimerLooksUp, Timer, TimerStates
  <1>4. CASE TimerReserves(g)
    <2>1. entries' \in [Requests -> Entry]
      BY <1>1, <1>4, ResolutionTypes
      DEF TimerReserves, Reserve, Entry, EntryStates
    <2>2. timer' \in [Generations -> Timer]
      BY <1>1, <1>4 DEF TimerReserves, Timer, TimerStates, Entry
    <2>3. QED
      BY <1>4, <2>1, <2>2 DEF TimerReserves
  <1>5. CASE TimerCommits(g)
    <2>1. /\ entries' \in [Requests -> Entry]
          /\ CommittedTimers(timer[g].request, timer[g].token)
               \in [Generations -> Timer]
      BY <1>1, <1>5, CommitTypes DEF TimerCommits
    <2>2. timer' \in [Generations -> Timer]
      BY <1>5, <2>1 DEF TimerCommits, Timer, TimerStates
    <2>3. QED
      BY <1>5, <2>1, <2>2 DEF TimerCommits
  <1>6. CASE TimerSignals(g)
    BY <1>6 DEF TimerSignals, SetEvent, Timer, TimerStates
  <1>7. QED
    BY <1>2, <1>3, <1>4, <1>5, <1>6 DEF TimerStep

LEMMA DecideReservesType ==
    ASSUME TypeOK, NEW r \in Requests, NEW v \in OperatorVerdicts,
           DecideReserves(r, v)
    PROVE  TypeOK'
  <1>1. entries' \in [Requests -> Entry]
    BY ResolutionTypes
    DEF TypeOK, RegistryTypeOK, DecideReserves, Reserve, Entry, EntryStates,
        OperatorVerdicts, Verdicts
  <1>2. main' \in Main
    BY DEF TypeOK, RegistryTypeOK, DecideReserves, Main, MainStates, Entry
  <1>3. QED
    BY <1>1, <1>2 DEF TypeOK, RegistryTypeOK, DecideReserves

LEMMA AbortsRequestType ==
    ASSUME TypeOK, NEW r \in Requests, AbortsRequest(r) PROVE TypeOK'
  <1>1. entries' \in [Requests -> Entry]
    BY ResolutionTypes
    DEF TypeOK, RegistryTypeOK, AbortsRequest, InternalAbort, Entry,
        EntryStates, Verdicts
  <1>2. timer' \in [Generations -> Timer]
    BY CanceledType DEF TypeOK, RegistryTypeOK, AbortsRequest, InternalAbort
  <1>3. main' \in Main
    BY DEF TypeOK, RegistryTypeOK, AbortsRequest, Main, MainStates, Entry
  <1>4. QED
    BY <1>1, <1>2, <1>3 DEF TypeOK, RegistryTypeOK, AbortsRequest

LEMMA MainContinuesType ==
    ASSUME TypeOK, MainContinues PROVE TypeOK'
  <1> USE DEF TypeOK, RegistryTypeOK, registryVars
  <1>1. main.request \in Requests
    BY DEF Main
  <1>2. CASE DecideWritesIntent
    BY <1>2 DEF DecideWritesIntent, Main, MainStates
  <1>3. CASE DecideIntentFails
    <2>1. entries' \in [Requests -> Entry]
      BY <1>1, <1>3, ConstantTypes
      DEF DecideIntentFails, AbortReservation, Entry, EntryStates
    <2>2. intent' \in [Generations -> OperatorVerdicts \cup {"none"}]
      BY <1>3 DEF DecideIntentFails, Main
    <2>3. failures' \in 0..MaxIntentFailures
      BY <1>3, HandoffAssumption DEF DecideIntentFails
    <2>4. QED
      BY <1>3, <2>1, <2>2, <2>3, ConstantTypes DEF DecideIntentFails
  <1>4. CASE DecideCommits
    <2>1. main' \in Main
      BY <1>4, ConstantTypes DEF DecideCommits, Main, MainStates
    <2>2. QED
      BY <1>1, <1>4, <2>1, CommitTypes DEF DecideCommits
  <1>5. CASE MainSignals
    BY <1>5, ConstantTypes DEF MainSignals, SetEvent
  <1>6. QED
    BY <1>2, <1>3, <1>4, <1>5 DEF MainContinues

LEMMA TypeNext == TypeOK /\ [Next]_vars => TypeOK'
  <1> SUFFICES ASSUME TypeOK, [Next]_vars PROVE TypeOK'
    OBVIOUS
  <1>1. CASE UNCHANGED vars
    BY <1>1 DEF vars, TypeOK, RegistryTypeOK
  <1>2. QED
    BY <1>1, ParkType, WorkerStepType, TimerRunsType, DecideReservesType,
       AbortsRequestType, MainContinuesType
    DEF Next, Quiescent

(* Registry, threads and journal keep their types in every reachable state,*)
(* so no thread ever holds a token of a generation that was not handed out.*)
THEOREM TypeCorrect == Spec => []TypeOK
  <1>1. QED
    BY TypeInit, TypeNext, PTL DEF Spec

----------------------------------------------------------------------------
(* The inductive invariant.                                                *)

(* Timer.cancel() never touches what a timer holds, and stops it only while*)
(* it still waits.                                                         *)
LEMMA CanceledEffect ==
    ASSUME NEW ts \in [Generations -> Timer], NEW t, NEW h \in Generations
    PROVE  /\ Canceled(ts, t)[h].request = ts[h].request
           /\ Canceled(ts, t)[h].token = ts[h].token
           /\ \/ Canceled(ts, t)[h].pc = ts[h].pc
              \/ ts[h].pc = "armed" /\ Canceled(ts, t)[h].pc = "canceled"
  BY DEF Canceled, Timer

LEMMA RegisteredAreGenerations ==
    ASSUME TypeOK PROVE Registered \subseteq Generations
  BY RegistryAssumption DEF TypeOK, RegistryTypeOK, Registered, Generations

LEMMA RequestTypes ==
    ASSUME TypeOK
    PROVE  /\ \A g \in Generations : RequestOf(g) \in Requests
           /\ main.request \in Requests
  BY DEF TypeOK, RegistryTypeOK, RequestOf, Timer, Main

LEMMA ResolutionFields ==
    ASSUME NEW x
    PROVE  /\ TimeoutResolution(x).by = "timeout"
           /\ TimeoutResolution(x).timer = x
           /\ Resolution(x).by = x
  BY DEF TimeoutResolution, Resolution

(* No two threads hold a reservation of the same request: each would find  *)
(* its own resolution in the one entry.                                    *)
LEMMA Holders ==
    ASSUME HandoffInv
    PROVE  /\ \A g \in Generations :
                 main.pc \in {"reserved", "intended"}
                       /\ timer[g].pc = "claimed"
                    => RequestOf(g) # main.request
           /\ \A g, h \in Generations :
                 timer[g].pc = "claimed" /\ timer[h].pc = "claimed" /\ g # h
                    => RequestOf(g) # RequestOf(h)
  <1>1. main.verdict # "timeout"
    BY DEF HandoffInv, TypeOK, Main, OperatorVerdicts
  <1>2. QED
    BY <1>1, ResolutionFields DEF HandoffInv, ReservationIsExclusive

(* A step that changes one entry, keeps its generation and no other entry. *)
Moves(r, state, pending) ==
    /\ entries'[r].state = state
    /\ entries'[r].generation = entries[r].generation
    /\ entries'[r].pending = pending
    /\ \A q \in Requests : q # r => entries'[q] = entries[q]

(* A step that at most cancels a timer that still waits.                   *)
TimerKept(h) ==
    /\ timer'[h].request = timer[h].request
    /\ timer'[h].token = timer[h].token
    /\ \/ timer'[h].pc = timer[h].pc
       \/ timer[h].pc = "armed" /\ timer'[h].pc = "canceled"

(* Setting the event of generation t wakes no worker too early.            *)
SignalsDecided(t) ==
    t \in Registered /\ (Current(t) => Decided(RequestOf(t)))

(* What every move of an undecided entry along the entry's states keeps,   *)
(* whichever thread makes it.                                              *)
LEMMA MoveKeeps ==
    ASSUME HandoffInv, NEW r \in Requests, NEW state, NEW pending,
           Moves(r, state, pending),
           entries[r].state # "absent",
           \/ state = "awaiting" /\ pending = NoResolution
           \/ /\ state \in {"reserved", "consuming", "aborted"}
              /\ pending.by \in Verdicts,
           ~ Decided(r),
           UNCHANGED <<worker, nextGeneration, event>>,
           \A h \in Generations :
              /\ timer'[h].request = timer[h].request
              /\ timer'[h].pc = "unset" <=> timer[h].pc = "unset"
    PROVE  /\ GenerationInv'
           /\ EntryInv'
           /\ WorkerInv'
           /\ \A h \in Generations : event'[h] /\ Current(h)' =>
                    Decided(RequestOf(h))'
           /\ \A h \in Generations : RequestOf(h)' = RequestOf(h)
           /\ \A h \in Generations : Current(h)' <=> Current(h)
           /\ \A t \in Generations : SignalsDecided(t) => SignalsDecided(t)'
  <1>1. \A h \in Generations : RequestOf(h)' = RequestOf(h)
    BY DEF RequestOf
  <1>2. \A q \in Requests : entries'[q].generation = entries[q].generation
    BY DEF Moves
  <1>3. \A h \in Generations : Current(h)' <=> Current(h)
    BY <1>1, <1>2, RequestTypes DEF HandoffInv, Current
  <1>4. \A q \in Requests : Decided(q) => Decided(q)'
    BY DEF Moves, Decided
  <1>5. GenerationInv'
    BY DEF HandoffInv, GenerationInv, Registered
  <1>6. EntryInv'
    <2> SUFFICES ASSUME NEW q \in Requests PROVE EntryInv!(q)'
      BY DEF EntryInv
    <2>1. CASE q = r
      BY <1>1, <1>2, <2>1, RegisteredAreGenerations
      DEF HandoffInv, EntryInv, Registered, Moves
    <2>2. CASE q # r
      BY <1>1, <2>2, RegisteredAreGenerations
      DEF HandoffInv, EntryInv, Registered, Moves
    <2>3. QED
      BY <2>1, <2>2
  <1>7. WorkerInv'
    BY <1>1, <1>3, <1>4, RequestTypes DEF HandoffInv, WorkerInv
  <1>8. \A h \in Generations : event'[h] /\ Current(h)' =>
           Decided(RequestOf(h))'
    BY <1>1, <1>3, <1>4, RequestTypes DEF HandoffInv, EventInv
  <1>9. \A t \in Generations : SignalsDecided(t) => SignalsDecided(t)'
    BY <1>1, <1>3, <1>4, RequestTypes
    DEF SignalsDecided, Registered, HandoffInv
  <1>10. QED
    BY <1>1, <1>3, <1>4, <1>5, <1>6, <1>7, <1>8, <1>9

----------------------------------------------------------------------------
(* Steps of the one-decision channel: each of its actions, and what of the *)
(* detailed state shows as one.                                            *)

(* What DecisionOf and Delivered show of a generation stays the same.      *)
SameDecision(g) ==
    /\ DecisionOf(g)' = DecisionOf(g)
    /\ Delivered(g)' = Delivered(g)

(* A step of the one-decision channel, or none.                            *)
AbstractStep == Abstract!Next \/ UNCHANGED Abstract!vars

LEMMA SameIsStutter ==
    ASSUME \A g \in Generations : SameDecision(g)
    PROVE  UNCHANGED Abstract!vars
  BY DEF SameDecision, Abstract!vars

LEMMA OneDecides ==
    ASSUME NEW p \in Generations, NEW v \in Verdicts,
           DecisionOf(p) = "open", DecisionOf(p)' = v,
           Delivered(p)' = Delivered(p),
           \A g \in Generations : g # p => SameDecision(g)
    PROVE  Abstract!Next
  <1>1. Abstract!Decide(p, v)
    BY DEF SameDecision, Abstract!Decide
  <1>2. v \in Abstract!Verdicts
    BY DEF Verdicts, Abstract!Verdicts
  <1>3. QED
    BY <1>1, <1>2 DEF Abstract!Next

LEMMA OneParks ==
    ASSUME NEW p \in Generations,
           DecisionOf(p) = "closed", DecisionOf(p)' = "open",
           Delivered(p)' = Delivered(p),
           \A g \in Generations : g # p => SameDecision(g)
    PROVE  Abstract!Next
  <1>1. Abstract!Park(p)
    BY DEF SameDecision, Abstract!Park
  <1>2. QED
    BY <1>1 DEF Abstract!Next

LEMMA OneIsHanded ==
    ASSUME NEW p \in Generations,
           DecisionOf(p) \in Verdicts, DecisionOf(p)' = DecisionOf(p),
           ~ Delivered(p), Delivered(p)',
           \A g \in Generations : g # p => SameDecision(g)
    PROVE  Abstract!Next
  <1>1. Abstract!Deliver(p)
    BY DEF SameDecision, Abstract!Deliver, Verdicts, Abstract!Verdicts,
           Delivered
  <1>2. QED
    BY <1>1 DEF Abstract!Next

LEMMA EntryKept ==
    ASSUME NEW g \in Generations,
           worker'[g].pc = worker[g].pc,
           worker'[g].got = worker[g].got,
           worker[g].pc \in {"waiting", "woken"} =>
              /\ Decided(RequestOf(g))' <=> Decided(RequestOf(g))
              /\ Decided(RequestOf(g)) =>
                    entries'[RequestOf(g)'].pending
                       = entries[RequestOf(g)].pending
    PROVE  SameDecision(g)
  BY DEF SameDecision, DecisionOf, Delivered

(* A move of an undecided entry decides its parking, or does not show.     *)
LEMMA MovesRefine ==
    ASSUME HandoffInv, NEW r \in Requests, NEW state, NEW pending,
           Moves(r, state, pending),
           ~ Decided(r), entries[r].state # "absent",
           UNCHANGED worker,
           \A h \in Generations : RequestOf(h)' = RequestOf(h)
    PROVE  /\ state \in {"awaiting", "reserved"} => UNCHANGED Abstract!vars
           /\ state \in {"consuming", "aborted"} /\ pending.by \in Verdicts
                 => Abstract!Next
  <1> DEFINE p == entries[r].generation
  <1>1. p \in Generations /\ RequestOf(p) = r /\ Current(p)
    BY RegisteredAreGenerations DEF HandoffInv, EntryInv, Current
  <1>2. worker[p].pc = "waiting"
    BY <1>1 DEF HandoffInv, WorkerInv
  <1>3. \A h \in Generations : h # p => SameDecision(h)
    <2> SUFFICES ASSUME NEW h \in Generations, h # p PROVE SameDecision(h)
      OBVIOUS
    <2>1. worker[h].pc \in {"waiting", "woken"} =>
             entries'[RequestOf(h)] = entries[RequestOf(h)]
      BY <1>1, RequestTypes DEF HandoffInv, WorkerInv, Current, Moves
    <2>2. QED
      BY <2>1, EntryKept DEF Decided
  <1>4. CASE state \in {"awaiting", "reserved"}
    <2>1. SameDecision(p)
      BY <1>1, <1>2, <1>4, EntryKept DEF Moves, Decided
    <2>2. QED
      BY <1>3, <1>4, <2>1, SameIsStutter
  <1>5. CASE state \in {"consuming", "aborted"} /\ pending.by \in Verdicts
    <2>1. DecisionOf(p) = "open"
      BY <1>1, <1>2 DEF DecisionOf
    <2>2. \A g \in Generations : g = p =>
             /\ DecisionOf(g)' = pending.by
             /\ Delivered(g)' = Delivered(g)
      BY <1>1, <1>2, <1>5 DEF DecisionOf, Delivered, Moves, Decided
    <2>3. QED
      BY <1>1, <1>3, <1>5, <2>1, <2>2, OneDecides
  <1>6. QED
    BY <1>4, <1>5

LEMMA StillEntriesRefine ==
    ASSUME UNCHANGED <<entries, worker>>,
           \A h \in Generations : RequestOf(h)' = RequestOf(h)
    PROVE  UNCHANGED Abstract!vars
  <1>1. \A h \in Generations : SameDecision(h)
    BY DEF SameDecision, DecisionOf, Delivered, Decided
  <1>2. QED
    BY <1>1, SameIsStutter

----------------------------------------------------------------------------
(* Each action keeps the inductive invariant and is a step of the channel. *)

LEMMA TimerReservesStep ==
    ASSUME HandoffInv, TypeOK', NEW g \in Generations, TimerRuns(g),
           TimerReserves(g), CanReserve(RequestOf(g))
    PROVE  HandoffInv' /\ AbstractStep
  <1> DEFINE r == RequestOf(g)
  <1>1. /\ UNCHANGED <<worker, main, intent, failures, event, nextGeneration>>
        /\ timer[g].pc = "looked_up"
        /\ entries[r].state = "awaiting"
        /\ entries' = [entries EXCEPT ![r].state = "reserved",
                                      ![r].pending = TimeoutResolution(g)]
        /\ timer' = [timer EXCEPT ![g].pc = "claimed",
                                  ![g].token = entries[r].generation]
    BY DEF TimerRuns, TimerReserves, CanReserve, Reserve, RequestOf
  <1>2. r \in Requests
    BY RequestTypes DEF HandoffInv
  <1>3. Moves(r, "reserved", TimeoutResolution(g))
    BY <1>1, <1>2 DEF HandoffInv, TypeOK, RegistryTypeOK, Entry, Moves
  <1>4. /\ timer'[g].pc = "claimed"
        /\ timer'[g].token = entries[r].generation
        /\ timer'[g].request = timer[g].request
        /\ \A h \in Generations : h # g => timer'[h] = timer[h]
    BY <1>1 DEF HandoffInv, TypeOK, RegistryTypeOK, Timer
  <1>5. /\ GenerationInv' /\ EntryInv' /\ WorkerInv'
        /\ \A h \in Generations : event'[h] /\ Current(h)' =>
                 Decided(RequestOf(h))'
        /\ \A h \in Generations : RequestOf(h)' = RequestOf(h)
        /\ \A h \in Generations : Current(h)' <=> Current(h)
        /\ \A t \in Generations : SignalsDecided(t) => SignalsDecided(t)'
    <2>1. ~ Decided(r) /\ TimeoutResolution(g).by \in Verdicts
      BY <1>1, ResolutionFields DEF Decided, Verdicts
    <2>2. \A h \in Generations :
             /\ timer'[h].request = timer[h].request
             /\ timer'[h].pc = "unset" <=> timer[h].pc = "unset"
      BY <1>1, <1>4
    <2>3. QED
      BY <1>1, <1>2, <1>3, <2>1, <2>2, MoveKeeps
  <1>6. EventInv'
    BY <1>1, <1>4, <1>5, RegisteredAreGenerations
    DEF HandoffInv, EventInv, SignalsDecided
  <1>7. ReservationIsExclusive'
    <2>1. main.pc \in {"reserved", "intended"} =>
             entries'[main.request] = entries[main.request]
      BY <1>1, <1>3, RequestTypes
      DEF HandoffInv, ReservationIsExclusive, CommitTakesEffect, Moves
    <2>2. \A h \in Generations : h # g /\ timer[h].pc = "claimed" =>
             entries'[RequestOf(h)] = entries[RequestOf(h)]
      BY <1>1, <1>3, RequestTypes
      DEF HandoffInv, ReservationIsExclusive, CommitTakesEffect, Moves
    <2>3. /\ entries'[r].state = "reserved"
          /\ entries'[r].generation = timer'[g].token
          /\ entries'[r].pending = TimeoutResolution(g)
      BY <1>3, <1>4 DEF Moves
    <2>4. main.pc \in {"reserved", "intended"} =>
             /\ CommitTakesEffect(main.request, main.token)'
             /\ entries'[main.request].pending = Resolution(main.verdict)
      BY <1>1, <2>1 DEF HandoffInv, ReservationIsExclusive, CommitTakesEffect
    <2>5. ASSUME NEW h \in Generations, timer'[h].pc = "claimed"
          PROVE  /\ CommitTakesEffect(RequestOf(h), timer[h].token)'
                 /\ entries'[RequestOf(h)'].pending = TimeoutResolution(h)
      <3>1. CASE h = g
        BY <1>5, <2>3, <3>1 DEF CommitTakesEffect
      <3>2. CASE h # g
        BY <1>4, <1>5, <2>2, <2>5, <3>2
        DEF HandoffInv, ReservationIsExclusive, CommitTakesEffect
      <3>3. QED
        BY <3>1, <3>2
    <2>6. QED
      BY <1>1, <2>4, <2>5 DEF ReservationIsExclusive
  <1>8. JournalInv'
    BY <1>1, <1>2, <1>3
    DEF HandoffInv, JournalInv, OperatorVerdictIsJournaled, Decided, Moves
  <1>9. AbstractStep
    BY <1>1, <1>2, <1>3, <1>5, MovesRefine DEF Decided, AbstractStep
  <1>10. QED
    BY <1>9, <1>5, <1>6, <1>7, <1>8 DEF HandoffInv

LEMMA DecideReservesStep ==
    ASSUME HandoffInv, TypeOK', NEW r \in Requests, NEW v \in OperatorVerdicts,
           DecideReserves(r, v)
    PROVE  HandoffInv' /\ AbstractStep
  <1>1. /\ UNCHANGED <<worker, intent, event, nextGeneration, timer>>
        /\ main.pc = "idle"
        /\ entries[r].state = "awaiting"
        /\ entries' = [entries EXCEPT ![r].state = "reserved",
                                      ![r].pending = Resolution(v)]
        /\ main' = [pc |-> "reserved", request |-> r,
                    token |-> entries[r].generation, verdict |-> v]
    BY DEF DecideReserves, CanReserve, Reserve
  <1>3. Moves(r, "reserved", Resolution(v))
    BY <1>1 DEF HandoffInv, TypeOK, RegistryTypeOK, Entry, Moves
  <1>5. /\ GenerationInv' /\ EntryInv' /\ WorkerInv'
        /\ \A h \in Generations : event'[h] /\ Current(h)' =>
                 Decided(RequestOf(h))'
        /\ \A h \in Generations : RequestOf(h)' = RequestOf(h)
        /\ \A h \in Generations : Current(h)' <=> Current(h)
        /\ \A t \in Generations : SignalsDecided(t) => SignalsDecided(t)'
    BY <1>1, <1>3, MoveKeeps, ResolutionFields
    DEF Decided, Verdicts, OperatorVerdicts
  <1>6. EventInv'
    BY <1>1, <1>5, RegisteredAreGenerations
    DEF HandoffInv, EventInv, SignalsDecided
  <1>7. ReservationIsExclusive'
    <2>1. \A h \in Generations : timer[h].pc = "claimed" =>
             entries'[RequestOf(h)] = entries[RequestOf(h)]
      BY <1>1, <1>3, RequestTypes
      DEF HandoffInv, ReservationIsExclusive, CommitTakesEffect, Moves
    <2>2. /\ entries'[main'.request].state = "reserved"
          /\ entries'[main'.request].generation = main'.token
          /\ entries'[main'.request].pending = Resolution(main'.verdict)
      BY <1>1, <1>3 DEF Moves
    <2>3. QED
      BY <1>1, <1>5, <2>1, <2>2
      DEF HandoffInv, ReservationIsExclusive, CommitTakesEffect
  <1>8. JournalInv'
    BY <1>1, <1>3
    DEF HandoffInv, JournalInv, OperatorVerdictIsJournaled, Decided, Moves
  <1>9. AbstractStep
    BY <1>1, <1>3, <1>5, MovesRefine DEF Decided, AbstractStep
  <1>10. QED
    BY <1>9, <1>5, <1>6, <1>7, <1>8 DEF HandoffInv

LEMMA TimerCommitsStep ==
    ASSUME HandoffInv, TypeOK', NEW g \in Generations, TimerRuns(g),
           TimerCommits(g)
    PROVE  HandoffInv' /\ AbstractStep
  <1> DEFINE r == RequestOf(g)
             t == timer[g].token
  <1>1. /\ UNCHANGED <<worker, main, intent, failures, event, nextGeneration>>
        /\ timer[g].pc = "claimed"
        /\ r \in Requests
    BY RequestTypes DEF TimerRuns, TimerCommits, HandoffInv
  <1>2. CommitTakesEffect(r, t) /\ entries[r].pending = TimeoutResolution(g)
    BY <1>1 DEF HandoffInv, ReservationIsExclusive
  <1>3. /\ entries' = [entries EXCEPT ![r].state = "consuming"]
        /\ timer' = [Canceled(timer, t) EXCEPT ![g].pc = "committed"]
    BY <1>2 DEF TimerCommits, CommittedEntries, CommittedTimers, RequestOf
  <1>4. Moves(r, "consuming", TimeoutResolution(g))
    BY <1>1, <1>2, <1>3 DEF HandoffInv, TypeOK, RegistryTypeOK, Entry, Moves
  <1>5. /\ timer'[g].pc = "committed"
        /\ timer'[g].request = timer[g].request
        /\ timer'[g].token = t
        /\ \A h \in Generations : h # g => TimerKept(h)
    <2>1. /\ timer \in [Generations -> Timer]
          /\ Canceled(timer, t) \in [Generations -> Timer]
      BY CanceledType DEF HandoffInv, TypeOK, RegistryTypeOK
    <2>2. /\ timer'[g].pc = "committed"
          /\ timer'[g].request = Canceled(timer, t)[g].request
          /\ timer'[g].token = Canceled(timer, t)[g].token
          /\ \A h \in Generations : h # g => timer'[h] = Canceled(timer, t)[h]
      BY <1>3, <2>1 DEF Timer
    <2>3. QED
      BY <2>1, <2>2, CanceledEffect DEF TimerKept
  <1>6. /\ GenerationInv' /\ EntryInv' /\ WorkerInv'
        /\ \A h \in Generations : event'[h] /\ Current(h)' =>
                 Decided(RequestOf(h))'
        /\ \A h \in Generations : RequestOf(h)' = RequestOf(h)
        /\ \A h \in Generations : Current(h)' <=> Current(h)
        /\ \A x \in Generations : SignalsDecided(x) => SignalsDecided(x)'
    <2>1. ~ Decided(r) /\ TimeoutResolution(g).by \in Verdicts
      BY <1>2, ResolutionFields DEF Decided, Verdicts, CommitTakesEffect
    <2>2. \A h \in Generations :
             /\ timer'[h].request = timer[h].request
             /\ timer'[h].pc = "unset" <=> timer[h].pc = "unset"
      BY <1>1, <1>5 DEF TimerKept
    <2>3. QED
      BY <1>1, <1>2, <1>4, <2>1, <2>2, MoveKeeps DEF CommitTakesEffect
  <1>7. EventInv'
    <2>1. t \in Registered /\ RequestOf(t) = r
      BY <1>1, <1>2 DEF HandoffInv, EntryInv, CommitTakesEffect
    <2>2. Decided(r)'
      BY <1>4, <1>6 DEF Moves, Decided
    <2>3. SignalsDecided(t)'
      BY <1>1, <1>5, <1>6, <2>1, <2>2, RegisteredAreGenerations
      DEF SignalsDecided, Registered, HandoffInv
    <2>4. \A h \in Generations : timer'[h].pc = "committed" =>
             SignalsDecided(timer[h].token)'
      <3>1. SignalsDecided(timer[g].token)'
        BY <1>5, <2>3
      <3>2. \A h \in Generations : h # g /\ timer'[h].pc = "committed" =>
               /\ SignalsDecided(timer[h].token)
               /\ timer'[h].token = timer[h].token
        BY <1>5 DEF TimerKept, HandoffInv, EventInv, SignalsDecided
      <3>3. QED
        BY <1>6, <3>1, <3>2, RegisteredAreGenerations
        DEF HandoffInv, SignalsDecided
    <2>5. main.pc = "signaling" => SignalsDecided(main.token)'
      BY <1>1, <1>6, RegisteredAreGenerations
      DEF HandoffInv, EventInv, SignalsDecided
    <2>6. QED
      BY <1>1, <1>6, <2>4, <2>5 DEF EventInv, SignalsDecided
  <1>8. ReservationIsExclusive'
    <2>1. main.pc \in {"reserved", "intended"} =>
             entries'[main.request] = entries[main.request]
      BY <1>1, <1>4, Holders, RequestTypes DEF HandoffInv, Moves
    <2>2. \A h \in Generations : timer'[h].pc = "claimed" =>
             /\ timer[h].pc = "claimed"
             /\ timer'[h].token = timer[h].token
             /\ entries'[RequestOf(h)] = entries[RequestOf(h)]
      BY <1>1, <1>4, <1>5, Holders, RequestTypes
      DEF HandoffInv, Moves, TimerKept
    <2>3. QED
      BY <1>1, <1>6, <2>1, <2>2
      DEF HandoffInv, ReservationIsExclusive, CommitTakesEffect
  <1>9. JournalInv'
    BY <1>1, <1>4, ResolutionFields
    DEF HandoffInv, JournalInv, OperatorVerdictIsJournaled, Decided, Moves,
        OperatorVerdicts
  <1>10. AbstractStep
    BY <1>1, <1>2, <1>4, <1>6, MovesRefine, ResolutionFields
    DEF Decided, CommitTakesEffect, Verdicts, AbstractStep
  <1>11. QED
    BY <1>10, <1>6, <1>7, <1>8, <1>9 DEF HandoffInv

(* A timer step that leaves the entries alone: nothing but the timer's own *)
(* state, and perhaps one event that was due, changes.                     *)
LEMMA TimerFrame ==
    ASSUME HandoffInv, TypeOK', NEW g \in Generations,
           UNCHANGED <<worker, main, intent, failures, nextGeneration,
                     entries>>,
           \A h \in Generations :
              /\ timer'[h].request = timer[h].request
              /\ timer'[h].token = timer[h].token
              /\ h # g => timer'[h].pc = timer[h].pc,
           timer[g].pc # "unset",
           timer'[g].pc \notin {"unset", "claimed", "committed"},
           \A h \in Generations : event'[h] /\ ~ event[h] =>
              h \in Registered /\ (Current(h) => Decided(RequestOf(h)))
    PROVE  HandoffInv' /\ AbstractStep
  <1>1. \A h \in Generations :
            /\ RequestOf(h)' = RequestOf(h)
            /\ timer'[h].pc \in {"claimed", "committed"} => h # g
            /\ timer'[h].pc = "unset" <=> timer[h].pc = "unset"
    BY DEF RequestOf
  <1>2. GenerationInv'
    BY <1>1 DEF HandoffInv, GenerationInv, Registered
  <1>3. EntryInv'
    BY <1>1, RegisteredAreGenerations DEF HandoffInv, EntryInv, Registered
  <1>4. WorkerInv'
    BY <1>1 DEF HandoffInv, WorkerInv, Current, Decided
  <1>5. EventInv'
    BY <1>1, RegisteredAreGenerations
    DEF HandoffInv, EventInv, Current, Decided, Registered
  <1>6. ReservationIsExclusive'
    BY <1>1 DEF HandoffInv, ReservationIsExclusive, CommitTakesEffect
  <1>7. JournalInv'
    BY <1>1 DEF HandoffInv, JournalInv, OperatorVerdictIsJournaled, Decided
  <1>8. AbstractStep
    BY <1>1, StillEntriesRefine DEF AbstractStep
  <1>9. QED
    BY <1>8, <1>2, <1>3, <1>4, <1>5, <1>6, <1>7 DEF HandoffInv

LEMMA TimerLooksUpStep ==
    ASSUME HandoffInv, TypeOK', NEW g \in Generations, TimerRuns(g),
              TimerLooksUp(g)
    PROVE  HandoffInv' /\ AbstractStep
  <1>0. UNCHANGED <<worker, main, intent, failures, event, nextGeneration,
            entries>>
    BY DEF TimerRuns, TimerLooksUp
  <1>1. \A h \in Generations :
          /\ timer'[h].request = timer[h].request
          /\ timer'[h].token = timer[h].token
          /\ h # g => timer'[h].pc = timer[h].pc
    BY DEF TimerLooksUp, HandoffInv, TypeOK, RegistryTypeOK, Timer
  <1>2. timer[g].pc = "expired" /\ timer'[g].pc \in {"looked_up", "done"}
    BY DEF TimerLooksUp, HandoffInv, TypeOK, RegistryTypeOK, Timer
  <1>3. QED
    BY <1>0, <1>1, <1>2, TimerFrame

LEMMA TimerSignalsStep ==
    ASSUME HandoffInv, TypeOK', NEW g \in Generations, TimerRuns(g),
              TimerSignals(g)
    PROVE  HandoffInv' /\ AbstractStep
  <1>0. UNCHANGED <<worker, main, intent, failures, nextGeneration, entries>>
    BY DEF TimerRuns, TimerSignals
  <1>1. \A h \in Generations :
          /\ timer'[h].request = timer[h].request
          /\ timer'[h].token = timer[h].token
          /\ h # g => timer'[h].pc = timer[h].pc
    BY DEF TimerSignals, HandoffInv, TypeOK, RegistryTypeOK, Timer
  <1>2. timer[g].pc = "committed" /\ timer'[g].pc = "done"
    BY DEF TimerSignals, HandoffInv, TypeOK, RegistryTypeOK, Timer
  <1>3. event' = [event EXCEPT ![timer[g].token] = TRUE]
    BY DEF TimerSignals, SetEvent
  <1>4. timer[g].token \in Registered /\ (Current(timer[g].token) =>
           Decided(RequestOf(timer[g].token)))
    BY <1>2 DEF HandoffInv, EventInv
  <1>5. \A h \in Generations : event'[h] => event[h] \/ h = timer[g].token
    BY <1>3 DEF HandoffInv, TypeOK, RegistryTypeOK
  <1>6. QED
    BY <1>0, <1>1, <1>2, <1>4, <1>5, TimerFrame

LEMMA TimerExpiresStep ==
    ASSUME HandoffInv, TypeOK', NEW g \in Generations, TimerRuns(g),
           TimerExpires(g)
    PROVE  HandoffInv' /\ AbstractStep
  <1>1. UNCHANGED <<worker, main, intent, failures, event, nextGeneration,
            entries>>
    BY DEF TimerRuns, TimerExpires
  <1>2. /\ timer[g].pc = "armed" /\ timer'[g].pc = "expired"
        /\ \A h \in Generations :
              /\ timer'[h].request = timer[h].request
              /\ timer'[h].token = timer[h].token
              /\ h # g => timer'[h].pc = timer[h].pc
    BY DEF TimerExpires, HandoffInv, TypeOK, RegistryTypeOK, Timer
  <1>3. QED
    BY <1>1, <1>2, TimerFrame

LEMMA TimerGivesUpStep ==
    ASSUME HandoffInv, TypeOK', NEW g \in Generations, TimerRuns(g),
           TimerReserves(g), ~ CanReserve(RequestOf(g))
    PROVE  HandoffInv' /\ AbstractStep
  <1>1. /\ UNCHANGED <<worker, main, intent, failures, event,
            nextGeneration, entries>>
        /\ timer[g].pc = "looked_up"
        /\ timer' = [timer EXCEPT ![g].pc = "done"]
    BY DEF TimerRuns, TimerReserves, RequestOf
  <1>2. /\ timer'[g].pc = "done"
        /\ \A h \in Generations :
              /\ timer'[h].request = timer[h].request
              /\ timer'[h].token = timer[h].token
              /\ h # g => timer'[h].pc = timer[h].pc
    BY <1>1 DEF HandoffInv, TypeOK, RegistryTypeOK, Timer
  <1>3. QED
    BY <1>1, <1>2, TimerFrame

LEMMA DecideWritesIntentStep ==
    ASSUME HandoffInv, TypeOK', DecideWritesIntent
    PROVE  HandoffInv' /\ AbstractStep
  <1>1. /\ UNCHANGED <<entries, nextGeneration, event, timer, worker>>
        /\ main.pc = "reserved"
        /\ main'.pc = "intended"
        /\ main'.request = main.request
        /\ main'.token = main.token
        /\ main'.verdict = main.verdict
        /\ intent' = [intent EXCEPT ![main.token] = main.verdict]
    BY DEF DecideWritesIntent, registryVars, HandoffInv, TypeOK, Main
  <1>2. main.token \in Generations /\ ~ Decided(main.request)
           /\ Current(main.token)
        /\ main.request = RequestOf(main.token)
    BY <1>1, RequestTypes, RegisteredAreGenerations
    DEF HandoffInv, ReservationIsExclusive, CommitTakesEffect, EntryInv,
        Decided, Current
  <1>3. \A t \in Generations :
           intent'[t] = IF t = main.token THEN main.verdict ELSE intent[t]
    BY <1>1 DEF HandoffInv, TypeOK
  <1>4. GenerationInv' /\ EntryInv' /\ WorkerInv' /\ EventInv'
    BY <1>1 DEF HandoffInv, GenerationInv, EntryInv, WorkerInv, EventInv,
                Registered, RequestOf, Current, Decided
  <1>5. ReservationIsExclusive'
    BY <1>1
    DEF HandoffInv, ReservationIsExclusive, CommitTakesEffect, RequestOf
  <1>6. JournalInv'
    <2>1. \A q \in Requests : Decided(q) =>
             /\ entries[q].generation # main.token
             /\ entries[q].generation \in Generations
      BY <1>2, RegisteredAreGenerations DEF HandoffInv, EntryInv, Decided
    <2>2. worker[main.token].got.by \notin OperatorVerdicts
      BY <1>2 DEF HandoffInv, WorkerInv, NoResolution, OperatorVerdicts
    <2>3. QED
      BY <1>1, <1>2, <1>3, <2>1, <2>2
      DEF HandoffInv, JournalInv, OperatorVerdictIsJournaled, Decided
  <1>7. AbstractStep
    BY <1>1, StillEntriesRefine DEF RequestOf, AbstractStep
  <1>8. QED
    BY <1>7, <1>4, <1>5, <1>6 DEF HandoffInv

LEMMA DecideIntentFailsStep ==
    ASSUME HandoffInv, TypeOK', DecideIntentFails
    PROVE  HandoffInv' /\ AbstractStep
  <1> DEFINE r == main.request
  <1>1. /\ UNCHANGED <<worker, event, nextGeneration, timer>>
        /\ main.pc = "reserved"
        /\ main' = MainIdle
        /\ main'.pc = "idle"
        /\ r \in Requests
    BY RequestTypes DEF DecideIntentFails, HandoffInv, MainIdle
  <1>2. CommitTakesEffect(r, main.token)
           /\ entries[r].pending = Resolution(main.verdict)
    BY <1>1 DEF HandoffInv, ReservationIsExclusive
  <1>3. entries' = [entries EXCEPT ![r].state = "awaiting",
            ![r].pending = NoResolution]
    BY <1>2 DEF DecideIntentFails, AbortReservation
  <1>4. Moves(r, "awaiting", NoResolution)
    BY <1>1, <1>3 DEF HandoffInv, TypeOK, RegistryTypeOK, Entry, Moves
  <1>5. /\ GenerationInv' /\ EntryInv' /\ WorkerInv'
        /\ \A h \in Generations : event'[h] /\ Current(h)' =>
                 Decided(RequestOf(h))'
        /\ \A h \in Generations : RequestOf(h)' = RequestOf(h)
        /\ \A h \in Generations : Current(h)' <=> Current(h)
        /\ \A t \in Generations : SignalsDecided(t) => SignalsDecided(t)'
    <2>1. ~ Decided(r)
      BY <1>2 DEF Decided, CommitTakesEffect
    <2>2. QED
      BY <1>1, <1>2, <1>4, <2>1, MoveKeeps DEF CommitTakesEffect
  <1>6. EventInv'
    BY <1>1, <1>5, RegisteredAreGenerations
    DEF HandoffInv, EventInv, SignalsDecided
  <1>7. ReservationIsExclusive'
    <2>1. \A h \in Generations : timer[h].pc = "claimed" =>
             entries'[RequestOf(h)] = entries[RequestOf(h)]
      BY <1>1, <1>4, Holders, RequestTypes DEF HandoffInv, Moves
    <2>2. QED
      BY <1>1, <1>5, <2>1
      DEF HandoffInv, ReservationIsExclusive, CommitTakesEffect
  <1>8. JournalInv'
    <2>1. main.token \in Generations /\ RequestOf(main.token) = r
      BY <1>1, <1>2, RegisteredAreGenerations
      DEF HandoffInv, EntryInv, CommitTakesEffect
    <2>2. \A t \in Generations : t # main.token => intent'[t] = intent[t]
      BY DEF DecideIntentFails, HandoffInv, TypeOK
    <2>3. \A q \in Requests : Decided(q)' =>
             /\ entries'[q] = entries[q]
             /\ entries[q].generation # main.token
             /\ entries[q].generation \in Generations
      BY <1>1, <1>4, <2>1, RegisteredAreGenerations
      DEF HandoffInv, EntryInv, Moves, Decided
    <2>4. worker[main.token].got.by \notin OperatorVerdicts
      BY <1>2, <2>1
      DEF HandoffInv, WorkerInv, NoResolution, OperatorVerdicts, Current,
          Decided, CommitTakesEffect
    <2>5. QED
      BY <1>1, <2>1, <2>2, <2>3, <2>4
      DEF HandoffInv, JournalInv, OperatorVerdictIsJournaled, Decided
  <1>9. AbstractStep
    BY <1>1, <1>2, <1>4, <1>5, MovesRefine
    DEF Decided, CommitTakesEffect, AbstractStep
  <1>10. QED
    BY <1>9, <1>5, <1>6, <1>7, <1>8 DEF HandoffInv

LEMMA DecideCommitsStep ==
    ASSUME HandoffInv, TypeOK', DecideCommits
    PROVE  HandoffInv' /\ AbstractStep
  <1> DEFINE r == main.request
             t == main.token
  <1>1. /\ UNCHANGED <<worker, intent, event, nextGeneration>>
        /\ main.pc = "intended"
        /\ r \in Requests
    BY RequestTypes DEF DecideCommits, HandoffInv
  <1>2. CommitTakesEffect(r, t)
           /\ entries[r].pending = Resolution(main.verdict)
    BY <1>1 DEF HandoffInv, ReservationIsExclusive
  <1>3. /\ entries' = [entries EXCEPT ![r].state = "consuming"]
        /\ timer' = Canceled(timer, t)
        /\ main'.pc = "signaling"
        /\ main'.token = main.token
    BY <1>2
    DEF DecideCommits, CommittedEntries, CommittedTimers, HandoffInv, TypeOK,
        Main
  <1>4. Moves(r, "consuming", Resolution(main.verdict))
    BY <1>1, <1>2, <1>3 DEF HandoffInv, TypeOK, RegistryTypeOK, Entry, Moves
  <1>5. \A h \in Generations : TimerKept(h)
    BY <1>3, CanceledEffect DEF TimerKept, HandoffInv, TypeOK, RegistryTypeOK
  <1>6. /\ GenerationInv' /\ EntryInv' /\ WorkerInv'
        /\ \A h \in Generations : event'[h] /\ Current(h)' =>
                 Decided(RequestOf(h))'
        /\ \A h \in Generations : RequestOf(h)' = RequestOf(h)
        /\ \A h \in Generations : Current(h)' <=> Current(h)
        /\ \A x \in Generations : SignalsDecided(x) => SignalsDecided(x)'
    <2>1. ~ Decided(r) /\ Resolution(main.verdict).by \in Verdicts
      BY <1>2, ResolutionFields
      DEF Decided, Verdicts, CommitTakesEffect, HandoffInv, TypeOK, Main,
          OperatorVerdicts
    <2>2. \A h \in Generations :
             /\ timer'[h].request = timer[h].request
             /\ timer'[h].pc = "unset" <=> timer[h].pc = "unset"
      BY <1>5 DEF TimerKept
    <2>3. QED
      BY <1>1, <1>2, <1>4, <2>1, <2>2, MoveKeeps DEF CommitTakesEffect
  <1>7. EventInv'
    <2>1. t \in Registered /\ RequestOf(t) = r
      BY <1>1, <1>2 DEF HandoffInv, EntryInv, CommitTakesEffect
    <2>2. SignalsDecided(t)'
      BY <1>1, <1>3, <1>4, <1>6, <2>1, RegisteredAreGenerations
      DEF SignalsDecided, Registered, HandoffInv, Moves, Decided
    <2>3. \A h \in Generations : timer'[h].pc = "committed" =>
             SignalsDecided(timer[h].token)'
      BY <1>5, <1>6, RegisteredAreGenerations
      DEF TimerKept, HandoffInv, EventInv, SignalsDecided
    <2>4. QED
      BY <1>1, <1>6, <2>2, <2>3 DEF EventInv, SignalsDecided
  <1>8. ReservationIsExclusive'
    <2>1. \A h \in Generations : timer'[h].pc = "claimed" =>
             /\ timer[h].pc = "claimed"
             /\ timer'[h].token = timer[h].token
             /\ entries'[RequestOf(h)] = entries[RequestOf(h)]
      BY <1>1, <1>4, <1>5, Holders, RequestTypes
      DEF HandoffInv, Moves, TimerKept
    <2>2. QED
      BY <1>3, <1>6, <2>1
      DEF HandoffInv, ReservationIsExclusive, CommitTakesEffect
  <1>9. JournalInv'
    <2>1. intent[entries[r].generation] = main.verdict
      BY <1>1, <1>2 DEF HandoffInv, JournalInv, CommitTakesEffect
    <2>2. QED
      BY <1>1, <1>3, <1>4, <2>1, ResolutionFields
      DEF HandoffInv, JournalInv, OperatorVerdictIsJournaled, Decided, Moves
  <1>10. AbstractStep
    BY <1>1, <1>2, <1>4, <1>6, MovesRefine, ResolutionFields
    DEF Decided, CommitTakesEffect, Verdicts, HandoffInv, TypeOK, Main,
        OperatorVerdicts, AbstractStep
  <1>11. QED
    BY <1>10, <1>6, <1>7, <1>8, <1>9 DEF HandoffInv

LEMMA AbortsRequestStep ==
    ASSUME HandoffInv, TypeOK', NEW r \in Requests, AbortsRequest(r)
    PROVE  HandoffInv' /\ AbstractStep
  <1> DEFINE t == entries[r].generation
  <1>1. /\ UNCHANGED <<worker, intent, event, nextGeneration>>
        /\ main.pc = "idle"
        /\ entries[r].state = "awaiting"
        /\ entries' = [entries EXCEPT ![r].state = "aborted",
                                      ![r].pending = Resolution("abort")]
        /\ timer' = Canceled(timer, t)
        /\ main'.pc = "signaling"
        /\ main'.token = t
    BY DEF AbortsRequest, InternalAbort, HandoffInv, TypeOK, Main
  <1>2. Moves(r, "aborted", Resolution("abort"))
    BY <1>1 DEF HandoffInv, TypeOK, RegistryTypeOK, Entry, Moves
  <1>3. \A h \in Generations : TimerKept(h)
    BY <1>1, CanceledEffect DEF TimerKept, HandoffInv, TypeOK, RegistryTypeOK
  <1>4. /\ GenerationInv' /\ EntryInv' /\ WorkerInv'
        /\ \A h \in Generations : event'[h] /\ Current(h)' =>
                 Decided(RequestOf(h))'
        /\ \A h \in Generations : RequestOf(h)' = RequestOf(h)
        /\ \A h \in Generations : Current(h)' <=> Current(h)
        /\ \A x \in Generations : SignalsDecided(x) => SignalsDecided(x)'
    <2>1. ~ Decided(r) /\ Resolution("abort").by \in Verdicts
      BY <1>1, ResolutionFields DEF Decided, Verdicts
    <2>2. \A h \in Generations :
             /\ timer'[h].request = timer[h].request
             /\ timer'[h].pc = "unset" <=> timer[h].pc = "unset"
      BY <1>3 DEF TimerKept
    <2>3. QED
      BY <1>1, <1>2, <2>1, <2>2, MoveKeeps
  <1>5. EventInv'
    <2>1. t \in Registered /\ RequestOf(t) = r
      BY <1>1 DEF HandoffInv, EntryInv
    <2>2. SignalsDecided(main.token)'
      BY <1>1, <1>2, <1>4, <2>1, RegisteredAreGenerations
      DEF SignalsDecided, Registered, HandoffInv, Moves, Decided
    <2>3. \A h \in Generations : timer'[h].pc = "committed" =>
             SignalsDecided(timer[h].token)'
      BY <1>3, <1>4, RegisteredAreGenerations
      DEF TimerKept, HandoffInv, EventInv, SignalsDecided
    <2>4. QED
      BY <1>1, <1>4, <2>2, <2>3 DEF EventInv, SignalsDecided
  <1>6. ReservationIsExclusive'
    <2>1. \A h \in Generations : timer'[h].pc = "claimed" =>
             /\ timer[h].pc = "claimed"
             /\ timer'[h].token = timer[h].token
             /\ RequestOf(h) # r
      BY <1>1, <1>3
      DEF HandoffInv, ReservationIsExclusive, CommitTakesEffect, TimerKept
    <2>2. \A h \in Generations : timer'[h].pc = "claimed" =>
             entries'[RequestOf(h)] = entries[RequestOf(h)]
      BY <1>2, <2>1, RequestTypes DEF HandoffInv, Moves
    <2>3. QED
      BY <1>1, <1>4, <2>1, <2>2
      DEF HandoffInv, ReservationIsExclusive, CommitTakesEffect
  <1>7. JournalInv'
    <2>1. "abort" \notin OperatorVerdicts
      BY DEF OperatorVerdicts
    <2>2. \A q \in Requests : entries'[q].generation = entries[q].generation
      BY <1>2 DEF Moves
    <2>3. \A q \in Requests : Decided(q)'
             /\ entries'[q].pending.by \in OperatorVerdicts
             => Decided(q) /\ entries'[q] = entries[q]
      BY <1>2, <2>1, ResolutionFields DEF Moves, Decided
    <2>4. QED
      BY <1>1, <2>2, <2>3
      DEF HandoffInv, JournalInv, OperatorVerdictIsJournaled
  <1>8. AbstractStep
    BY <1>1, <1>2, <1>4, MovesRefine, ResolutionFields
    DEF Decided, Verdicts, AbstractStep
  <1>9. QED
    BY <1>8, <1>4, <1>5, <1>6, <1>7 DEF HandoffInv

LEMMA MainSignalsStep ==
    ASSUME HandoffInv, TypeOK', MainSignals
    PROVE  HandoffInv' /\ AbstractStep
  <1>1. /\ UNCHANGED <<entries, nextGeneration, timer, worker, intent>>
        /\ main.pc = "signaling"
        /\ main'.pc = "idle"
        /\ event' = [event EXCEPT ![main.token] = TRUE]
    BY DEF MainSignals, SetEvent, MainIdle
  <1>2. SignalsDecided(main.token)
    BY <1>1 DEF HandoffInv, EventInv, SignalsDecided
  <1>3. \A h \in Generations : event'[h] => event[h] \/ SignalsDecided(h)
    BY <1>1, <1>2 DEF HandoffInv, TypeOK, RegistryTypeOK
  <1>4. GenerationInv'
    BY <1>1, <1>3 DEF HandoffInv, GenerationInv, Registered, SignalsDecided
  <1>5. EntryInv' /\ WorkerInv'
    BY <1>1 DEF HandoffInv, EntryInv, WorkerInv, Registered, RequestOf,
                Current, Decided
  <1>6. EventInv'
    BY <1>1, <1>3 DEF HandoffInv, EventInv, SignalsDecided, Registered,
                      RequestOf, Current, Decided
  <1>7. ReservationIsExclusive' /\ JournalInv'
    BY <1>1 DEF HandoffInv, ReservationIsExclusive, JournalInv,
                OperatorVerdictIsJournaled, CommitTakesEffect, RequestOf,
                          Decided
  <1>8. AbstractStep
    BY <1>1, StillEntriesRefine DEF RequestOf, AbstractStep
  <1>9. QED
    BY <1>8, <1>4, <1>5, <1>6, <1>7 DEF HandoffInv

LEMMA ParkInv ==
    ASSUME HandoffInv, TypeOK', NEW r \in Requests, Park(r)
    PROVE  HandoffInv'
  <1> PICK g : g = nextGeneration + 1
    OBVIOUS
  <1>1. /\ UNCHANGED <<event, main, intent>>
        /\ entries[r].state = "absent"
        /\ nextGeneration < MaxGeneration
        /\ nextGeneration' = g
        /\ entries' = [entries EXCEPT ![r] =
              [state |-> "awaiting", generation |-> g,
                        pending |-> NoResolution]]
        /\ timer' = [timer EXCEPT ![g] =
              [pc |-> "armed", request |-> r, token |-> 0]]
        /\ worker' = [worker EXCEPT ![g].pc = "waiting"]
    BY DEF Park, Register
  <1>2. /\ g \in Generations
        /\ \A h \in Generations : h \in Registered' <=>
                 h \in Registered \/ h = g
        /\ g \notin Registered
        /\ g # 0
    BY <1>1, RegistryAssumption
    DEF HandoffInv, TypeOK, RegistryTypeOK, Registered, Generations
  <1>3. /\ entries'[r].state = "awaiting"
        /\ entries'[r].generation = g
        /\ entries'[r].pending = NoResolution
        /\ \A q \in Requests : q # r => entries'[q] = entries[q]
    BY <1>1 DEF HandoffInv, TypeOK, RegistryTypeOK
  <1>4. /\ timer'[g].pc = "armed"
        /\ RequestOf(g)' = r
        /\ \A h \in Generations : h # g => timer'[h] = timer[h]
    BY <1>1, <1>2 DEF HandoffInv, TypeOK, RegistryTypeOK, RequestOf
  <1>5. /\ worker'[g].pc = "waiting"
        /\ worker'[g].got = worker[g].got
        /\ \A h \in Generations : h # g => worker'[h] = worker[h]
    BY <1>1, <1>2 DEF HandoffInv, TypeOK, Worker
  <1>6. entries[r].generation = 0 /\ worker[g].pc = "none"
    BY <1>1, <1>2 DEF HandoffInv, EntryInv, NoEntry, GenerationInv
  <1>7. \A q \in Requests : Decided(q)' <=> Decided(q)
    BY <1>1, <1>3 DEF Decided
  <1>8. \A h \in Generations : h # g =>
           /\ RequestOf(h)' = RequestOf(h)
           /\ RequestOf(h) \in Requests
           /\ Current(h)' <=> Current(h)
    <2>1. \A h \in Generations : h # 0
      BY DEF Generations
    <2>2. \A h \in Generations : h # g =>
             RequestOf(h)' = RequestOf(h) /\ RequestOf(h) \in Requests
      BY <1>4, RequestTypes DEF RequestOf, HandoffInv
    <2>3. QED
      BY <1>3, <1>6, <2>1, <2>2 DEF Current
  <1>9. Current(g)' /\ ~ Decided(RequestOf(g))'
    BY <1>3, <1>4 DEF Current, Decided
  <1>10. GenerationInv'
    BY <1>1, <1>2, <1>4, <1>5 DEF HandoffInv, GenerationInv
  <1>11. EntryInv'
    <2> SUFFICES ASSUME NEW q \in Requests PROVE EntryInv!(q)'
      BY DEF EntryInv
    <2>1. CASE q = r
      BY <1>2, <1>3, <1>4, <2>1
    <2>2. CASE q # r
      BY <1>2, <1>3, <1>8, <2>2, RegisteredAreGenerations
      DEF HandoffInv, EntryInv
    <2>3. QED
      BY <2>1, <2>2
  <1>12. WorkerInv'
    <2> SUFFICES ASSUME NEW h \in Generations PROVE WorkerInv!(h)'
      BY DEF WorkerInv
    <2>1. CASE h = g
      BY <1>5, <1>6, <1>9, <2>1 DEF HandoffInv, WorkerInv
    <2>2. CASE h # g
      BY <1>5, <1>7, <1>8, <2>2 DEF HandoffInv, WorkerInv
    <2>3. QED
      BY <2>1, <2>2
  <1>13. EventInv'
    <2>1. \A t \in Generations : SignalsDecided(t) => SignalsDecided(t)'
      BY <1>2, <1>7, <1>8 DEF SignalsDecided
    <2>2. \A h \in Generations : event'[h] /\ Current(h)' =>
             Decided(RequestOf(h))'
      <3>1. ~ event[g]
        BY <1>2 DEF HandoffInv, GenerationInv
      <3>2. QED
        BY <1>1, <1>7, <1>8, <3>1 DEF HandoffInv, EventInv
    <2>3. QED
      BY <1>1, <1>4, <2>1, <2>2, RegisteredAreGenerations
      DEF HandoffInv, EventInv, SignalsDecided
  <1>14. ReservationIsExclusive'
    <2>1. \A q \in Requests : entries[q].state = "reserved" =>
             entries'[q] = entries[q]
      BY <1>1, <1>3
    <2>2. \A h \in Generations : timer'[h].pc = "claimed" =>
             h # g /\ timer'[h] = timer[h] /\ RequestOf(h)' = RequestOf(h)
      BY <1>4, <1>8
    <2>3. QED
      BY <1>1, <2>1, <2>2, RequestTypes
      DEF HandoffInv, ReservationIsExclusive, CommitTakesEffect
  <1>15. JournalInv'
    <2>1. \A q \in Requests : Decided(q)' =>
             Decided(q) /\ entries'[q] = entries[q]
      BY <1>3, <1>7 DEF Decided
    <2>2. QED
      BY <1>1, <1>5, <2>1
      DEF HandoffInv, JournalInv, OperatorVerdictIsJournaled
  <1>16. QED
    BY <1>10, <1>11, <1>12, <1>13, <1>14, <1>15 DEF HandoffInv

LEMMA LeavesInv ==
    ASSUME HandoffInv, TypeOK', NEW g \in Generations, Leaves(g)
    PROVE  HandoffInv'
  <1> DEFINE r == RequestOf(g)
  <1>1. /\ UNCHANGED <<nextGeneration, event, main, intent>>
        /\ worker[g].pc = "handling"
        /\ r \in Requests
        /\ entries' = [entries EXCEPT ![r] = NoEntry]
        /\ worker' = [worker EXCEPT ![g].pc = "left"]
    BY RequestTypes DEF Leaves, Discard, HandoffInv
  <1>2. /\ entries'[r] = NoEntry
        /\ \A q \in Requests : q # r => entries'[q] = entries[q]
    BY <1>1 DEF HandoffInv, TypeOK, RegistryTypeOK
  <1>3. /\ worker'[g].pc = "left"
        /\ \A h \in Generations :
              /\ worker'[h].got = worker[h].got
              /\ h # g => worker'[h] = worker[h]
    BY <1>1 DEF HandoffInv, TypeOK, Worker
  <1>4. Current(g) /\ Decided(r)
    BY <1>1 DEF HandoffInv, WorkerInv
  <1>5. \A h \in Generations : TimerKept(h)
    <2>1. timer' = timer \/ timer' = Canceled(timer, entries[r].generation)
      BY DEF Leaves, Discard
    <2>2. QED
      BY <2>1, CanceledEffect DEF TimerKept, HandoffInv, TypeOK, RegistryTypeOK
  <1>6. \A h \in Generations :
           /\ RequestOf(h)' = RequestOf(h)
           /\ RequestOf(h) \in Requests
    BY <1>5, RequestTypes DEF TimerKept, RequestOf, HandoffInv
  <1>7. \A h \in Generations : Current(h)' <=> Current(h) /\ h # g
    <2>1. \A h \in Generations : h # 0
      BY DEF Generations
    <2>2. \A h \in Generations : RequestOf(h) = r /\ Current(h) => h = g
      BY <1>4 DEF Current
    <2>3. QED
      BY <1>1, <1>2, <1>4, <1>6, <2>1, <2>2 DEF Current, NoEntry
  <1>8. \A q \in Requests : q # r => (Decided(q)' <=> Decided(q))
    BY <1>2 DEF Decided
  <1>9. \A h \in Generations : Current(h)' => RequestOf(h) # r
    BY <1>4, <1>7 DEF Current
  <1>10. GenerationInv'
    BY <1>1, <1>3, <1>5 DEF HandoffInv, GenerationInv, Registered, TimerKept
  <1>11. EntryInv'
    <2> SUFFICES ASSUME NEW q \in Requests PROVE EntryInv!(q)'
      BY DEF EntryInv
    <2>1. CASE q = r
      BY <1>2, <2>1 DEF NoEntry
    <2>2. CASE q # r
      BY <1>1, <1>2, <1>6, <2>2, RegisteredAreGenerations
      DEF HandoffInv, EntryInv, Registered
    <2>3. QED
      BY <2>1, <2>2
  <1>12. WorkerInv'
    <2> SUFFICES ASSUME NEW h \in Generations PROVE WorkerInv!(h)'
      BY DEF WorkerInv
    <2>1. CASE h = g
      BY <1>3, <1>7, <2>1
    <2>2. CASE h # g
      BY <1>3, <1>6, <1>7, <1>8, <1>9, <2>2 DEF HandoffInv, WorkerInv
    <2>3. QED
      BY <2>1, <2>2
  <1>13. EventInv'
    <2>1. \A t \in Generations : SignalsDecided(t) => SignalsDecided(t)'
      BY <1>1, <1>6, <1>7, <1>8, <1>9 DEF SignalsDecided, Registered
    <2>2. \A h \in Generations : event'[h] /\ Current(h)' =>
             Decided(RequestOf(h))'
      BY <1>1, <1>6, <1>7, <1>8, <1>9 DEF HandoffInv, EventInv
    <2>3. QED
      BY <1>1, <1>5, <2>1, <2>2, RegisteredAreGenerations
      DEF HandoffInv, EventInv, SignalsDecided, TimerKept
  <1>14. ReservationIsExclusive'
    <2>1. \A q \in Requests : entries[q].state = "reserved" =>
             entries'[q] = entries[q]
      BY <1>2, <1>4 DEF Decided
    <2>2. \A h \in Generations : timer'[h].pc = "claimed" =>
             /\ timer[h].pc = "claimed"
             /\ timer'[h].token = timer[h].token
             /\ RequestOf(h)' = RequestOf(h)
      BY <1>5, <1>6 DEF TimerKept
    <2>3. QED
      BY <1>1, <2>1, <2>2, RequestTypes
      DEF HandoffInv, ReservationIsExclusive, CommitTakesEffect
  <1>15. JournalInv'
    BY <1>1, <1>2, <1>3
    DEF HandoffInv, JournalInv, OperatorVerdictIsJournaled, Decided, NoEntry
  <1>16. QED
    BY <1>10, <1>11, <1>12, <1>13, <1>14, <1>15 DEF HandoffInv

LEMMA WorkerRunsInv ==
    ASSUME HandoffInv, TypeOK', NEW g \in Generations,
           Wakes(g) \/ TakesResolution(g) \/ HandlerRaises(g)
    PROVE  HandoffInv'
  <1>1. /\ UNCHANGED <<entries, nextGeneration, event, timer, main, intent>>
        /\ worker[g].pc \in {"waiting", "woken", "handling"}
        /\ worker'[g].pc \in {"woken", "handling", "failed"}
        /\ worker'[g].pc = "woken" <=> worker[g].pc = "waiting"
        /\ \A h \in Generations : h # g => worker'[h] = worker[h]
    BY DEF Wakes, TakesResolution, HandlerRaises, registryVars, HandoffInv,
           TypeOK, Worker
  <1>2. worker'[g].got =
           IF worker[g].pc = "woken" THEN entries[RequestOf(g)].pending
                                     ELSE worker[g].got
    BY DEF Wakes, TakesResolution, HandlerRaises, HandoffInv, TypeOK, Worker
  <1>3. worker[g].pc = "waiting" => event[g]
    BY <1>1 DEF Wakes, TakesResolution, HandlerRaises
  <1>4. Current(g) /\ Decided(RequestOf(g))
    BY <1>1, <1>3 DEF HandoffInv, WorkerInv, EventInv
  <1>5. \A h \in Generations :
           /\ Current(h)' <=> Current(h)
           /\ Decided(RequestOf(h))' <=> Decided(RequestOf(h))
           /\ RequestOf(h)' = RequestOf(h)
    BY <1>1 DEF Current, Decided, RequestOf
  <1>6. GenerationInv'
    BY <1>1 DEF HandoffInv, GenerationInv, Registered
  <1>7. EntryInv' /\ EventInv' /\ ReservationIsExclusive'
    BY <1>1 DEF HandoffInv, EntryInv, EventInv, ReservationIsExclusive,
                Registered, RequestOf, Current, Decided, CommitTakesEffect
  <1>8. WorkerInv'
    <2> SUFFICES ASSUME NEW h \in Generations PROVE WorkerInv!(h)'
      BY DEF WorkerInv
    <2>1. CASE h = g
      <3>1. worker'[g].pc = "woken" => worker'[g].got = NoResolution
        BY <1>1, <1>2 DEF HandoffInv, WorkerInv
      <3>2. QED
        BY <1>1, <1>4, <1>5, <2>1, <3>1
    <2>2. CASE h # g
      BY <1>1, <1>5, <2>2 DEF HandoffInv, WorkerInv
    <2>3. QED
      BY <2>1, <2>2
  <1>9. JournalInv'
    <2>1. worker'[g].got.by \in OperatorVerdicts =>
             intent[g] = worker'[g].got.by
      BY <1>2, <1>4, RequestTypes
      DEF HandoffInv, JournalInv, OperatorVerdictIsJournaled, Current
    <2>2. QED
      BY <1>1, <2>1
      DEF HandoffInv, JournalInv, OperatorVerdictIsJournaled, Decided
  <1>10. QED
    BY <1>6, <1>7, <1>8, <1>9 DEF HandoffInv

LEMMA ParkRefines ==
    ASSUME HandoffInv, NEW r \in Requests, Park(r)
    PROVE  Abstract!Next
  <1> PICK g : g = nextGeneration + 1
    OBVIOUS
  <1>1. /\ entries[r].state = "absent"
        /\ nextGeneration < MaxGeneration
        /\ entries' = [entries EXCEPT ![r] =
              [state |-> "awaiting", generation |-> g,
               pending |-> NoResolution]]
        /\ timer' = [timer EXCEPT ![g] =
              [pc |-> "armed", request |-> r, token |-> 0]]
        /\ worker' = [worker EXCEPT ![g].pc = "waiting"]
    BY DEF Park, Register
  <1>2. g \in Generations /\ g \notin Registered
    BY <1>1, RegistryAssumption
    DEF HandoffInv, TypeOK, RegistryTypeOK, Registered, Generations
  <1>3. /\ entries'[r].state = "awaiting"
        /\ \A q \in Requests : q # r => entries'[q] = entries[q]
    BY <1>1 DEF HandoffInv, TypeOK, RegistryTypeOK
  <1>4. /\ RequestOf(g)' = r
        /\ \A h \in Generations : h # g => RequestOf(h)' = RequestOf(h)
    BY <1>1, <1>2 DEF HandoffInv, TypeOK, RegistryTypeOK, RequestOf
  <1>5. /\ worker[g].pc = "none"
        /\ worker'[g].pc = "waiting"
        /\ \A h \in Generations : h # g => worker'[h] = worker[h]
    BY <1>1, <1>2 DEF HandoffInv, TypeOK, Worker, GenerationInv
  <1>6. /\ DecisionOf(g) = "closed"
        /\ DecisionOf(g)' = "open"
        /\ Delivered(g)' = Delivered(g)
    BY <1>3, <1>4, <1>5 DEF DecisionOf, Delivered, Decided
  <1>7. ASSUME NEW h \in Generations, h # g PROVE SameDecision(h)
    <2>1. worker[h].pc \in {"waiting", "woken"} => RequestOf(h) # r
      <3>1. entries[r].generation = 0 /\ h # 0
        BY <1>1 DEF HandoffInv, EntryInv, NoEntry, Generations
      <3>2. QED
        BY <3>1 DEF HandoffInv, WorkerInv, Current
    <2>2. worker[h].pc \in {"waiting", "woken"} =>
             entries'[RequestOf(h)] = entries[RequestOf(h)]
      BY <1>3, <2>1, RequestTypes DEF HandoffInv
    <2>3. QED
      BY <1>4, <1>5, <1>7, <2>2, EntryKept DEF Decided
  <1>8. QED
    BY <1>2, <1>6, <1>7, OneParks

LEMMA WorkerRefines ==
    ASSUME HandoffInv, NEW g \in Generations, WorkerStep(g)
    PROVE  AbstractStep
  <1>1. CASE Wakes(g) \/ TakesResolution(g) \/ HandlerRaises(g)
    <2>1. /\ entries' = entries
          /\ \A h \in Generations :
                /\ RequestOf(h)' = RequestOf(h)
                /\ Decided(RequestOf(h))' <=> Decided(RequestOf(h))
                /\ h # g => worker'[h] = worker[h]
      BY <1>1 DEF Wakes, TakesResolution, HandlerRaises, registryVars,
                  RequestOf, Decided, HandoffInv, TypeOK
    <2>2. \A h \in Generations : h # g => SameDecision(h)
      BY <2>1, EntryKept
    <2>3. CASE Wakes(g)
      <3>1. worker[g].pc = "waiting" /\ worker'[g].pc = "woken"
        BY <2>3 DEF Wakes, HandoffInv, TypeOK, Worker
      <3>2. SameDecision(g)
        BY <2>1, <3>1 DEF SameDecision, DecisionOf, Delivered
      <3>3. QED
        BY <2>2, <3>2, SameIsStutter DEF AbstractStep
    <2>4. CASE HandlerRaises(g)
      <3>1. /\ worker[g].pc = "handling" /\ worker'[g].pc = "failed"
            /\ worker'[g].got = worker[g].got
        BY <2>4 DEF HandlerRaises, HandoffInv, TypeOK, Worker
      <3>2. SameDecision(g)
        BY <3>1 DEF SameDecision, DecisionOf, Delivered
      <3>3. QED
        BY <2>2, <3>2, SameIsStutter DEF AbstractStep
    <2>5. CASE TakesResolution(g)
      <3>1. /\ worker[g].pc = "woken" /\ worker'[g].pc = "handling"
            /\ worker'[g].got = entries[RequestOf(g)].pending
        BY <2>5 DEF TakesResolution, HandoffInv, TypeOK, Worker
      <3>2. /\ Decided(RequestOf(g))
            /\ entries[RequestOf(g)].pending.by \in Verdicts
        BY <3>1, RequestTypes DEF HandoffInv, WorkerInv, EntryInv, Decided
      <3>3. /\ DecisionOf(g) \in Verdicts
            /\ DecisionOf(g)' = DecisionOf(g)
            /\ ~ Delivered(g) /\ Delivered(g)'
        BY <3>1, <3>2 DEF DecisionOf, Delivered
      <3>4. QED
        BY <2>2, <3>3, OneIsHanded DEF AbstractStep
    <2>6. QED
      BY <1>1, <2>3, <2>4, <2>5
  <1>2. CASE Leaves(g)
    <2>1. /\ worker[g].pc = "handling" /\ worker'[g].pc = "left"
          /\ worker'[g].got = worker[g].got
          /\ \A h \in Generations : h # g => worker'[h] = worker[h]
          /\ entries' = [entries EXCEPT ![RequestOf(g)] = NoEntry]
      BY <1>2 DEF Leaves, Discard, HandoffInv, TypeOK, Worker
    <2>2. SameDecision(g)
      BY <2>1 DEF SameDecision, DecisionOf, Delivered
    <2>3. \A h \in Generations : RequestOf(h)' = RequestOf(h)
      <3>1. timer' = timer
              \/ timer' = Canceled(timer, entries[RequestOf(g)].generation)
        BY <1>2 DEF Leaves, Discard
      <3>2. QED
        BY <3>1, CanceledEffect
        DEF RequestOf, HandoffInv, TypeOK, RegistryTypeOK
    <2>4. ASSUME NEW h \in Generations, h # g PROVE SameDecision(h)
      <3>1. worker[h].pc \in {"waiting", "woken"} => RequestOf(h) # RequestOf(g)
        BY <2>1, <2>4 DEF HandoffInv, WorkerInv, Current
      <3>2. worker[h].pc \in {"waiting", "woken"} =>
               entries'[RequestOf(h)] = entries[RequestOf(h)]
        BY <2>1, <3>1, RequestTypes DEF HandoffInv, TypeOK, RegistryTypeOK
      <3>3. QED
        BY <2>1, <2>3, <2>4, <3>2, EntryKept DEF Decided
    <2>5. QED
      BY <2>2, <2>4, SameIsStutter DEF AbstractStep
  <1>3. QED
    BY <1>1, <1>2 DEF WorkerStep

----------------------------------------------------------------------------
(* The theorems.                                                           *)

LEMMA HandoffInit == Init => HandoffInv
  <1> SUFFICES ASSUME Init PROVE HandoffInv
    OBVIOUS
  <1>1. /\ \A r \in Requests : entries[r] = NoEntry
        /\ \A g \in Generations : /\ ~ event[g]
                                  /\ timer[g] = NoTimer
                                  /\ worker[g] = NoWorker
        /\ main = MainIdle
        /\ nextGeneration = 0
        /\ \A g \in Generations : g \notin Registered
        /\ \A g \in Generations : g # 0
    BY DEF Init, RegistryInit, Registered, Generations
  <1>2. GenerationInv /\ EntryInv /\ EventInv /\ ReservationIsExclusive
    BY <1>1 DEF GenerationInv, EntryInv, EventInv, ReservationIsExclusive,
                NoEntry, NoTimer, NoWorker, MainIdle
  <1>3. WorkerInv
    BY <1>1, TypeInit, RequestTypes
    DEF WorkerInv, Current, NoEntry, NoWorker
  <1>4. JournalInv
    BY <1>1 DEF JournalInv, OperatorVerdictIsJournaled, OperatorVerdicts,
                Decided, NoEntry, NoWorker, NoResolution, MainIdle
  <1>5. QED
    BY <1>2, <1>3, <1>4, TypeInit DEF HandoffInv

LEMMA HandoffNext == HandoffInv /\ [Next]_vars => HandoffInv'
  <1> SUFFICES ASSUME HandoffInv, [Next]_vars PROVE HandoffInv'
    OBVIOUS
  <1>1. TypeOK'
    BY TypeNext DEF HandoffInv
  <1>2. CASE UNCHANGED vars
    BY <1>2 DEF vars, HandoffInv, TypeOK, RegistryTypeOK, GenerationInv,
                EntryInv, WorkerInv, EventInv, ReservationIsExclusive,
                JournalInv, OperatorVerdictIsJournaled, Registered, RequestOf,
                Current, Decided, CommitTakesEffect
  <1>3. ASSUME NEW g \in Generations, WorkerStep(g) PROVE HandoffInv'
    BY <1>1, <1>3, WorkerRunsInv, LeavesInv DEF WorkerStep
  <1>4. ASSUME NEW g \in Generations, TimerRuns(g) PROVE HandoffInv'
    BY <1>1, <1>4, TimerExpiresStep, TimerLooksUpStep, TimerReservesStep,
       TimerGivesUpStep, TimerCommitsStep, TimerSignalsStep
    DEF TimerRuns, TimerStep
  <1>5. CASE MainContinues
    BY <1>1, <1>5, DecideWritesIntentStep, DecideIntentFailsStep,
       DecideCommitsStep, MainSignalsStep DEF MainContinues
  <1>6. QED
    BY <1>1, <1>2, <1>3, <1>4, <1>5, ParkInv, DecideReservesStep,
       AbortsRequestStep
    DEF Next, Quiescent

(* The inductive invariant holds in every reachable state.                 *)
THEOREM HandoffInvariant == Spec => []HandoffInv
  <1>1. QED
    BY HandoffInit, HandoffNext, PTL DEF Spec

(* Only one thread at a time holds a reservation of a request, it is still *)
(* its own when it commits, so commit_signal() never raises and never      *)
(* drops the decision as stale.                                            *)
THEOREM ReservationExclusion == Spec => []ReservationIsExclusive
  <1>1. HandoffInv => ReservationIsExclusive
    BY DEF HandoffInv
  <1>2. QED
    BY <1>1, HandoffInvariant, PTL

(* A worker acts on an operator's verdict only when the journal holds it.  *)
THEOREM VerdictJournaled == Spec => []OperatorVerdictIsJournaled
  <1>1. HandoffInv => OperatorVerdictIsJournaled
    BY DEF HandoffInv, JournalInv
  <1>2. QED
    BY <1>1, HandoffInvariant, PTL

(* The assertions of wait() never fail.                                    *)
THEOREM WakeSafety == Spec => []WakeHasResolution
  <1>1. HandoffInv => WakeHasResolution
    BY RequestTypes
    DEF HandoffInv, WorkerInv, EntryInv, WakeHasResolution, Current, Decided
  <1>2. QED
    BY <1>1, HandoffInvariant, PTL

LEMMA RefinesInit == Init => Abstract!Init
  <1> SUFFICES ASSUME Init PROVE Abstract!Init
    OBVIOUS
  <1>1. \A g \in Generations : DecisionOf(g) = "closed" /\ Delivered(g) = FALSE
    BY DEF Init, NoWorker, DecisionOf, Delivered
  <1>2. QED
    BY <1>1 DEF Abstract!Init

LEMMA RefinesNext == HandoffInv /\ [Next]_vars => [Abstract!Next]_Abstract!vars
  <1> SUFFICES ASSUME HandoffInv, [Next]_vars PROVE AbstractStep
    BY DEF AbstractStep
  <1>1. TypeOK'
    BY TypeNext DEF HandoffInv
  <1>2. CASE UNCHANGED vars
    BY <1>2, StillEntriesRefine DEF vars, RequestOf, AbstractStep
  <1>3. ASSUME NEW g \in Generations, TimerRuns(g) PROVE AbstractStep
    BY <1>1, <1>3, TimerExpiresStep, TimerLooksUpStep, TimerReservesStep,
       TimerGivesUpStep, TimerCommitsStep, TimerSignalsStep
    DEF TimerRuns, TimerStep
  <1>4. CASE MainContinues
    BY <1>1, <1>4, DecideWritesIntentStep, DecideIntentFailsStep,
       DecideCommitsStep, MainSignalsStep DEF MainContinues
  <1>5. ASSUME NEW r \in Requests, Park(r) PROVE AbstractStep
    BY <1>5, ParkRefines DEF AbstractStep
  <1>6. ASSUME NEW g \in Generations, WorkerStep(g) PROVE AbstractStep
    BY <1>6, WorkerRefines DEF AbstractStep
  <1>7. QED
    BY <1>1, <1>2, <1>3, <1>4, <1>5, <1>6, DecideReservesStep,
       AbortsRequestStep
    DEF Next, Quiescent

(* Whatever the threads do, each parking gets one decision and its worker  *)
(* is handed that decision once.                                           *)
THEOREM OneDecision == Spec => DecidesOnce
  <1>1. QED
    BY HandoffInvariant, RefinesInit, RefinesNext, PTL
    DEF Spec, DecidesOnce, Abstract!Spec
=============================================================================
