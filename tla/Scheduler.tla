------------------------------ MODULE Scheduler ------------------------------
(***************************************************************************)
(* wkvm/core/scheduler.py over wkvm/core/arena.py: continuous batching of  *)
(* "computed -> known tokens" gaps under a token budget, exact admission   *)
(* into state slots, sessions that park with their slots, and the          *)
(* completion-prefill lane.  Tokens are counted, never looked at: whether  *)
(* a sampled token is a stop token is the environment's choice.            *)
(*                                                                         *)
(* One engine step is schedule(), the execution of its output, and         *)
(* update_from_output().  The last runs one loop iteration per action,     *)
(* with everything else held off; intake and cancellation also happen      *)
(* between the first two, as the class allows.                             *)
(***************************************************************************)
EXTENDS StateArena

CONSTANTS
    Requests,           \* request ids
    Sessions,           \* those added with park_on_finish
    MaxTokensPerStep,   \* SchedulerConfig.max_tokens_per_step
    MaxRunning,         \* SchedulerConfig.max_running_requests
    MaxPerRequest,      \* SchedulerConfig.max_tokens_per_request_per_step
    LaneSize,           \* SchedulerConfig.completion_prefill_lane_size
    PromptLens,         \* inputs: prompt lengths
    OutputLimits,       \* inputs: max_new_tokens
    SuffixLens,         \* inputs: tokens a session's next turn adds
    MaxPrompt           \* bound: how long a session's prompt may grow

\* SchedulerConfig.__post_init__ and Request.__post_init__.
ASSUME SchedulerAssumption ==
    /\ IsFiniteSet(Requests) /\ Sessions \subseteq Requests
    /\ MaxTokensPerStep \in Nat \ {0}
    /\ MaxRunning \in Nat \ {0}
    /\ MaxPerRequest \in Nat \ {0}
    /\ LaneSize \in 0 .. MaxRunning
    /\ LaneSize # 0 =>
         MaxTokensPerStep >= MaxRunning + LaneSize * MaxPerRequest
    /\ PromptLens \subseteq Nat \ {0}
    /\ OutputLimits \subseteq Nat \ {0}
    /\ SuffixLens \subseteq Nat \ {0}
    /\ MaxPrompt \in Nat

VARIABLES
    waiting,        \* the deque of requests not admitted yet
    running,        \* the batch, in the order the budget is handed out
    parked,         \* ids of the sessions between two turns
    park_on_finish, \* ids that park instead of leaving
    status,         \* Request.status, "NEW" for an id that was never added
    parked_as,      \* Request.parked_finish_status
    prompt,         \* Request.num_prompt_tokens
    output,         \* len(Request.output_token_ids)
    limit,          \* Request.max_new_tokens
    computed,       \* Request.num_computed_tokens
    slots,          \* Request.slots
    lane,           \* the completion-prefill lane and its counters
    batch,          \* num_scheduled_tokens of the step under way
    phase           \* where that step is

queueVars   == <<waiting, running, parked, park_on_finish>>
tokenVars   == <<prompt, output, limit, computed>>
stepVars    == <<batch, phase>>
vars == <<free, allocated, waiting, running, parked, park_on_finish, status,
          parked_as, prompt, output, limit, computed, slots, lane, batch, phase>>

Finished == {"FINISHED_STOPPED", "FINISHED_LENGTH", "FINISHED_ABORTED",
             "FINISHED_ERROR", "FINISHED_CLOSED"}
Live     == {"WAITING", "RUNNING", "PARKED"}
Status   == {"NEW"} \cup Live \cup Finished

NoSlots  == << >>       \* the empty dict of a request that owns no state
NoStatus == "NONE"

\* The lane's list is always in the order of running, so its set says it all.
Lane == [members : SUBSET Requests, cancelled : BOOLEAN,
         starts : Nat, completions : Nat, cancellations : Nat]

-----------------------------------------------------------------------------
(***************************************************************************)
(* A request's numbers.                                                    *)
(***************************************************************************)

NumTokens(r)  == prompt[r] + output[r]
Gap(r)        == NumTokens(r) - computed[r]
Prefilling(r) == computed[r] < prompt[r]

\* Mutant: a gap that never counts the last token.
WantWithoutLast(r) == Min({Gap(r) - 1, MaxPerRequest})

\* What a request takes of a budget that never runs out.
Want(r) == Min({Gap(r), MaxPerRequest})

(***************************************************************************)
(* A loop over the requests q that hands the i-th at most want[i] tokens   *)
(* and stops when the budget is used up.  The units of tokens wanted ahead *)
(* of i are counted as a set.                                              *)
(***************************************************************************)
FullChunksBefore(want, i) ==    \* Mutant: a request is charged a whole chunk.
    (i - 1) * MaxPerRequest

WantedBefore(want, i) ==
    Cardinality({u \in (1 .. i - 1) \X (1 .. MaxPerRequest) :
                    u[2] <= want[u[1]]})

BudgetNotSpent(want, i) ==      \* Mutant: "budget -= n" is missing.
    MaxTokensPerStep

BudgetLeft(want, i) ==
    IF WantedBefore(want, i) < MaxTokensPerStep
    THEN MaxTokensPerStep - WantedBefore(want, i)
    ELSE 0

HasBudgetOrNone(want, i) ==     \* Mutant: >= for >.
    BudgetLeft(want, i) >= 0

HasBudget(want, i) == BudgetLeft(want, i) > 0

\* An entry with no tokens is a request the loop passed over: it is not in
\* num_scheduled_tokens.
Grants(q, want) ==
    [i \in DOMAIN q |-> <<q[i], Min({want[i], BudgetLeft(want, i)})>>]

IsScheduled(entry) == entry[2] > 0

-----------------------------------------------------------------------------
(***************************************************************************)
(* The lane.                                                               *)
(***************************************************************************)

\* Mutant: the cancelled flag survives its lane.
RetiredKeepingFlag(gone, bad) ==
    LET left    == lane.members \ gone
        spoiled == lane.cancelled \/ bad \cap gone \cap lane.members # {}
    IN  IF gone \cap lane.members = {} THEN lane
        ELSE [lane EXCEPT !.members = left, !.cancelled = spoiled,
                 !.cancellations = IF left = {} /\ spoiled THEN @ + 1 ELSE @,
                 !.completions = IF left = {} /\ ~spoiled THEN @ + 1 ELSE @]

\* _retire_completion_prefill_member for each member of gone; those in bad
\* left before their prompt was computed.  One cancelled member makes the
\* whole lane count as cancelled, once its last member has left.
Retired(gone, bad) ==
    LET left    == lane.members \ gone
        spoiled == lane.cancelled \/ bad \cap gone \cap lane.members # {}
        held    == [lane EXCEPT !.members = left, !.cancelled = spoiled]
        over    == [lane EXCEPT !.members = {}, !.cancelled = FALSE]
    IN  IF gone \cap lane.members = {} THEN lane
        ELSE IF left # {} THEN held
        ELSE IF spoiled THEN [over EXCEPT !.cancellations = @ + 1]
        ELSE [over EXCEPT !.completions = @ + 1]

\* The members schedule() drops: they left the batch or finished their prompt.
LaneLeavers == {r \in lane.members : status[r] # "RUNNING" \/ ~Prefilling(r)}
LaneSpoilers ==
    {r \in LaneLeavers :
        /\ status[r] # "RUNNING"
        /\ Prefilling(r) \/ status[r] \notin
              {"FINISHED_STOPPED", "FINISHED_LENGTH", "PARKED"}}

\* The first LaneSize prefills of the batch.
FirstPrefills ==
    {running[i] : i \in {i \in DOMAIN running :
        /\ Prefilling(running[i])
        /\ Cardinality({j \in 1 .. i : Prefilling(running[j])}) <= LaneSize}}

-----------------------------------------------------------------------------
(***************************************************************************)
(* Intake.                                                                 *)
(***************************************************************************)

Init ==
    /\ ArenaInit
    /\ waiting = << >> /\ running = << >>
    /\ parked = {} /\ park_on_finish = {}
    /\ status = [r \in Requests |-> "NEW"]
    /\ parked_as = [r \in Requests |-> NoStatus]
    /\ prompt = [r \in Requests |-> 0]
    /\ output = [r \in Requests |-> 0]
    /\ limit = [r \in Requests |-> 0]
    /\ computed = [r \in Requests |-> 0]
    /\ slots = [r \in Requests |-> NoSlots]
    /\ lane = [members |-> {}, cancelled |-> FALSE,
               starts |-> 0, completions |-> 0, cancellations |-> 0]
    /\ batch = << >> /\ phase = "idle"

\* Calls reach the scheduler between steps, or while a step executes.
Callable == phase \in {"idle", "scheduled"}

\* add_request: an id is used once.
AddRequest(r, p, m) ==
    /\ Callable
    /\ status[r] = "NEW"
    /\ status' = [status EXCEPT ![r] = "WAITING"]
    /\ prompt' = [prompt EXCEPT ![r] = p]
    /\ limit' = [limit EXCEPT ![r] = m]
    /\ park_on_finish' = IF r \in Sessions THEN park_on_finish \cup {r}
                         ELSE park_on_finish
    /\ waiting' = Append(waiting, r)
    /\ UNCHANGED <<arenaVars, running, parked, parked_as, output, computed,
                   slots, lane, stepVars>>

\* add_resumed_request, with the slots its caller allocated for it: the first
\* c of p tokens are computed already.
AddResumedRequest(r, p, c, m) ==
    /\ phase = "idle"
    /\ status[r] = "NEW"
    /\ Len(running) < MaxRunning
    /\ p - c >= 1
    /\ AllocateSlots(1)
    /\ slots' = [slots EXCEPT ![r] = NthAllocation(1)]
    /\ status' = [status EXCEPT ![r] = "RUNNING"]
    /\ prompt' = [prompt EXCEPT ![r] = p]
    /\ computed' = [computed EXCEPT ![r] = c]
    /\ limit' = [limit EXCEPT ![r] = m]
    /\ running' = Append(running, r)
    /\ UNCHANGED <<waiting, parked, park_on_finish, parked_as, output, lane,
                   stepVars>>

-----------------------------------------------------------------------------
(***************************************************************************)
(* Leaving.                                                                *)
(***************************************************************************)

\* Mutants: the request stays in the batch; a request that loses its slots
\* without returning them.
ReleaseInPlace(r) ==
    /\ UNCHANGED running
    /\ FreeSlots(slots[r])
    /\ slots' = [slots EXCEPT ![r] = NoSlots]

ReleaseLeaking(r) ==
    /\ running' = RemoveFirst(running, r)
    /\ UNCHANGED arenaVars
    /\ slots' = [slots EXCEPT ![r] = NoSlots]

\* _release: out of the batch, slots back to the arena.
Release(r) ==
    /\ running' = RemoveFirst(running, r)
    /\ FreeSlots(slots[r])
    /\ slots' = [slots EXCEPT ![r] = NoSlots]

\* _release_parked.
ReleaseParked(r) ==
    /\ parked' = parked \ {r}
    /\ FreeSlots(slots[r])
    /\ slots' = [slots EXCEPT ![r] = NoSlots]

\* The common body of abort_request and fail_request, on a live request.
Leave(r, st) ==
    /\ \/ /\ status[r] = "RUNNING"
          /\ lane' = Retired({r}, IF Prefilling(r) THEN {r} ELSE {})
          /\ Release(r)
          /\ UNCHANGED <<waiting, parked>>
       \/ /\ status[r] = "PARKED"
          /\ ReleaseParked(r)
          /\ UNCHANGED <<waiting, running, lane>>
       \/ /\ status[r] = "WAITING"
          /\ waiting' = RemoveFirst(waiting, r)
          /\ UNCHANGED <<arenaVars, running, parked, slots, lane>>
    /\ status' = [status EXCEPT ![r] = st]
    /\ parked_as' = [parked_as EXCEPT ![r] = NoStatus]
    /\ park_on_finish' = park_on_finish \ {r}
    /\ UNCHANGED tokenVars

AbortRequest(r) ==
    Callable /\ Leave(r, "FINISHED_ABORTED") /\ UNCHANGED stepVars

FailRequest(r) ==
    Callable /\ Leave(r, "FINISHED_ERROR") /\ UNCHANGED stepVars

\* close_parked_request.
CloseParkedRequest(r) ==
    /\ Callable
    /\ r \in parked /\ status[r] = "PARKED"
    /\ ReleaseParked(r)
    /\ status' = [status EXCEPT ![r] = "FINISHED_CLOSED"]
    /\ parked_as' = [parked_as EXCEPT ![r] = NoStatus]
    /\ park_on_finish' = park_on_finish \ {r}
    /\ UNCHANGED <<waiting, running, tokenVars, lane, stepVars>>

\* continue_session_requests and its resume_parked_request: the tokens of the
\* finished turn join the prompt, t more follow, and the session rejoins the
\* batch with the slots it kept.
ContinueSession(r, t, m) ==
    /\ phase = "idle"
    /\ Len(running) < MaxRunning
    /\ r \in parked /\ status[r] = "PARKED"
    /\ output[r] > 0 /\ Gap(r) = 1
    /\ NumTokens(r) + t <= MaxPrompt
    /\ prompt' = [prompt EXCEPT ![r] = NumTokens(r) + t]
    /\ output' = [output EXCEPT ![r] = 0]
    /\ limit' = [limit EXCEPT ![r] = m]
    /\ parked' = parked \ {r}
    /\ status' = [status EXCEPT ![r] = "RUNNING"]
    /\ parked_as' = [parked_as EXCEPT ![r] = NoStatus]
    /\ running' = Append(running, r)
    /\ UNCHANGED <<arenaVars, waiting, park_on_finish, computed, slots, lane,
                   stepVars>>

-----------------------------------------------------------------------------
(***************************************************************************)
(* schedule().                                                             *)
(***************************************************************************)

\* The loop "while the i-th of the queue may be taken" takes exactly k.
TakesExactly(may, k) == 1 .. k \subseteq may /\ k + 1 \notin may

HasRoomToSpare(i) ==            \* Mutant: can_admit keeps one slot back.
    Len(running) + i <= MaxRunning /\ CanAdmit(i + 1)

\* A place in the batch and a slot for the i-th waiting request.
HasRoom(i) == Len(running) + i <= MaxRunning /\ CanAdmit(i)

AdmitFirst(k) ==
    /\ AllocateSlots(k)
    /\ waiting' = SubSeq(waiting, k + 1, Len(waiting))
    /\ running' = running \o SubSeq(waiting, 1, k)
    /\ slots' = [r \in Requests |->
                   IF \E i \in 1 .. k : waiting[i] = r
                   THEN NthAllocation(CHOOSE i \in 1 .. k : waiting[i] = r)
                   ELSE slots[r]]
    /\ status' = [r \in Requests |->
                    IF \E i \in 1 .. k : waiting[i] = r THEN "RUNNING"
                    ELSE status[r]]

\* An empty output ends the step at once.
BeginStep(grants) ==
    IF \E i \in DOMAIN grants : IsScheduled(grants[i])
    THEN batch' = grants /\ phase' = "scheduled"
    ELSE UNCHANGED stepVars

\* _schedule_default: the batch first, then the queue while budget, room and
\* slots last.
ScheduleDefault ==
    LET q    == running \o waiting
        want == [i \in DOMAIN q |-> Want(q[i])]
        may  == {i \in DOMAIN waiting :
                    HasRoom(i) /\ HasBudget(want, Len(running) + i)}
    IN  \E k \in 0 .. Len(waiting) :
            /\ TakesExactly(may, k)
            /\ AdmitFirst(k)
            /\ BeginStep(SubSeq(Grants(q, want), 1, Len(running) + k))
            /\ UNCHANGED lane

\* The lane after its leavers are gone and, if that emptied it, refilled from
\* the prefills of the batch and k admissions.
LaneRefill(kept, k) ==
    LET members == FirstPrefills \cup {waiting[i] : i \in 1 .. k}
    IN  IF members = {} THEN kept
        ELSE [kept EXCEPT !.members = members, !.starts = @ + 1]

\* _schedule_completion_prefill_lane: decodes first, then the lane's members;
\* the queue moves only when the lane is empty.
ScheduleCompletionPrefillLane ==
    LET kept == Retired(LaneLeavers, LaneSpoilers)
        may  == {i \in DOMAIN waiting :
                    /\ kept.members = {}
                    /\ Cardinality(FirstPrefills) + i <= LaneSize
                    /\ HasRoom(i)}
    IN  \E k \in 0 .. Len(waiting) :
            /\ TakesExactly(may, k)
            /\ AdmitFirst(k)
            /\ lane' = IF kept.members = {} THEN LaneRefill(kept, k) ELSE kept
            /\ LET q    == running \o running \o SubSeq(waiting, 1, k)
                   want == [i \in DOMAIN q |->
                              IF \/ i <= Len(running) /\ ~Prefilling(q[i])
                                 \/ i > Len(running) /\ q[i] \in lane'.members
                              THEN Want(q[i]) ELSE 0]
               IN  BeginStep(Grants(q, want))

Schedule ==
    /\ phase = "idle"
    /\ \/ LaneSize = 0 /\ ScheduleDefault
       \/ LaneSize # 0 /\ ScheduleCompletionPrefillLane
    /\ UNCHANGED <<parked, park_on_finish, parked_as, tokenVars>>

-----------------------------------------------------------------------------
(***************************************************************************)
(* The rest of the step, one entry of num_scheduled_tokens at a time.      *)
(***************************************************************************)

IsNextEntry(i) ==
    /\ IsScheduled(batch[i])
    /\ \A j \in 1 .. i - 1 : ~IsScheduled(batch[j])

\* Entry i is dealt with; the step ends with the last one.
PassEntry(i, during) ==
    IF \E j \in i + 1 .. Len(batch) : IsScheduled(batch[j])
    THEN batch' = SubSeq(batch, i + 1, Len(batch)) /\ phase' = during
    ELSE batch' = << >> /\ phase' = "idle"

InBatchOrAborted(r) ==          \* Mutant: the skip of line 269 is missing.
    status[r] \in {"RUNNING", "FINISHED_ABORTED"}

\* The check that skips a request aborted while its step executed.
InBatch(r) == status[r] = "RUNNING"

StatusAfterLimit(r, stop) ==    \* Mutant: > for >= in reached_length_limit.
    IF stop THEN "FINISHED_STOPPED"
    ELSE IF output[r] + 1 > limit[r] THEN "FINISHED_LENGTH"
    ELSE "RUNNING"

\* The token sampled when the gap closes may be a stop token.
StatusAfterToken(r, stop) ==
    IF stop THEN "FINISHED_STOPPED"
    ELSE IF output[r] + 1 >= limit[r] THEN "FINISHED_LENGTH"
    ELSE "RUNNING"

\* _park: the slots stay with the request.
Park(r, st) ==
    /\ running' = RemoveFirst(running, r)
    /\ parked' = parked \cup {r}
    /\ parked_as' = [parked_as EXCEPT ![r] = st]
    /\ status' = [status EXCEPT ![r] = "PARKED"]
    /\ UNCHANGED <<arenaVars, slots>>

\* What update_from_output does with a request whose status became st.
FinishTurn(r, st, n) ==
    /\ lane' = Retired({r}, IF computed[r] + n < prompt[r] THEN {r} ELSE {})
    /\ \/ /\ r \in park_on_finish
          /\ Park(r, st)
       \/ /\ r \notin park_on_finish
          /\ Release(r)
          /\ status' = [status EXCEPT ![r] = st]
          /\ UNCHANGED <<parked, parked_as>>

\* update_from_output, one entry: n tokens of r are computed, and one more is
\* sampled if that leaves none to compute.
CommitEntry(r, n, stop) ==
    /\ InBatch(r)
    /\ computed' = [computed EXCEPT ![r] = @ + n]
    /\ \/ /\ Gap(r) # n /\ stop = FALSE
          /\ UNCHANGED <<arenaVars, running, parked, parked_as, status, output,
                         slots, lane>>
       \/ /\ Gap(r) = n
          /\ output' = [output EXCEPT ![r] = @ + 1]
          /\ LET st == StatusAfterToken(r, stop) IN
             \/ /\ st = "RUNNING"
                /\ UNCHANGED <<arenaVars, running, parked, parked_as, status,
                               slots, lane>>
             \/ /\ st \in Finished
                /\ FinishTurn(r, st, n)
    /\ UNCHANGED <<waiting, park_on_finish, prompt, limit>>

UpdateFromOutput ==
    /\ phase \in {"scheduled", "updating"}
    /\ \E i \in DOMAIN batch :
        /\ IsNextEntry(i)
        /\ PassEntry(i, "updating")
        /\ \E stop \in BOOLEAN : CommitEntry(batch[i][1], batch[i][2], stop)

\* An entry whose request was aborted while the step executed.
SkipEntry ==
    /\ phase \in {"scheduled", "updating"}
    /\ \E i \in DOMAIN batch :
        /\ IsNextEntry(i)
        /\ ~InBatch(batch[i][1])
        /\ PassEntry(i, "updating")
    /\ UNCHANGED <<arenaVars, queueVars, status, parked_as, tokenVars, slots,
                   lane>>

\* GemmaNativeEngine._fail_scheduled, one entry: execution raised, and every
\* request that was scheduled and is still live is failed.
FailScheduled ==
    /\ phase \in {"scheduled", "failing"}
    /\ \E i \in DOMAIN batch :
        /\ IsNextEntry(i)
        /\ PassEntry(i, "failing")
        /\ \/ Leave(batch[i][1], "FINISHED_ERROR")
           \/ /\ status[batch[i][1]] \in Finished
              /\ UNCHANGED <<arenaVars, queueVars, status, parked_as,
                             tokenVars, slots, lane>>

-----------------------------------------------------------------------------

CallScheduler ==
    \E r \in Requests :
        \/ \E p \in PromptLens, m \in OutputLimits : AddRequest(r, p, m)
        \/ \E p \in PromptLens, m \in OutputLimits, c \in 0 .. MaxPrompt :
               r \notin Sessions /\ AddResumedRequest(r, p, c, m)
        \/ \E t \in SuffixLens, m \in OutputLimits : ContinueSession(r, t, m)
        \/ AbortRequest(r)
        \/ FailRequest(r)
        \/ CloseParkedRequest(r)

Step == Schedule \/ UpdateFromOutput \/ SkipEntry \/ FailScheduled

Next == CallScheduler \/ Step

Spec == Init /\ [][Next]_vars

-----------------------------------------------------------------------------
(***************************************************************************)
(* Fairness: the engine's owner keeps stepping while there is work         *)
(* (has_unfinished), so a step that can change something is taken and a    *)
(* step under way is finished.  Calls are never forced.                    *)
(***************************************************************************)

FairSpec == Spec /\ WF_vars(Step)

-----------------------------------------------------------------------------
(***************************************************************************)
(* Invariants.                                                             *)
(***************************************************************************)

TypeOK ==
    /\ ArenaTypeOK
    /\ waiting \in Seq(Requests) /\ running \in Seq(Requests)
    /\ parked \subseteq Requests /\ park_on_finish \subseteq Requests
    /\ status \in [Requests -> Status]
    /\ parked_as \in [Requests -> Finished \cup {NoStatus}]
    /\ prompt \in [Requests -> Nat] /\ output \in [Requests -> Nat]
    /\ limit \in [Requests -> Nat] /\ computed \in [Requests -> Nat]
    /\ slots \in [Requests -> SlotSet \cup {NoSlots}]
    /\ lane \in Lane
    /\ batch \in Seq(Requests \X Nat)
    /\ phase \in {"idle", "scheduled", "updating", "failing"}

\* A request is in the queue its status names, once, whatever the order of
\* admissions, aborts in mid-step, parking and resuming: list.remove and
\* dict.pop (scheduler.py:89, 313, 367, 373) always find what they look for.
QueuesMatchStatus ==
    /\ IsInjective(waiting) /\ IsInjective(running)
    /\ ToSet(waiting) = {r \in Requests : status[r] = "WAITING"}
    /\ ToSet(running) = {r \in Requests : status[r] = "RUNNING"}
    /\ parked = {r \in Requests : status[r] = "PARKED"}

Holders == {r \in Requests : status[r] \in {"RUNNING", "PARKED"}}

\* No slot is lost, shared or freed twice.  Exactly the running and parked
\* requests own state, one slot per family, no two the same one, and what
\* they own is what the arena has handed out.
SlotConservation ==
    /\ \A r \in Requests : slots[r] # NoSlots <=> r \in Holders
    /\ \A f \in Families : allocated[f] = {slots[r][f] : r \in Holders}
    /\ \A r, q \in Holders : \A f \in Families :
           slots[r][f] = slots[q][f] => r = q
    /\ ArenaPartition

\* The one scheduling invariant (request.py:3-6).  A live request always has
\* a token to compute and never computes past what is known; past its prompt
\* it is exactly one sampled token behind, which is what a parked session
\* must be to continue (gemma_engine.py:983); and it is never granted more
\* than its gap, so update_from_output's assertion holds.
GapInvariant ==
    /\ \A r \in Requests : status[r] \in Live =>
         /\ Gap(r) >= 1
         /\ Prefilling(r) => output[r] = 0
         /\ ~Prefilling(r) => Gap(r) = 1
         /\ status[r] = "PARKED" => ~Prefilling(r) /\ output[r] >= 1
         /\ status[r] # "PARKED" => output[r] < limit[r]
    /\ \A i \in DOMAIN batch :
         InBatch(batch[i][1]) => batch[i][2] <= Gap(batch[i][1])

OneChunkEach ==
    \A i, j \in DOMAIN batch :
        IsScheduled(batch[i]) /\ IsScheduled(batch[j])
          /\ batch[i][1] = batch[j][1] => i = j

\* The tokens that entries grant, counted like those of WantedBefore.
GrantedTokens(entries) ==
    {u \in (DOMAIN entries) \X (1 .. MaxPerRequest) : u[2] <= entries[u[1]][2]}

\* One step computes at most max_tokens_per_step tokens, at most
\* max_tokens_per_request_per_step of one request, and one chunk of each
\* request, though the lane makes two passes over the batch.
BudgetRespected ==
    /\ Cardinality(GrantedTokens(batch)) <= MaxTokensPerStep
    /\ \A i \in DOMAIN batch : batch[i][2] <= MaxPerRequest
    /\ OneChunkEach

\* Every lane that started has completed, was cancelled or is the one under
\* way, and a lane of running requests only; a cancelled member of one lane
\* does not count against the next.
LaneAccounts ==
    /\ lane.starts = lane.completions + lane.cancellations
                       + (IF lane.members = {} THEN 0 ELSE 1)
    /\ lane.members \subseteq ToSet(running)
    /\ lane.members = {} => ~lane.cancelled
    /\ Cardinality(lane.members) <= LaneSize

\* The budget SchedulerConfig insists on (config.py:86-96) is enough: while a
\* step executes, every request of the lane has its full chunk and every
\* decode its token, however many of each there are.
LaneFullyFunded ==
    LaneSize # 0 /\ phase = "scheduled" =>
        \A r \in ToSet(running) :
            r \in lane.members \/ ~Prefilling(r) =>
                <<r, Want(r)>> \in ToSet(batch)

(***************************************************************************)
(* Action properties.                                                      *)
(***************************************************************************)

\* An admitted request is in the same step's output: the engine zeroes the
\* slots of admitted requests only when the output is not empty
\* (engine.py:115-118), so an admission without tokens would leave the state
\* of the slots' last owner in place.
AdmittedAreScheduled ==
    [][\A r \in Requests :
         status[r] = "WAITING" /\ status'[r] = "RUNNING" =>
           \E n \in 1 .. MaxPerRequest : <<r, n>> \in ToSet(batch')]_vars

\* A finished request is never touched again, not even by the step that was
\* computing it when it was aborted.
FinishedIsFinal ==
    [][\A r \in Requests : status[r] \in Finished =>
         /\ status'[r] = status[r]
         /\ computed'[r] = computed[r] /\ output'[r] = output[r]]_vars

(***************************************************************************)
(* Liveness.                                                               *)
(***************************************************************************)

\* A request in the batch ends its turn, though others share its budget and
\* a resumed prefill may have to sit out a whole lane.
TurnsEnd ==
    \A r \in Requests : status[r] = "RUNNING" ~> status[r] # "RUNNING"

\* A queued request is admitted (or aborted), unless parked sessions come to
\* hold every slot.
QueueMoves ==
    \A r \in Requests :
        status[r] = "WAITING" ~>
            status[r] # "WAITING" \/ Cardinality(parked) >= NumSlots

\* What engine.py:21-28 says of batching: with a budget above
\* max_running_requests + max_tokens_per_request_per_step, each chunk is
\* exactly min(gap, cap) whatever else is in the batch.
ChunksIndependentOfBatch ==
    MaxTokensPerStep > MaxRunning + MaxPerRequest =>
        \A i \in DOMAIN batch : batch[i][2] = Want(batch[i][1])

=============================================================================
