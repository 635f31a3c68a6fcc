---------------------------- MODULE DurableEngine ----------------------------
(***************************************************************************)
(* wkvm/engine.py over the scheduler, the arena, runner/state.py's bank    *)
(* and the store: a step is schedule(), the zeroing of the slots of the    *)
(* admitted, the prefills one by one, the decodes in one batch, and        *)
(* update_from_output() with the snapshot of a request that finishes.      *)
(* Nothing catches what is raised on the way, so a step may end anywhere.  *)
(*                                                                         *)
(* A state is the tokens that were fed to get it, a token the request that *)
(* brought it.  The store keeps what it is given (StateStore); the engine  *)
(* is called and stepped by one thread at a time.  Who calls it may step   *)
(* it, or not; only run_request (server.py) keeps stepping, until its own  *)
(* request is finished or a step raises.                                   *)
(***************************************************************************)
EXTENDS Scheduler

CONSTANTS
    PrefillChunk,   \* RWKV7Runner.prefill_chunk
    MaxSaved,       \* bound: snapshots
    MaxRaises       \* bound: steps that raise

ASSUME DurableAssumption ==
    /\ PrefillChunk \in Nat \ {0}
    /\ MaxSaved \in Nat /\ MaxRaises \in Nat
    /\ Sessions = {} /\ LaneSize = 0    \* the engine parks nothing

VARIABLES
    tokens,     \* the known tokens of each request
    bank,       \* RWKV7StateBank: the state in each slot
    fresh,      \* the admitted whose slots are not zeroed yet
    todo,       \* the entries of the batch that were not fed yet, by index
    armed,      \* _save_on_finish
    serving,    \* the request that run_request was called for: none or one
    saved,      \* the records of the store, in the order of their handles
    hurt,       \* history: requests that were in a step that raised
    lost,       \* history: slots that a submit took and left behind
    raises      \* history: steps that raised

engineVars == <<tokens, bank, fresh, todo, armed, serving, saved, hurt, lost,
                raises>>
allVars    == <<vars, engineVars>>

Zero    == << >>                    \* the state of an empty prefix
Garbage == << <<"no prefix", 0>> >> \* the state of no prefix

SnapshotType ==
    [tokens : Seq(Requests), computed : Nat, sound : BOOLEAN,
     state : [Families -> Seq(Requests) \cup {Garbage}]]

EngineInit ==
    /\ Init
    /\ tokens = [r \in Requests |-> << >>]
    /\ bank = [f \in Families |-> [s \in Slot |-> Zero]]
    /\ fresh = << >> /\ todo = {}
    /\ armed = {} /\ serving = {} /\ saved = << >>
    /\ hurt = {} /\ lost = 0 /\ raises = 0

Known(r, n)  == SubSeq(tokens[r], 1, n)
StateOf(r)   == [f \in Families |-> bank[f][slots[r][f]]]

\* The n tokens from num_computed_tokens on, fed to a state.  Only the state
\* of what comes before them becomes the state of a prefix.
Fed(r, n, state) ==
    IF state = Known(r, computed[r]) THEN Known(r, computed[r] + n) ELSE Garbage

\* runner.prefill and decode_step: gather, forward, scatter.
FeedAll(entries) ==
    bank' = [f \in Families |-> [s \in Slot |->
               IF \E e \in entries : slots[e[1]] # NoSlots /\ slots[e[1]][f] = s
               THEN LET e == CHOOSE e \in entries : slots[e[1]][f] = s
                    IN  Fed(e[1], e[2], bank[f][s])
               ELSE bank[f][s]]]

Overwrite(s, state) ==
    bank' = [f \in Families |-> [bank[f] EXCEPT ![s[f]] = state[f]]]

-----------------------------------------------------------------------------
(***************************************************************************)
(* Calls.                                                                  *)
(***************************************************************************)

\* run_request has its request still to finish.
Driving == \E r \in serving : status[r] \notin Finished

\* The server's lock is held until run_request is over.
Between == phase = "idle" /\ ~Driving
CanSave == Len(saved) + Cardinality(armed) < MaxSaved

\* add_request, and save_on_finish if save holds.
EngineAdd(r, p, m, save) ==
    /\ Between
    /\ AddRequest(r, p, m)
    /\ save => CanSave
    /\ tokens' = [tokens EXCEPT ![r] = [i \in 1 .. p |-> r]]
    /\ armed' = IF save THEN armed \cup {r} ELSE armed
    /\ UNCHANGED <<bank, fresh, todo, serving, saved, hurt, lost, raises>>

EngineAbort(r) ==
    /\ Between
    /\ AbortRequest(r)
    /\ UNCHANGED engineVars

\* snapshot_request: the full token list goes with the state, whatever was
\* computed of it.
SnapshotRequest(r) ==
    /\ Between
    /\ slots[r] # NoSlots /\ CanSave
    /\ saved' = Append(saved, [tokens |-> tokens[r], computed |-> computed[r],
                               sound |-> r \notin hurt, state |-> StateOf(r)])
    /\ UNCHANGED <<vars, tokens, bank, fresh, todo, armed, serving, hurt, lost, raises>>

\* hibernate
Hibernate(r) ==
    /\ Between
    /\ slots[r] # NoSlots /\ CanSave
    /\ saved' = Append(saved, [tokens |-> tokens[r], computed |-> computed[r],
                               sound |-> r \notin hurt, state |-> StateOf(r)])
    /\ AbortRequest(r)
    /\ UNCHANGED <<tokens, bank, fresh, todo, armed, serving, hurt, lost, raises>>

\* submit_from_handle, with t tokens of its own to add, and save_on_finish if
\* save holds (save_as in the body of /v1/generate).
Submit(r, h, t, m, save) ==
    LET rec == saved[h] IN
    /\ Between
    /\ save => CanSave
    /\ Len(rec.tokens) + t <= MaxPrompt
    /\ AddResumedRequest(r, Len(rec.tokens) + t, rec.computed, m)
    /\ Overwrite(NthAllocation(1), rec.state)
    /\ tokens' = [tokens EXCEPT ![r] = rec.tokens \o [i \in 1 .. t |-> r]]
    /\ hurt' = IF rec.sound THEN hurt ELSE hurt \cup {r}
    /\ armed' = IF save THEN armed \cup {r} ELSE armed
    /\ UNCHANGED <<fresh, todo, serving, saved, lost, raises>>

\* Mutant: the slots of a load that raised stay allocated.
SubmitRefusedLeaking ==
    /\ Between
    /\ AllocateSlots(1)
    /\ UNCHANGED <<waiting, running, parked, park_on_finish, status, parked_as,
                   tokenVars, slots, lane, stepVars, engineVars>>

\* The load raises (an unknown handle, another model's fingerprint, a file that
\* cannot be read): what was allocated goes back, behind the other free slots.
SubmitRefused ==
    /\ Between
    /\ CanAdmit(1)
    /\ free' = [f \in Families |-> Append(Tail(free[f]), Head(free[f]))]
    /\ UNCHANGED <<allocated, waiting, running, parked, park_on_finish, status,
                   parked_as, tokenVars, slots, lane, stepVars, engineVars>>

\* Something after the load raises (max_new_tokens < 1, or no running capacity
\* for one more): the slots were allocated and nobody owns them.
SubmitLost(h) ==
    /\ Between
    /\ raises < MaxRaises
    /\ AllocateSlots(1)
    /\ Overwrite(NthAllocation(1), saved[h].state)
    /\ lost' = lost + 1 /\ raises' = raises + 1
    /\ UNCHANGED <<waiting, running, parked, park_on_finish, status, parked_as,
                   tokenVars, slots, lane, stepVars,
                   tokens, fresh, todo, armed, serving, saved, hurt>>

\* run_request: the engine will be stepped until r is finished.  The server
\* calls it for the request it has just added.
RunRequest(r) ==
    /\ Between
    /\ status[r] \in {"WAITING", "RUNNING"}
    /\ serving' = {r}
    /\ UNCHANGED <<vars, tokens, bank, fresh, todo, armed, saved, hurt, lost,
                   raises>>

-----------------------------------------------------------------------------
(***************************************************************************)
(* step().                                                                 *)
(***************************************************************************)

\* schedule(); an output without tokens ends the step.
StartStep ==
    /\ Schedule
    /\ todo' = {i \in DOMAIN batch' : IsScheduled(batch'[i])}
    /\ fresh' = IF todo' = {} THEN << >>
                ELSE SubSeq(running', Len(running) + 1, Len(running'))
    /\ UNCHANGED <<tokens, bank, armed, serving, saved, hurt, lost, raises>>

\* Mutant: the slots of the admitted are taken as they are.
ZeroNothing ==
    /\ fresh # << >>
    /\ fresh' = << >>
    /\ UNCHANGED <<vars, tokens, bank, todo, armed, serving, saved, hurt, lost,
                   raises>>

\* bank.zero_slots, and a generator.
ZeroSlots ==
    /\ fresh # << >>
    /\ Overwrite(slots[Head(fresh)], [f \in Families |-> Zero])
    /\ fresh' = Tail(fresh)
    /\ UNCHANGED <<vars, tokens, todo, armed, serving, saved, hurt, lost, raises>>

\* More than one token of a request is a prefill of its own.
NextPrefill(i) ==
    batch[i][2] > 1 /\ \A j \in todo : j < i => batch[j][2] = 1

Prefill ==
    /\ fresh = << >>
    /\ \E i \in todo :
        /\ NextPrefill(i)
        /\ FeedAll({batch[i]})
        /\ todo' = todo \ {i}
    /\ UNCHANGED <<vars, tokens, fresh, armed, serving, saved, hurt, lost, raises>>

\* All that have one token to compute, in one batch.
DecodeStep ==
    /\ fresh = << >> /\ todo # {}
    /\ \A i \in todo : batch[i][2] = 1
    /\ FeedAll({batch[i] : i \in todo})
    /\ todo' = {}
    /\ UNCHANGED <<vars, tokens, fresh, armed, serving, saved, hurt, lost, raises>>

StepUnderWay == phase # "idle"
Executed     == StepUnderWay /\ fresh = << >> /\ todo = {}
NextEntry    == batch[CHOOSE i \in DOMAIN batch : IsNextEntry(i)]
InStep       == {batch[i][1] : i \in {i \in DOMAIN batch : IsScheduled(batch[i])}}

\* One more token is known of a request whose gap was closed.
Learned(r, known) ==
    [tokens EXCEPT ![r] = IF known > Len(@) THEN Append(@, r) ELSE @]

\* _snapshot_on_finish, while the request still owns its slots.
FinishRecord(r) ==
    [tokens |-> tokens'[r], computed |-> computed'[r],
     sound |-> r \notin hurt, state |-> StateOf(r)]

Finishes(r) == status[r] \notin Finished /\ status'[r] \in Finished

\* update_from_output, one entry, with on_finish.
Update ==
    /\ Executed
    /\ UpdateFromOutput \/ SkipEntry
    /\ LET r == NextEntry[1] IN
        /\ tokens' = Learned(r, prompt'[r] + output'[r])
        /\ saved' = IF Finishes(r) /\ r \in armed
                    THEN Append(saved, FinishRecord(r)) ELSE saved
        /\ armed' = IF Finishes(r) THEN armed \ {r} ELSE armed
    /\ UNCHANGED <<bank, fresh, todo, serving, hurt, lost, raises>>

\* The step is over for the engine, and run_request for its caller: what the
\* step did to the bank stays done, and nobody steps the engine any more.
EndRaised ==
    /\ raises < MaxRaises
    /\ raises' = raises + 1
    /\ batch' = << >> /\ phase' = "idle"
    /\ fresh' = << >> /\ todo' = {}
    /\ hurt' = hurt \cup InStep
    /\ serving' = {}

\* Zeroing, a forward or the sampling raises; of a prefill, the chunks before
\* were fed.
StepRaises ==
    /\ StepUnderWay /\ phase = "scheduled"
    /\ EndRaised
    /\ \/ UNCHANGED bank
       \/ /\ fresh = << >>
          /\ \E i \in todo : NextPrefill(i) /\ \E k \in 1 .. batch[i][2] - 1 :
                /\ k % PrefillChunk = 0
                /\ FeedAll({<<batch[i][1], k>>})
    /\ UNCHANGED <<arenaVars, queueVars, status, parked_as, tokenVars, slots,
                   lane, tokens, armed, saved, lost>>

\* on_finish raises, with the record in the store or not (StateStore's
\* WriteIndexRaises): the request is finished and stays in the batch with its
\* slots, and what follows it in the output is not committed.
OnFinishRaises ==
    /\ Executed
    /\ EndRaised
    /\ LET r == NextEntry[1]
           n == NextEntry[2]
       IN  /\ InBatch(r) /\ Gap(r) = n /\ r \in armed
           /\ \E stop \in BOOLEAN :
                /\ StatusAfterToken(r, stop) \in Finished
                /\ status' = [status EXCEPT ![r] = StatusAfterToken(r, stop)]
           /\ computed' = [computed EXCEPT ![r] = @ + n]
           /\ output' = [output EXCEPT ![r] = @ + 1]
           /\ tokens' = Learned(r, Len(tokens[r]) + 1)
           /\ armed' = armed \ {r}
           /\ saved' \in {saved, Append(saved, FinishRecord(r))}
    /\ UNCHANGED <<arenaVars, queueVars, parked_as, prompt, limit, slots, lane,
                   bank, lost>>

-----------------------------------------------------------------------------

Call ==
    \/ \E r \in Requests :
        \/ \E p \in PromptLens, m \in OutputLimits, save \in BOOLEAN :
               EngineAdd(r, p, m, save)
        \/ EngineAbort(r)
        \/ SnapshotRequest(r)
        \/ Hibernate(r)
        \/ \E h \in DOMAIN saved, t \in SuffixLens \cup {0}, m \in OutputLimits,
              save \in BOOLEAN : Submit(r, h, t, m, save)
        \/ RunRequest(r)
    \/ SubmitRefused
    \/ \E h \in DOMAIN saved : SubmitLost(h)

EngineStep == StartStep \/ ZeroSlots \/ Prefill \/ DecodeStep \/ Update
Raise      == StepRaises \/ OnFinishRaises

EngineNext == Call \/ EngineStep \/ Raise

\* A step that nothing ends goes on, and run_request makes the next one.  Who
\* else steps the engine may stop at any time, and nothing has to raise.
KeepStepping == (StepUnderWay \/ Driving) /\ EngineStep

EngineSpec ==
    EngineInit /\ [][EngineNext]_allVars /\ WF_allVars(KeepStepping)

-----------------------------------------------------------------------------

\* Finished requests that are still in the batch.
Stranded == {r \in ToSet(running) : status[r] \in Finished}

\* A handle is what it says: its state is that of the first computed of its
\* tokens, also after any chain of resumes, and something is left to schedule
\* (store.py:45-48).  A step that raised spoils the handles of the requests
\* that were in it and of those resumed from them, and no others, though slots
\* go from one request to the next.
SnapshotsAreExact ==
    \A h \in DOMAIN saved : LET rec == saved[h] IN
        /\ rec.computed < Len(rec.tokens)
        /\ rec.sound => \A f \in Families :
               rec.state[f] = SubSeq(rec.tokens, 1, rec.computed)

\* Whatever raised, no slot has two owners, and those that nobody can free any
\* more are the ones a submit lost and those of the stranded, whom only an
\* on_finish that raised leaves behind.
SlotsAreAccountedFor ==
    LET owners == {r \in Requests : slots[r] # NoSlots} IN
    /\ \A r, q \in owners : \A f \in Families : slots[r][f] = slots[q][f] => r = q
    /\ \A f \in Families :
           Cardinality(allocated[f]) = Cardinality(owners) + lost
    /\ ArenaPartition
    /\ owners = ToSet(running)
    /\ Stranded \subseteq hurt

\* run_request returns or raises, though requests that earlier errors left in
\* the queues share its steps, and the stranded are computed again in each of
\* them: unless these use up the token budget, or with the lost slots leave
\* no room for one that waits.
RunRequestReturns ==
    \A r \in Requests :
        r \in serving ~>
            \/ r \notin serving \/ status[r] \in Finished
            \/ Cardinality(Stranded) >= MaxTokensPerStep
            \/ /\ status[r] = "WAITING"
               /\ \/ Cardinality(Stranded) >= MaxRunning
                  \/ Cardinality(Stranded) + lost >= NumSlots

=============================================================================
