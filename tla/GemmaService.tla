---------------------------- MODULE GemmaService ----------------------------
(***************************************************************************)
(* wkvm/gemma_server.py, BoundedGemmaService: HTTP threads hand requests   *)
(* and session turns to one worker thread that runs the engine.  Two locks *)
(* order them.  cv guards the queues and the books; engine_lock guards the *)
(* engine and the sessions; a thread that needs both takes cv first.  The  *)
(* worker takes the queues under cv, works through them under engine_lock  *)
(* alone, and settles the results under cv, so whatever it holds in its    *)
(* hands is in no queue while clients time out, disconnect and cancel.     *)
(*                                                                         *)
(* The engine is what GemmaNativeEngine promises of its scheduler: it      *)
(* admits in order while there is room, and a running request ends, parks  *)
(* or fails.  What prompts and tokens are is left out, so whether a turn   *)
(* extends what its session has seen is the environment's choice.          *)
(***************************************************************************)
EXTENDS SequencesExt

CONSTANTS
    Requests,           \* Request objects of generate() and submit()
    Ids,                \* the req_ids clients choose
    IdOf,               \* the one each object has
    Callers,            \* threads in cancel()
    Turns,              \* _ChatTurn objects
    Sessions,           \* session_ids
    SessionOf,          \* the one each turn names
    Leavers,            \* bound: turns whose clients may leave early
    Scenes,             \* bound: the sets of clients that may come together
    Modes,              \* "chat", "prompt" and "delta" turns
    MaxQueue,           \* max_queue
    MaxCompleted,       \* max_completed_requests
    MaxChatSessions,    \* max_chat_sessions
    NumSlots,           \* slots of the engine's arena
    MaxRunning,         \* max_running_requests
    MaxEngineIds,       \* bound: engine requests opened for sessions
    Errors              \* what may go wrong: "engine", "fatal", "close"

ASSUME ServiceAssumption ==
    /\ IdOf \in [Requests -> Ids] /\ SessionOf \in [Turns -> Sessions]
    /\ Requests \cap (1 .. MaxEngineIds) = {} /\ Requests \cap Turns = {}
    /\ "nobody" \notin Requests \cup Turns
    /\ Modes \subseteq {"chat", "prompt", "delta"}
    /\ MaxQueue \in Nat \ {0} /\ MaxCompleted \in Nat \ {0}
    /\ MaxChatSessions \in Nat \ {0} /\ NumSlots \in Nat \ {0}
    /\ MaxRunning \in Nat \ {0} /\ MaxEngineIds \in Nat
    /\ Errors \subseteq {"engine", "fatal", "close"}

VARIABLES
    status,         \* Request.status, of clients' and sessions' requests
    waiting,        \* the engine's queue
    known,          \* scheduler.requests
    pending,        \* _pending
    pending_chat,   \* _pending_chat
    tracked,        \* _requests, in the order they were accepted
    completed,      \* _completed_order
    cancelled,      \* the ids marked for the worker
    deadlines,      \* the ids in _deadlines
    turn,           \* the fields of each _ChatTurn
    active_turns,   \* _chat_active_turns
    sessions,       \* _chat_sessions, by engine id
    opened,         \* _chat_req_counter
    worker,         \* where the worker is, and what it holds
    cv,             \* the client that is inside its cv section
    client,         \* where the thread of each request and turn is
    cancel,         \* where each call of _cancel_request is
    leave,          \* where each call of _cancel_chat_turn is
    service,        \* closed, ready, and what close() did
    told            \* history: requests some caller was told are cancelled

engineVars == <<status, waiting, known>>
queueVars  == <<pending, pending_chat>>
bookVars   == <<tracked, completed, cancelled, deadlines>>
turnVars   == <<turn, active_turns>>
sessVars   == <<sessions, opened>>
vars == <<status, waiting, known, pending, pending_chat, tracked, completed,
          cancelled, deadlines, turn, active_turns, sessions, opened, worker,
          cv, client, cancel, leave, service, told>>

EngineIds  == 1 .. MaxEngineIds
Objects    == Requests \cup EngineIds
Canceller  == Requests \cup Callers
LiveStatus == {"WAITING", "RUNNING", "PARKED"}
Finished   == {"FINISHED", "ABORTED", "ERROR", "CLOSED"}
Nobody     == "nobody"
NoId       == 0

NoWork   == [at |-> "take", requests |-> << >>, turns |-> << >>, settled |-> {},
             retry |-> << >>]
At(a)    == [NoWork EXCEPT !.at = a]
NewTurn  == [state |-> "new", mode |-> "chat", cancel_requested |-> FALSE,
             engine_req_id |-> NoId, finish_reason |-> "none"]

\* The elements of s that are in S, and those that are not, in their order.
\* SelectSeq is a recursive operator, which no proof can be about.
Only(s, S) ==
    LET kept[i \in 0 .. Len(s)] ==
            IF i = 0 THEN << >>
            ELSE IF s[i] \in S THEN Append(kept[i - 1], s[i]) ELSE kept[i - 1]
    IN  kept[Len(s)]

Without(s, S) == Only(s, ToSet(s) \ S)

\* d[x] = v
Assign(d, x, v) == [y \in DOMAIN d \cup {x} |-> IF y = x THEN v ELSE d[y]]

-----------------------------------------------------------------------------
(***************************************************************************)
(* State formulae.                                                         *)
(***************************************************************************)

Live(o)       == status[o] \in LiveStatus
IsFinished(o) == status[o] \in Finished
Running       == {o \in Objects : status[o] = "RUNNING"}
Holders       == {o \in Objects : status[o] \in {"RUNNING", "PARKED"}}
HasUnfinished == waiting # << >> \/ Running # {}

\* The sections of the worker that hold engine_lock, and those in which its
\* thread is alive.
EngineHeld  == worker.at \in {"add", "start"}
WorkerAlive == worker.at \notin {"stopped", "dead"}
CvFree      == cv = Nobody
BothFree    == CvFree /\ ~EngineHeld

\* The request tracked under an id, and the session open under a name: none
\* or one.
TrackedAs(i) == {r \in ToSet(tracked) : IdOf[r] = i}
OpenAs(s)    == {x \in DOMAIN sessions : sessions[x].session = s}

Kind(mode) == IF mode = "chat" THEN "chat" ELSE "token"

\* len(_pending) + len(_pending_chat) + len(scheduler.waiting)
Queued == Len(pending) + Len(pending_chat) + Len(waiting)

\* Sessions that may be closed to make room, or because they are old.
Evictable ==
    {x \in DOMAIN sessions :
        /\ sessions[x].active = Nobody
        /\ status[x] = "PARKED"
        /\ sessions[x].session \notin DOMAIN active_turns}

-----------------------------------------------------------------------------
(***************************************************************************)
(* The books.                                                              *)
(***************************************************************************)

StillDueAll(due, ids) == due    \* Mutant: recording leaves the deadline.
StillDue(due, ids)    == due \ ids

\* _record_completed_locked and _trim_completed_locked, when statuses are st,
\* marks are the cancelled ids and due the deadlines: requests of first that
\* are finished are recorded, then those of rest, and only the last
\* MaxCompleted are remembered.
RecordAndTrim(st, first, rest, marks, due) ==
    LET new(S) == Only(tracked, {r \in S : /\ st[r] \in Finished
                                           /\ r \notin ToSet(completed)})
        fresh  == new(first) \o new(rest \ first)
        all    == completed \o fresh
        drop   == IF Len(all) > MaxCompleted THEN Len(all) - MaxCompleted ELSE 0
        over   == ToSet(SubSeq(all, 1, drop))
        ids    == {IdOf[r] : r \in ToSet(fresh)}
    IN  /\ completed' = SubSeq(all, drop + 1, Len(all))
        /\ tracked' = Without(tracked, over)
        /\ cancelled' = marks \ ids
        /\ deadlines' = StillDue(due, ids)

\* The requests that _cancel_locked aborts for the ids of D: those still
\* queued, or live in the engine.
Expiring(D) ==
    {r \in ToSet(tracked) :
        /\ IdOf[r] \in D /\ ~IsFinished(r)
        /\ r \in ToSet(pending) \/ r \in known}

\* _expire_deadlines_locked finds the ids of D expired, and rest is recorded
\* too.
Expire(D, rest) ==
    LET gone == Expiring(D)
        st   == [o \in Objects |-> IF o \in gone THEN "ABORTED" ELSE status[o]]
        late == {IdOf[r] : r \in {r \in ToSet(tracked) \ gone :
                                    IdOf[r] \in D /\ ~IsFinished(r)}}
    IN  /\ D \subseteq deadlines
        /\ status' = st
        /\ waiting' = Without(waiting, gone)
        /\ RecordAndTrim(st, gone, rest, (cancelled \ D) \cup late,
                         deadlines \ D)
        /\ UNCHANGED known

-----------------------------------------------------------------------------
(***************************************************************************)
(* Clients of plain requests: generate(), stream() and submit().           *)
(***************************************************************************)

Init ==
    /\ status = [o \in Objects |-> "NEW"] /\ waiting = << >> /\ known = {}
    /\ pending = << >> /\ pending_chat = << >>
    /\ tracked = << >> /\ completed = << >>
    /\ cancelled = {} /\ deadlines = {}
    /\ turn = [t \in Turns |-> NewTurn] /\ active_turns = << >>
    /\ sessions = << >> /\ opened = 0
    /\ worker = At("take") /\ cv = Nobody
    /\ client = [c \in Requests \cup Turns |-> "idle"]
    /\ cancel = [c \in Canceller |-> [at |-> "idle", request |-> Nobody,
                                       result |-> FALSE]]
    /\ leave = [t \in Turns |-> [at |-> "idle", engine_req_id |-> NoId,
                                  completed_race |-> FALSE, timed_out |-> FALSE]]
    /\ service = [closed |-> FALSE, ready |-> TRUE, close |-> "open"]
    /\ told = {}

\* A client that has come or may still come beside those that have.
Comes(c) ==
    \E S \in Scenes :
        /\ c \in S
        /\ {d \in Requests \cup Turns : client[d] # "idle"} \subseteq S
        /\ {d \in Callers : cancel[d].at # "idle"} \subseteq S

Admitting == ~service.closed /\ service.ready /\ WorkerAlive

\* _enqueue_locked: generate() and stream() wait for the answer, submit() may
\* leave a deadline with the worker instead.
Enqueue(r, waits, due) ==
    /\ BothFree /\ Admitting
    /\ client[r] = "idle" /\ Comes(r)
    /\ TrackedAs(IdOf[r]) = {}
    /\ Queued < MaxQueue
    /\ status' = [status EXCEPT ![r] = "WAITING"]
    /\ pending' = Append(pending, r)
    /\ tracked' = Append(tracked, r)
    /\ deadlines' = IF due THEN deadlines \cup {IdOf[r]} ELSE deadlines
    /\ client' = [client EXCEPT ![r] = IF waits THEN "waiting" ELSE "done"]
    /\ UNCHANGED <<waiting, known, pending_chat, completed, cancelled, turnVars,
                   sessVars, worker, cv, cancel, leave, service, told>>

\* The thread wakes up and finds its answer, or the service closed.
Answered(r) ==
    /\ CvFree
    /\ client[r] = "waiting"
    /\ IsFinished(r) \/ service.closed
    /\ client' = [client EXCEPT ![r] = "done"]
    /\ UNCHANGED <<engineVars, queueVars, bookVars, turnVars, sessVars, worker,
                   cv, cancel, leave, service, told>>

\* It finds that its time is up, or its client has gone: it lets go of cv and
\* will cancel.
GivesUp(r) ==
    /\ CvFree
    /\ client[r] = "waiting" /\ ~IsFinished(r)
    /\ client' = [client EXCEPT ![r] = "leaving"]
    /\ UNCHANGED <<engineVars, queueVars, bookVars, turnVars, sessVars, worker,
                   cv, cancel, leave, service, told>>

-----------------------------------------------------------------------------
(***************************************************************************)
(* _cancel_request, in its three sections.  A canceller is the thread of a *)
(* request that gave up on it, or a caller of cancel().                    *)
(***************************************************************************)

MayCancel(c, i) ==
    /\ cancel[c].at = "idle" /\ Comes(c)
    /\ c \in Requests => client[c] = "leaving" /\ i = IdOf[c]

\* A call ends: a thread that gave up goes back to its answer if it lost the
\* race, a caller is gone.
Returns(c, result) ==
    /\ cancel' = [cancel EXCEPT ![c] =
                     [at |-> IF c \in Requests THEN "idle" ELSE "done",
                      request |-> Nobody, result |-> FALSE]]
    /\ client' = IF c \notin Requests THEN client
                 ELSE [client EXCEPT ![c] =
                         IF result THEN "done" ELSE "waiting"]

\* Mutant: the id is marked before it is looked up.
CancelUnknownMarking(c, i) ==
    /\ CvFree /\ MayCancel(c, i)
    /\ TrackedAs(i) = {}
    /\ cancelled' = cancelled \cup {i}
    /\ Returns(c, TRUE)
    /\ UNCHANGED <<engineVars, queueVars, tracked, completed, deadlines, turnVars,
                   sessVars, worker, cv, leave, service, told>>

\* An id that is not tracked, any more or at all: KeyError.
CancelUnknown(c, i) ==
    /\ CvFree /\ MayCancel(c, i)
    /\ TrackedAs(i) = {}
    /\ Returns(c, TRUE)
    /\ UNCHANGED <<engineVars, queueVars, bookVars, turnVars, sessVars, worker,
                   cv, leave, service, told>>

\* Under cv: it is finished.
CancelFinished(c, i) ==
    /\ CvFree /\ MayCancel(c, i)
    /\ \E r \in TrackedAs(i) : IsFinished(r)
    /\ cancelled' = cancelled \ {i}
    /\ deadlines' = deadlines \ {i}
    /\ Returns(c, FALSE)
    /\ UNCHANGED <<engineVars, queueVars, tracked, completed, turnVars, sessVars,
                   worker, cv, leave, service, told>>

\* Under cv: it is still queued.
CancelPending(c, i) ==
    /\ CvFree /\ MayCancel(c, i)
    /\ \E r \in TrackedAs(i) :
        /\ ~IsFinished(r) /\ r \in ToSet(pending)
        /\ pending' = Without(pending, {r})
        /\ status' = [status EXCEPT ![r] = "ABORTED"]
        /\ RecordAndTrim(status', {r}, {}, cancelled \ {i}, deadlines \ {i})
        /\ told' = told \cup {r}
    /\ Returns(c, TRUE)
    /\ UNCHANGED <<waiting, known, pending_chat, turnVars, sessVars, worker, cv,
                   leave, service>>

\* Under cv: the worker or the engine has it, so the worker is left a mark.
CancelMark(c, i) ==
    /\ CvFree /\ MayCancel(c, i)
    /\ \E r \in TrackedAs(i) :
        /\ ~IsFinished(r) /\ r \notin ToSet(pending)
        /\ cancel' = [cancel EXCEPT ![c] = [at |-> "marked", request |-> r,
                                            result |-> FALSE]]
    /\ cancelled' = cancelled \cup {i}
    /\ deadlines' = deadlines \ {i}
    /\ UNCHANGED <<engineVars, queueVars, tracked, completed, turnVars, sessVars,
                   worker, cv, client, leave, service, told>>

\* Under engine_lock: the engine is asked to abort whatever it knows by this
\* id.
CancelInEngine(c) ==
    /\ ~EngineHeld
    /\ cancel[c].at = "marked"
    /\ LET r    == cancel[c].request
           hit  == {q \in known \cap Requests : IdOf[q] = IdOf[r] /\ Live(q)}
           st   == [o \in Objects |->
                      IF o \in hit /\ ~IsFinished(r) THEN "ABORTED" ELSE status[o]]
           done == st[r] \notin Finished \ {"ABORTED"}
       IN  /\ status' = st
           /\ waiting' = Only(waiting, {o \in Objects : st[o] \in LiveStatus})
           /\ cancel' = [cancel EXCEPT ![c].at = "aborted", ![c].result = done]
    /\ UNCHANGED <<known, queueVars, bookVars, turnVars, sessVars, worker, cv,
                   client, leave, service, told>>

\* Under cv again.
CancelRecord(c) ==
    /\ CvFree
    /\ cancel[c].at = "aborted"
    /\ LET r == cancel[c].request IN
       /\ \/ /\ IsFinished(r)
             /\ RecordAndTrim(status, TrackedAs(IdOf[r]), {},
                              cancelled \ {IdOf[r]}, deadlines)
          \/ /\ ~IsFinished(r)
             /\ UNCHANGED bookVars
       /\ told' = IF cancel[c].result THEN told \cup {r} ELSE told
    /\ Returns(c, cancel[c].result)
    /\ UNCHANGED <<engineVars, queueVars, turnVars, sessVars, worker, cv, leave,
                   service>>

-----------------------------------------------------------------------------
(***************************************************************************)
(* Clients of session turns: stream_chat().                                *)
(***************************************************************************)

\* _enqueue_chat_locked, while it holds engine_lock as well.
EnqueueChat(t, mode) ==
    LET open == OpenAs(SessionOf[t]) IN
    /\ BothFree /\ Admitting
    /\ client[t] = "idle" /\ Comes(t)
    /\ SessionOf[t] \notin DOMAIN active_turns
    /\ \A x \in open : sessions[x].kind = Kind(mode)
    /\ mode = "prompt" => open = {}
    /\ mode = "delta" => \E x \in open : status[x] = "PARKED"
    /\ Queued < MaxQueue
    /\ cv' = t
    /\ turn' = [turn EXCEPT ![t].mode = mode]
    /\ client' = [client EXCEPT ![t] = "queueing"]
    /\ UNCHANGED <<engineVars, queueVars, bookVars, active_turns, sessVars,
                   worker, cancel, leave, service, told>>

\* The rest of it, with cv alone.
AcceptTurn(t) ==
    /\ cv = t /\ client[t] = "queueing"
    /\ pending_chat' = Append(pending_chat, t)
    /\ active_turns' = Assign(active_turns, SessionOf[t], t)
    /\ turn' = [turn EXCEPT ![t].state = "pending"]
    /\ client' = [client EXCEPT ![t] = "waiting"]
    /\ cv' = Nobody
    /\ UNCHANGED <<engineVars, pending, bookVars, sessVars, worker, cancel, leave,
                   service, told>>

\* The generator yields its finish event, or leaves its finally clause with
\* the turn finished.
TurnReturns(t) ==
    /\ CvFree
    /\ client[t] \in {"waiting", "leaving"} /\ leave[t].at = "idle"
    /\ turn[t].state = "finished"
    /\ client' = [client EXCEPT ![t] = "done"]
    /\ UNCHANGED <<engineVars, queueVars, bookVars, turnVars, sessVars, worker,
                   cv, cancel, leave, service, told>>

\* _cancel_chat_turn, under cv: for a timeout, or in the finally clause of a
\* stream that was closed or raised.
LeaveTurn(t, timed_out) ==
    /\ t \in Leavers /\ CvFree
    /\ client[t] \in {"waiting", "leaving"} /\ leave[t].at = "idle"
    /\ turn[t].state # "finished"
    /\ timed_out => client[t] = "waiting"
    /\ turn' = [turn EXCEPT ![t].cancel_requested = TRUE]
    /\ pending_chat' = Without(pending_chat, {t})
    /\ leave' = [leave EXCEPT ![t] =
                    [at |-> "asked", engine_req_id |-> turn[t].engine_req_id,
                     completed_race |-> FALSE, timed_out |-> timed_out]]
    /\ client' = [client EXCEPT ![t] = "leaving"]
    /\ UNCHANGED <<engineVars, pending, bookVars, active_turns, sessVars, worker,
                   cv, cancel, service, told>>

OrAborted(reason) == IF reason = "none" THEN "aborted" ELSE reason

\* Under engine_lock, if the turn had an engine id: the session it names is
\* closed, unless it is parked already.  The result of the turn is written.
LeaveEngine(t) ==
    LET x == leave[t].engine_req_id IN
    /\ leave[t].at = "asked"
    /\ \/ /\ x = NoId \/ x \notin DOMAIN sessions
          /\ x # NoId => ~EngineHeld
          /\ leave' = [leave EXCEPT ![t].at = "left"]
          /\ turn' = [turn EXCEPT ![t].finish_reason = OrAborted(@)]
          /\ UNCHANGED <<engineVars, sessions>>
       \/ /\ x \in DOMAIN sessions /\ ~EngineHeld
          /\ status[x] = "PARKED"
          /\ leave' = [leave EXCEPT ![t].at = "left", ![t].completed_race = TRUE]
          /\ turn' = [turn EXCEPT ![t].finish_reason = "done"]
          /\ sessions' = [sessions EXCEPT ![x].active = Nobody]
          /\ UNCHANGED engineVars
       \/ /\ x \in DOMAIN sessions /\ ~EngineHeld
          /\ status[x] # "PARKED"
          /\ leave' = [leave EXCEPT ![t].at = "left"]
          /\ turn' = [turn EXCEPT ![t].finish_reason = "aborted"]
          /\ status' = [status EXCEPT ![x] = IF Live(x) THEN "ABORTED" ELSE @]
          /\ waiting' = Without(waiting, {x})
          /\ known' = known \ {x}
          /\ sessions' = Restrict(sessions, DOMAIN sessions \ {x})
    /\ UNCHANGED <<queueVars, bookVars, active_turns, opened, worker, cv, client,
                   cancel, service, told>>

\* _finish_chat_turn_locked for the turns of T, where turns are tn.
FinishTurns(T, tn) ==
    /\ turn' = [t \in Turns |->
                  IF t \in T THEN [tn[t] EXCEPT !.state = "finished"] ELSE tn[t]]
    /\ active_turns' = Restrict(active_turns,
                               {s \in DOMAIN active_turns : active_turns[s] \notin T})

\* Under cv: a timeout that lost to the answer goes back to it.
LeaveDone(t) ==
    LET lost == turn[t].state = "finished" \/ leave[t].completed_race IN
    /\ CvFree
    /\ leave[t].at = "left"
    /\ FinishTurns({t}, turn)
    /\ leave' = [leave EXCEPT ![t].at = "idle", ![t].engine_req_id = NoId,
                              ![t].completed_race = FALSE]
    /\ client' = [client EXCEPT ![t] =
                     IF ~leave[t].timed_out THEN "done"
                     ELSE IF lost THEN "waiting" ELSE "leaving"]
    /\ UNCHANGED <<engineVars, queueVars, bookVars, sessVars, worker, cv, cancel,
                   service, told>>

-----------------------------------------------------------------------------
(***************************************************************************)
(* The worker: _run_engine_loop.                                           *)
(***************************************************************************)

\* Under both locks: the deadlines of D have passed, and the queues are taken.
\* An idle worker comes by every 250 ms.
Take(D) ==
    /\ worker.at = "take" /\ CvFree
    /\ ~service.closed
    /\ Expire(D, {})
    /\ LET left == Without(pending, Expiring(D)) IN
       worker' = [At("taken") EXCEPT !.requests = left, !.turns = pending_chat]
    /\ pending' = << >> /\ pending_chat' = << >>
    /\ UNCHANGED <<turnVars, sessVars, cv, client, cancel, leave, service, told>>

Stop ==
    /\ worker.at = "take" /\ CvFree
    /\ service.closed
    /\ worker' = At("stopped")
    /\ UNCHANGED <<engineVars, queueVars, bookVars, turnVars, sessVars, cv, client,
                   cancel, leave, service, told>>

RetiredOpen(X) == status    \* Mutant: forgotten, but not closed.

\* _retire_chat_session_locked, for sessions without a turn: a parked one is
\* closed, and all are forgotten.
Retired(X) == [o \in Objects |->
                 IF o \in X /\ status[o] = "PARKED" THEN "CLOSED" ELSE status[o]]

\* The worker takes engine_lock, and _evict_expired_chat_sessions_locked finds
\* the sessions of X too old.
EvictExpired(X) ==
    /\ worker.at = "taken"
    /\ X \subseteq Evictable
    /\ status' = Retired(X)
    /\ known' = known \ X
    /\ sessions' = Restrict(sessions, DOMAIN sessions \ X)
    /\ worker' = [worker EXCEPT !.at = "add"]
    /\ UNCHANGED <<waiting, queueVars, bookVars, turnVars, opened, cv, client,
                   cancel, leave, service, told>>

Adding == worker.at = "add" /\ worker.requests # << >>
Dealt  == [worker EXCEPT !.requests = Tail(@)]

NeverMarked(r) == FALSE     \* Mutant: the worker does not look.
IsMarked(r)    == IdOf[r] \in cancelled

\* Mutant: it is skipped, and stays as it was.
SkipCancelled ==
    /\ Adding
    /\ IsMarked(Head(worker.requests))
    /\ cancelled' = cancelled \ {IdOf[Head(worker.requests)]}
    /\ worker' = Dealt
    /\ UNCHANGED <<engineVars, queueVars, tracked, completed, deadlines,
                   turnVars, sessVars, cv, client, cancel, leave, service, told>>

\* The next request was cancelled while the worker had it in its hands.
AddCancelled ==
    /\ Adding
    /\ LET r == Head(worker.requests) IN
       /\ IsMarked(r)
       /\ cancelled' = cancelled \ {IdOf[r]}
       /\ status' = [status EXCEPT ![r] = "ABORTED"]
    /\ worker' = Dealt
    /\ UNCHANGED <<waiting, known, queueVars, tracked, completed, deadlines,
                   turnVars, sessVars, cv, client, cancel, leave, service, told>>

\* engine.add_request, which raises on an id that its scheduler knows.
IsKnownId(r) == \E q \in known \cap Requests : IdOf[q] = IdOf[r]

AddRequest ==
    /\ Adding
    /\ LET r == Head(worker.requests) IN
       /\ ~IsMarked(r)
       /\ \/ /\ ~IsKnownId(r)
             /\ waiting' = Append(waiting, r)
             /\ known' = known \cup {r}
             /\ worker' = Dealt
          \/ /\ IsKnownId(r)
             /\ worker' = At("failing")
             /\ UNCHANGED <<waiting, known>>
    /\ UNCHANGED <<status, queueVars, bookVars, turnVars, sessVars, cv, client,
                   cancel, leave, service, told>>

\* The check of the next turn, which reads what a client writes under cv.
PickTurn ==
    /\ worker.at = "add" /\ worker.requests = << >> /\ worker.turns # << >>
    /\ LET t == Head(worker.turns) IN
       worker' = IF turn[t].cancel_requested \/ turn[t].state = "finished"
                 THEN [worker EXCEPT !.turns = Tail(@)]
                 ELSE [worker EXCEPT !.at = "start"]
    /\ UNCHANGED <<engineVars, queueVars, bookVars, turnVars, sessVars, cv, client,
                   cancel, leave, service, told>>

-----------------------------------------------------------------------------
(***************************************************************************)
(* _start_chat_turn_locked for the turn the worker has picked.             *)
(***************************************************************************)

Started == [worker EXCEPT !.at = "add", !.turns = Tail(@)]

\* It returns False, and the worker will queue the turn again.
RetryTurn(t) ==
    /\ worker' = [Started EXCEPT !.retry = Append(@, t)]
    /\ UNCHANGED <<turn, opened>>

\* It raises: _fail_chat_turn_engine_locked.
FailTurn(t) ==
    /\ worker' = [Started EXCEPT !.settled = @ \cup {t}]
    /\ turn' = [turn EXCEPT ![t].finish_reason = "error"]
    /\ UNCHANGED <<engineVars, sessVars>>

RunTurn(t, x) ==
    /\ worker' = Started
    /\ turn' = [turn EXCEPT ![t].state = "running", ![t].engine_req_id = x]

\* _resume_chat_session_locked; continue_session_requests may refuse the
\* break mask or the tokens.
ResumeTurn(t, x) ==
    \/ /\ Cardinality(Running) >= MaxRunning
       /\ RetryTurn(t)
       /\ UNCHANGED <<engineVars, sessions>>
    \/ /\ Cardinality(Running) < MaxRunning
       /\ RunTurn(t, x)
       /\ status' = [status EXCEPT ![x] = "RUNNING"]
       /\ sessions' = [sessions EXCEPT ![x].active = t]
       /\ UNCHANGED <<waiting, known, opened>>
    \/ /\ Cardinality(Running) < MaxRunning
       /\ FailTurn(t)

\* How many sessions have to go for one more to fit, when those of old have.
ToMakeRoom(old) ==
    Max({0, Cardinality(DOMAIN sessions \ old) - MaxChatSessions + 1,
         Cardinality({o \in Holders : o \notin old}) - NumSlots + 1})

\* The session goes that was, old, and others to make room for a new one.
\* Which of them were used last is not modelled.
RestartTurn(t, old) ==
    LET can  == Evictable \ old
        need == ToMakeRoom(old)
        Forget(X) == /\ status' = Retired(X)
                     /\ known' = known \ X
                     /\ sessions' = Restrict(sessions, DOMAIN sessions \ X)
                     /\ UNCHANGED waiting
    IN  \/ /\ need > Cardinality(can)
           /\ Forget(old \cup can)
           /\ RetryTurn(t)
        \/ /\ need <= Cardinality(can)
           /\ opened < MaxEngineIds
           /\ opened' = opened + 1
           /\ \E V \in kSubset(need, can) :
                LET gone == old \cup V IN
                /\ status' = [Retired(gone) EXCEPT ![opened'] = "WAITING"]
                /\ waiting' = Append(waiting, opened')
                /\ known' = (known \ gone) \cup {opened'}
                /\ sessions' =
                     Assign(Restrict(sessions, DOMAIN sessions \ gone), opened',
                            [session |-> SessionOf[t], active |-> t,
                             kind |-> Kind(turn[t].mode)])
           /\ RunTurn(t, opened')

\* A delta continues a parked session.  A chat turn continues one whose
\* tokens or parent message it extends, and otherwise starts anew.
StartTurn ==
    /\ worker.at = "start"
    /\ LET t    == Head(worker.turns)
           open == OpenAs(SessionOf[t])
           mode == turn[t].mode
           busy == \E x \in open : sessions[x].active # Nobody
           ours == \A x \in open : sessions[x].kind = Kind(mode)
           rest == {x \in open : status[x] = "PARKED"}
       IN  \/ /\ ~ours
              /\ FailTurn(t)
           \/ /\ ours /\ busy
              /\ RetryTurn(t)
              /\ UNCHANGED <<engineVars, sessions>>
           \/ /\ ours /\ ~busy /\ mode = "delta" /\ rest = {}
              /\ FailTurn(t)
           \/ /\ ours /\ ~busy /\ mode = "prompt" /\ open # {}
              /\ FailTurn(t)
           \/ /\ ours /\ ~busy /\ mode # "prompt"
              /\ \E x \in rest : ResumeTurn(t, x)
           \/ /\ ours /\ ~busy
              /\ mode # "delta" /\ (mode = "prompt" => open = {})
              /\ RestartTurn(t, open)
    /\ UNCHANGED <<queueVars, bookVars, active_turns, cv, client, cancel, leave,
                   service, told>>

-----------------------------------------------------------------------------
(***************************************************************************)
(* engine.step(), and the end of the round.                                *)
(***************************************************************************)

Stepping == worker.at = "add" /\ worker.requests = << >> /\ worker.turns = << >>

\* The first k of the engine's queue are admitted; one is if nothing runs.
Admits(k) ==
    /\ k \in 0 .. Len(waiting)
    /\ k > 0 => /\ Cardinality(Holders) + k <= NumSlots
                /\ Cardinality(Running) + k <= MaxRunning
    /\ Running = {} /\ Cardinality(Holders) < NumSlots /\ waiting # << >> => k > 0
    /\ waiting' = SubSeq(waiting, k + 1, Len(waiting))

RunningAfter(k) == Running \cup ToSet(SubSeq(waiting, 1, k))

\* The requests of done end: plain ones are finished, sessions park and their
\* turns have their results (_completed_chat_turns_locked).  Token turns of bad
\* were to repeat given tokens and did not: their sessions are retired.
StepEnds(k, done) ==
    LET over == {x \in done \cap DOMAIN sessions : sessions[x].active # Nobody}
        T    == {sessions[x].active : x \in over}
    IN  /\ Stepping /\ HasUnfinished
        /\ Admits(k)
        /\ done \subseteq RunningAfter(k)
        /\ \E bad \in SUBSET {x \in over : sessions[x].kind = "token"} :
             /\ status' = [o \in Objects |->
                   IF o \in bad THEN "CLOSED"
                   ELSE IF o \in done \cap Requests THEN "FINISHED"
                   ELSE IF o \in done THEN "PARKED"
                   ELSE IF o \in RunningAfter(k) THEN "RUNNING" ELSE status[o]]
             /\ turn' = [t \in Turns |->
                   IF t \notin T THEN turn[t]
                   ELSE [turn[t] EXCEPT !.finish_reason =
                           IF turn[t].engine_req_id \in bad THEN "error" ELSE "done"]]
             /\ sessions' = [x \in DOMAIN sessions \ bad |->
                   IF x \in over THEN [sessions[x] EXCEPT !.active = Nobody]
                   ELSE sessions[x]]
             /\ known' = known \ bad
        /\ worker' = [worker EXCEPT !.at = "settle", !.settled = @ \cup T]
        /\ UNCHANGED <<queueVars, bookVars, active_turns, opened, cv, client,
                       cancel, leave, service, told>>

\* Nothing to step.
StepNone ==
    /\ Stepping /\ ~HasUnfinished
    /\ worker' = [worker EXCEPT !.at = "settle"]
    /\ UNCHANGED <<engineVars, queueVars, bookVars, turnVars, sessVars, cv, client,
                   cancel, leave, service, told>>

\* It raises: an Exception after the requests of bad have failed, or one that
\* ends the thread.
StepRaises(k, bad) ==
    /\ Stepping /\ HasUnfinished
    /\ Admits(k)
    /\ bad \subseteq RunningAfter(k)
    /\ status' = [o \in Objects |-> IF o \in bad THEN "ERROR"
                                   ELSE IF o \in RunningAfter(k) THEN "RUNNING"
                                   ELSE status[o]]
    /\ \/ "engine" \in Errors /\ worker' = At("failing")
       \/ "fatal" \in Errors /\ bad = {} /\ worker' = At("dying")
    /\ UNCHANGED <<known, queueVars, bookVars, turnVars, sessVars, cv, client,
                   cancel, leave, service, told>>

RequeuedNone == << >>       \* Mutant: a turn that has to wait is lost.

\* The turns that go back to the queue.
Requeued == Only(worker.retry, {t \in Turns : /\ ~turn[t].cancel_requested
                                              /\ turn[t].state # "finished"})

\* Under cv, and engine_lock for the deadlines.
Settle(D) ==
    /\ worker.at = "settle" /\ CvFree
    /\ FinishTurns(worker.settled, turn)
    /\ pending_chat' = pending_chat \o Requeued
    /\ Expire(D, ToSet(tracked))
    /\ pending' = Without(pending, Expiring(D))
    /\ worker' = At("take")
    /\ UNCHANGED <<sessVars, cv, client, cancel, leave, service, told>>

\* Mutant: only what clients know.
FailingTracked == ToSet(tracked)

\* What fails: requests in the engine, in a queue or in the worker's hands.
Failing == known \cup ToSet(tracked)

\* _fail_unfinished_locked
FailUnfinished ==
    LET T  == {active_turns[s] : s \in DOMAIN active_turns}
        st == [o \in Objects |->
                 IF o \in Failing /\ Live(o) THEN "ERROR"
                 ELSE status[o]]
    IN  /\ pending' = << >> /\ pending_chat' = << >>
        /\ status' = st
        /\ waiting' = Without(waiting, known)
        /\ known' = known \ DOMAIN sessions
        /\ sessions' = << >>
        /\ FinishTurns(T, [t \in Turns |-> IF t \in T
                             THEN [turn[t] EXCEPT !.finish_reason = "error"]
                             ELSE turn[t]])
        /\ RecordAndTrim(st, {}, ToSet(tracked), cancelled, {})
        /\ UNCHANGED opened

\* The round raised an Exception: everything fails, and the worker goes on.
FailRound ==
    /\ worker.at = "failing" /\ CvFree
    /\ FailUnfinished
    /\ worker' = At("take")
    /\ UNCHANGED <<cv, client, cancel, leave, service, told>>

\* _run_engine: the worker's thread ends.
Die ==
    /\ worker.at = "dying" /\ CvFree
    /\ FailUnfinished
    /\ service' = [service EXCEPT !.ready = FALSE]
    /\ worker' = At("dead")
    /\ UNCHANGED <<cv, client, cancel, leave, told>>

-----------------------------------------------------------------------------
(***************************************************************************)
(* close(), which may be called again if the worker did not stop in time.  *)
(***************************************************************************)

Close ==
    /\ "close" \in Errors
    /\ CvFree
    /\ service.close = "open"
    /\ service' = [closed |-> TRUE, ready |-> FALSE, close |-> "joining"]
    /\ UNCHANGED <<engineVars, queueVars, bookVars, turnVars, sessVars, worker, cv,
                   client, cancel, leave, told>>

CloseTimesOut ==
    /\ service.close = "joining" /\ WorkerAlive
    /\ service' = [service EXCEPT !.close = "open"]
    /\ UNCHANGED <<engineVars, queueVars, bookVars, turnVars, sessVars, worker, cv,
                   client, cancel, leave, told>>

CloseReturns ==
    /\ service.close = "joining" /\ ~WorkerAlive /\ CvFree
    /\ FailUnfinished
    /\ service' = [service EXCEPT !.close = "returned"]
    /\ UNCHANGED <<worker, cv, client, cancel, leave, told>>

-----------------------------------------------------------------------------

RequestThreads ==
    \/ \E r \in Requests :
        \/ \E waits, due \in BOOLEAN : ~(waits /\ due) /\ Enqueue(r, waits, due)
        \/ Answered(r)
        \/ GivesUp(r)
    \/ \E c \in Canceller, i \in Ids :
        \/ CancelUnknown(c, i)
        \/ CancelFinished(c, i)
        \/ CancelPending(c, i)
        \/ CancelMark(c, i)
    \/ \E c \in Canceller : CancelInEngine(c) \/ CancelRecord(c)

TurnThreads ==
    \E t \in Turns :
        \/ \E mode \in Modes : EnqueueChat(t, mode)
        \/ AcceptTurn(t)
        \/ TurnReturns(t)
        \/ \E timed_out \in BOOLEAN : LeaveTurn(t, timed_out)
        \/ LeaveEngine(t)
        \/ LeaveDone(t)

Round ==
    \/ \E D \in SUBSET deadlines : Take(D) \/ Settle(D)
    \/ Stop
    \/ \E X \in SUBSET Evictable : EvictExpired(X)
    \/ AddCancelled \/ AddRequest
    \/ PickTurn \/ StartTurn
    \/ \E k \in 0 .. Len(waiting) : \E done \in SUBSET RunningAfter(k) :
           StepEnds(k, done)
    \/ StepNone
    \/ FailRound \/ Die

StepFails ==
    \E k \in 0 .. Len(waiting) : \E bad \in SUBSET RunningAfter(k) :
        StepRaises(k, bad)

Closing == Close \/ CloseTimesOut \/ CloseReturns

Next == RequestThreads \/ TurnThreads \/ Round \/ StepFails \/ Closing

Spec == Init /\ [][Next]_vars

-----------------------------------------------------------------------------
(***************************************************************************)
(* Fairness.  The worker goes round; what runs ends (TurnsEnd and          *)
(* QueueMoves of Scheduler); a session that nobody uses is too old in the  *)
(* end; and threads that have begun something go on.  Of each kind it is   *)
(* enough that one of those that always could does: there are few things   *)
(* to end or to go on with, and so all of them do.  Nobody has to send a   *)
(* request, give up on one or call cancel() again, and nothing has to go   *)
(* wrong.                                                                  *)
(***************************************************************************)

StepEnding ==
    \E k \in 0 .. Len(waiting) : \E done \in SUBSET RunningAfter(k) :
        done # {} /\ StepEnds(k, done)

Evicting == \E X \in SUBSET Evictable : X # {} /\ EvictExpired(X)

GoingOn ==
    \/ \E c \in Canceller : CancelInEngine(c) \/ CancelRecord(c)
    \/ \E t \in Turns : \/ AcceptTurn(t) \/ TurnReturns(t)
                         \/ LeaveEngine(t) \/ LeaveDone(t)

FairSpec ==
    /\ Spec
    /\ WF_vars(Round)
    /\ SF_vars(StepEnding) /\ SF_vars(Evicting) /\ SF_vars(GoingOn)

-----------------------------------------------------------------------------
(***************************************************************************)
(* Properties.                                                             *)
(***************************************************************************)

Session == [session : Sessions, active : Turns \cup {Nobody},
            kind : {"chat", "token"}]

TypeOK ==
    /\ status \in [Objects -> {"NEW"} \cup LiveStatus \cup Finished]
    /\ waiting \in Seq(Objects) /\ known \subseteq Objects
    /\ pending \in Seq(Requests) /\ pending_chat \in Seq(Turns)
    /\ tracked \in Seq(Requests) /\ completed \in Seq(Requests)
    /\ cancelled \subseteq Ids /\ deadlines \subseteq Ids
    /\ \A t \in Turns :
         /\ turn[t].state \in {"new", "pending", "running", "finished"}
         /\ turn[t].engine_req_id \in EngineIds \cup {NoId}
         /\ turn[t].state = "finished" => turn[t].finish_reason # "none"
    /\ DOMAIN active_turns \subseteq Sessions
    /\ \A s \in DOMAIN active_turns : SessionOf[active_turns[s]] = s
    /\ DOMAIN sessions \subseteq EngineIds
    /\ \A x \in DOMAIN sessions : sessions[x] \in Session
    /\ opened \in 0 .. MaxEngineIds
    /\ worker.settled \subseteq Turns
    /\ cv \in Turns \cup {Nobody}
    /\ told \subseteq Requests

\* A caller that is told its request is cancelled is told the truth: it never
\* completes afterwards, wherever it was when the caller looked.  An id that
\* was forgotten and is used again is another matter: the last section of a
\* _cancel_request removes the mark of whoever has the id by then.
CancelHonoured ==
    \A r \in told :
        (\A q \in Requests : IdOf[q] = IdOf[r] /\ status[q] # "NEW" => q = r)
            => status[r] # "FINISHED"

\* A mark for the worker belongs to an unfinished request or to a call that
\* will remove it, so that it never hits a later request with the same id
\* (tests/test_gemma_server.py:845 and 863 call it a tombstone).
MarksAreCurrent ==
    \A i \in cancelled : \E r \in TrackedAs(i) :
        ~IsFinished(r) \/ \E c \in Canceller : cancel[c].request = r

\* An id is tracked once, a deadline belongs to a tracked request, so the
\* worker's _expire_deadlines_locked does not raise KeyError and end the
\* thread, and what is remembered as completed is tracked and finished.
BooksAgree ==
    /\ \A r, q \in ToSet(tracked) : IdOf[r] = IdOf[q] => r = q
    /\ IsInjective(tracked) /\ IsInjective(completed)
    /\ deadlines \subseteq {IdOf[r] : r \in ToSet(tracked)}
    /\ \A r \in ToSet(completed) : r \in ToSet(tracked) /\ IsFinished(r)
    /\ Len(completed) <= MaxCompleted

\* Engine state is never orphaned: a session request that is queued, runs or
\* keeps its slot is the request of exactly one open session, where eviction
\* can find it; and a session without a turn is parked.
SessionsOwnState ==
    /\ \A x \in EngineIds : Live(x) => x \in DOMAIN sessions /\ x \in known
    /\ \A x \in DOMAIN sessions :
         /\ OpenAs(sessions[x].session) = {x}
         /\ sessions[x].active = Nobody => status[x] = "PARKED"

\* No client thread is left behind by close(): once it returned, whatever was
\* accepted has a result, and the engine holds nothing.
ClosedLeavesNobody ==
    service.close = "returned" =>
        /\ \A r \in ToSet(tracked) : IsFinished(r)
        /\ \A t \in Turns : client[t] = "waiting" => turn[t].state = "finished"
        /\ Holders = {}

\* Every request that was accepted is finished in the end, whatever cancels,
\* deadlines, failed rounds and parked sessions come in between.
RequestsEnd ==
    \A r \in Requests : r \in ToSet(tracked) ~> IsFinished(r)

\* The thread of another turn, which is about to leave the engine, acts on an
\* engine id that has become this one's: its session was resumed meanwhile.
Overtaken(t) ==
    \E u \in Turns \ {t} :
        LET x == leave[u].engine_req_id IN
        /\ leave[u].at = "asked"
        /\ x \in DOMAIN sessions /\ sessions[x].active = t

\* A turn that waits for its session, for the room of another session or for
\* a place in the batch gets it, and its client an answer, whether it is the
\* first of its session or continues one that is parked.  Only the turn that
\* a late thread of the turn before it may abort is left out: what becomes of
\* it is what ActiveTurnIsActive is about.
TurnsFinish ==
    \A t \in Turns :
        []~Overtaken(t) => (client[t] = "waiting" ~> client[t] # "waiting")

\* gemma_server.py:1060, "session ... already has an active turn": the turn
\* that a session is refused for is one that something is still going to end.
ActiveTurnIsActive ==
    \A s \in DOMAIN active_turns :
        LET t == active_turns[s] IN
        \/ t \in ToSet(pending_chat) \/ t \in ToSet(worker.turns)
        \/ t \in ToSet(worker.retry) \/ t \in worker.settled
        \/ \E x \in DOMAIN sessions : sessions[x].active = t
        \/ leave[t].at # "idle"
        \/ worker.at \in {"failing", "dying"}

\* scheduler.py:68 refuses an id it knows: the service, which tells clients
\* that their id is taken (gemma_server.py:1606), never sends it one.
AcceptedIdsAreNew ==
    Adding /\ ~IsMarked(Head(worker.requests)) =>
        ~IsKnownId(Head(worker.requests))

=============================================================================
