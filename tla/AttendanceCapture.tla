------------------------- MODULE AttendanceCapture -------------------------
(***************************************************************************)
(* Punches from the employee app to the attendance log: submit and          *)
(* syncPending of the app with its persistent queue, clock of the API, and  *)
(* the network between them (apps/mobile/lib/data/clients/                  *)
(* attendance_client.dart, core/database/app_database.dart,                 *)
(* apps/api/src/attendance/attendance.service.ts, geofence.ts).             *)
(*                                                                         *)
(* A punch is named by its idempotency key.  A job is a coroutine of the    *)
(* app; a call is a request the API handles.  A call goes on when the app   *)
(* has given up waiting for it, so the answer to a punch may be lost after  *)
(* the punch was recorded.  A call that dies with the API before its insert *)
(* is a request that was lost on the way; one that dies after it, an answer *)
(* that was lost.                                                           *)
(***************************************************************************)
EXTENDS Naturals, Sequences, SequencesExt

CONSTANTS
    Punches,    \* idempotency keys the app draws (Uuid().v4())
    Readings,   \* what a position reading can be
    Jobs,       \* submit and syncPending coroutines the app may run at once
    Calls,      \* requests the API may handle at once
    NULL,
    MaxKills    \* bound: times the operating system ends the app

Decisions == {"ACCEPTED", "REJECTED", "REVIEW"}

\* far: outside the radius of the worksite; vague: less accurate than it allows.
Reading == [far : BOOLEAN, vague : BOOLEAN]

\* A 4xx of clock, a 5xx, and no answer: each is a DioException for the app.
Errors == {"REFUSED", "FAILED", "LOST"}

ASSUME CaptureAssumption ==
    /\ Readings \subseteq Reading
    /\ NULL \notin Punches /\ NULL \notin Jobs /\ NULL \notin Reading
    /\ NULL \notin Decisions \cup Errors \cup {"QUEUED"}
    /\ MaxKills \in Nat

VARIABLES
    reading,   \* the position in the payload of each captured punch
    queue,     \* PendingAttendanceEvents, oldest first
    job,       \* coroutines of the app
    told,      \* what the clock page said of each punch
    events,    \* AttendanceEvent rows of each punch, by their decision
    call,      \* requests in the API
    eligible,  \* employee active, device registered, worksite assigned
    kills

vars == <<reading, queue, job, told, events, call, eligible, kills>>

\* submitting: the new punch of a submit; result: the answer it got;
\* todo: what is left of the rows syncPending has read, the first being sent.
Job == [pc         : {"idle", "sending", "waiting", "answered", "pending",
                      "returning"},
        submitting : Punches \cup {NULL},
        result     : Decisions \cup {NULL},
        todo       : Seq(Punches),
        answer     : Decisions \cup Errors \cup {NULL}]

Idle == [pc |-> "idle", submitting |-> NULL, result |-> NULL, todo |-> <<>>,
         answer |-> NULL]

Call == [pc     : {"idle", "find", "check", "create"},
         punch  : Punches \cup {NULL},
         client : Jobs \cup {NULL}]

NoCall == [pc |-> "idle", punch |-> NULL, client |-> NULL]

TypeOK ==
    /\ reading \in [Punches -> Reading \cup {NULL}]
    /\ queue \in Seq(Punches)
    /\ job \in [Jobs -> Job]
    /\ told \in [Punches -> Decisions \cup {"QUEUED", NULL}]
    /\ events \in [Punches -> Seq(Decisions)]
    /\ call \in [Calls -> Call]
    /\ eligible \in BOOLEAN
    /\ kills \in 0..MaxKills

Init ==
    /\ reading = [p \in Punches |-> NULL]
    /\ queue = <<>>
    /\ job = [j \in Jobs |-> Idle]
    /\ told = [p \in Punches |-> NULL]
    /\ events = [p \in Punches |-> <<>>]
    /\ call = [c \in Calls |-> NoCall]
    /\ eligible = TRUE
    /\ kills = 0

Queued(p) == \E k \in DOMAIN queue : queue[k] = p
Recorded(p) == events[p] # <<>>

app == <<reading, queue, told, kills>>
server == <<events, eligible>>

---------------------------------------------------------------------------
(* The app *)

\* The punch a job is about: a queued one in syncPending, else the new one.
Subject(o) == IF o.todo = <<>> THEN o.submitting ELSE Head(o.todo)
Current(j) == Subject(job[j])

Become(j, o) == job' = [job EXCEPT ![j] = o]

\* submit up to its try: a registered employee with location permission
\* takes a reading and draws a key.
Submit(j, p, r) ==
    /\ job[j].pc = "idle"
    /\ reading[p] = NULL
    /\ reading' = [reading EXCEPT ![p] = r]
    /\ Become(j, [Idle EXCEPT !.pc = "sending", !.submitting = p])
    /\ UNCHANGED <<queue, told, call, server, kills>>

\* onConnectivityChanged.
SyncStart(j) ==
    /\ job[j].pc = "idle"
    /\ Become(j, [Idle EXCEPT !.pc = "pending"])
    /\ UNCHANGED <<app, call, server>>

\* syncPending reads the queue once.
SyncRead(j) ==
    /\ job[j].pc = "pending"
    /\ Become(j, [job[j] EXCEPT
                    !.pc   = IF queue = <<>> THEN "returning" ELSE "sending",
                    !.todo = queue])
    /\ UNCHANGED <<app, call, server>>

\* The request reaches the API.
Deliver(j, c) ==
    /\ job[j].pc = "sending"
    /\ call[c].pc = "idle"
    /\ Become(j, [job[j] EXCEPT !.pc = "waiting"])
    /\ call' = [call EXCEPT ![c] = [pc     |-> "find",
                                    punch  |-> Current(j),
                                    client |-> j]]
    /\ UNCHANGED <<app, server>>

\* The request or its answer is lost, or a timeout of Dio has run out.
GiveUp(j) ==
    /\ job[j].pc \in {"sending", "waiting"}
    /\ Become(j, [job[j] EXCEPT !.pc = "answered", !.answer = "LOST"])
    /\ call' = [c \in Calls |-> IF call[c].client = j
                                THEN [call[c] EXCEPT !.client = NULL]
                                ELSE call[c]]
    /\ UNCHANGED <<app, server>>

\* submit goes on to syncPending, and returns the result only after it.
SubmitAnswered(j) ==
    /\ job[j].pc = "answered"
    /\ job[j].todo = <<>>
    /\ job[j].answer \in Decisions
    /\ Become(j, [job[j] EXCEPT !.pc     = "pending",
                                !.result = job[j].answer,
                                !.answer = NULL])
    /\ UNCHANGED <<app, call, server>>

\* The clock page shows what submit returned, if it is still mounted.
Tell(p, answer) ==
    \/ told' = [told EXCEPT ![p] = answer]
    \/ UNCHANGED told

\* on DioException: every error, a refusal by the API among them.
Enqueue(j) ==
    /\ job[j].pc = "answered"
    /\ job[j].todo = <<>>
    /\ job[j].answer \in Errors
    /\ queue' = IF Queued(job[j].submitting) THEN queue
                ELSE Append(queue, job[j].submitting)
    /\ Tell(job[j].submitting, "QUEUED")
    /\ Become(j, Idle)
    /\ UNCHANGED <<reading, call, server, kills>>

\* The loop of syncPending goes to its next row.
Advance(j) ==
    LET rest == Tail(job[j].todo)
    IN  Become(j, [job[j] EXCEPT
                     !.pc     = IF rest = <<>> THEN "returning" ELSE "sending",
                     !.todo   = rest,
                     !.answer = NULL])

\* The rows without that of p: the key is the primary key of the table.
Without(p) ==
    IF Queued(p) THEN RemoveAt(queue, CHOOSE k \in DOMAIN queue : queue[k] = p)
    ELSE queue

RemovePending(j) ==
    /\ job[j].pc = "answered"
    /\ job[j].todo # <<>>
    /\ job[j].answer \in Decisions
    /\ queue' = Without(Current(j))
    /\ Advance(j)
    /\ UNCHANGED <<reading, told, call, server, kills>>

\* Mutant: a row is dropped once it was tried.
MarkAttemptDropping(j) ==
    /\ job[j].pc = "answered"
    /\ job[j].todo # <<>>
    /\ job[j].answer \in Errors
    /\ queue' = Without(Current(j))
    /\ Advance(j)
    /\ UNCHANGED <<reading, told, call, server, kills>>

\* The row stays, with the error; nothing reads the error, and the attempts are
\* not counted.
MarkAttempt(j) ==
    /\ job[j].pc = "answered"
    /\ job[j].todo # <<>>
    /\ job[j].answer \in Errors
    /\ Advance(j)
    /\ UNCHANGED <<app, call, server>>

\* Mutant: whatever is no error is shown as accepted.
ReturnAccepted(j) ==
    /\ job[j].pc = "returning"
    /\ IF job[j].result = NULL THEN UNCHANGED told
       ELSE Tell(job[j].submitting, "ACCEPTED")
    /\ Become(j, Idle)
    /\ UNCHANGED <<reading, queue, call, server, kills>>

Return(j) ==
    /\ job[j].pc = "returning"
    /\ IF job[j].result = NULL THEN UNCHANGED told
       ELSE Tell(job[j].submitting, job[j].result)
    /\ Become(j, Idle)
    /\ UNCHANGED <<reading, queue, call, server, kills>>

\* The app is ended; what is left of it is the queue on disk.
Kill ==
    /\ kills < MaxKills
    /\ kills' = kills + 1
    /\ job' = [j \in Jobs |-> Idle]
    /\ call' = [c \in Calls |-> [call[c] EXCEPT !.client = NULL]]
    /\ UNCHANGED <<reading, queue, told, server>>

---------------------------------------------------------------------------
(* The API *)

decideAttendance(r) ==
    CASE r.vague -> "REVIEW"
      [] r.far /\ ~r.vague -> "REJECTED"
      [] OTHER -> "ACCEPTED"

\* The call ends; its client, if it still waits, has the answer.
Reply(c, answer) ==
    /\ job' = [j \in Jobs |-> IF j = call[c].client
                              THEN [job[j] EXCEPT !.pc = "answered",
                                                  !.answer = answer]
                              ELSE job[j]]
    /\ call' = [call EXCEPT ![c] = NoCall]

\* Mutant: no look-up by key.
FindNothing(c) ==
    /\ call[c].pc = "find"
    /\ call' = [call EXCEPT ![c].pc = "check"]
    /\ UNCHANGED <<job, app, server>>

Find(c) ==
    /\ call[c].pc = "find"
    /\ IF Recorded(call[c].punch) THEN Reply(c, Head(events[call[c].punch]))
       ELSE call' = [call EXCEPT ![c].pc = "check"] /\ UNCHANGED job
    /\ UNCHANGED <<app, server>>

\* employee, worksite and device.
Check(c) ==
    /\ call[c].pc = "check"
    /\ IF eligible THEN call' = [call EXCEPT ![c].pc = "create"] /\ UNCHANGED job
       ELSE Reply(c, "REFUSED")
    /\ UNCHANGED <<app, server>>

\* Mutant: the key is not unique.
CreateAgain(c) ==
    /\ call[c].pc = "create"
    /\ LET p == call[c].punch
           decision == decideAttendance(reading[p])
       IN  /\ events' = [events EXCEPT ![p] = Append(@, decision)]
           /\ Reply(c, decision)
    /\ UNCHANGED <<app, eligible>>

\* idempotencyKey is unique: the second of two inserts fails.
Create(c) ==
    /\ call[c].pc = "create"
    /\ LET p == call[c].punch
           decision == decideAttendance(reading[p])
       IN  IF Recorded(p) THEN UNCHANGED events /\ Reply(c, "FAILED")
           ELSE /\ events' = [events EXCEPT ![p] = <<decision>>]
                /\ Reply(c, decision)
    /\ UNCHANGED <<app, eligible>>

\* Others change the employee, the device or the assignment.
ChangeEligibility ==
    /\ eligible' = ~eligible
    /\ UNCHANGED <<app, job, call, events>>

---------------------------------------------------------------------------
App(j) ==
    \/ SyncRead(j)
    \/ SubmitAnswered(j)
    \/ Enqueue(j)
    \/ RemovePending(j)
    \/ MarkAttempt(j)
    \/ Return(j)

Serve(c) == Find(c) \/ Check(c) \/ Create(c)

Next ==
    \/ \E j \in Jobs : \/ \E p \in Punches, r \in Readings : Submit(j, p, r)
                       \/ SyncStart(j)
                       \/ App(j)
                       \/ \E c \in Calls : Deliver(j, c)
                       \/ GiveUp(j)
    \/ \E c \in Calls : Serve(c)
    \/ ChangeEligibility
    \/ Kill

Spec == Init /\ [][Next]_vars

\* The app and the API go on with what they have begun; while a punch is queued
\* the connectivity changes again and again, and the network does not fail every
\* time before a request arrives or before its answer does.
Fairness ==
    /\ \A j \in Jobs : WF_vars(App(j))
    /\ \A c \in Calls : WF_vars(Serve(c))
    /\ SF_vars(\E j \in Jobs : queue # <<>> /\ SyncStart(j))
    /\ \A p \in Punches :
          SF_vars(\E j \in Jobs, c \in Calls : Current(j) = p /\ Deliver(j, c))
    /\ \A p \in Punches :
          SF_vars(\E c \in Calls : /\ call[c].punch = p
                                   /\ call[c].client # NULL
                                   /\ Find(c) \/ Create(c))

FairSpec == Spec /\ Fairness

---------------------------------------------------------------------------
\* Retries, syncs that overlap, lost answers and restarts record a punch at most
\* once (clock, "idempotencyKey"; IMPLEMENTATION_PLAN.md:194, "without duplicate
\* records after retries").
RecordedOnce == \A p \in Punches : Len(events[p]) <= 1

\* A punch of which the employee was told that it waits in the queue is in the
\* queue until it is recorded, over restarts of the app (submit's enqueue,
\* syncPending's removePending; README.md:34, "a persistent offline retry queue").
QueuedIsKept ==
    \A p \in Punches : told[p] = "QUEUED" => Queued(p) \/ Recorded(p)

\* A queued punch leaves the queue recorded, if the employee can punch from some
\* time on (syncPending).
QueuedIsRecorded ==
    <>[]eligible =>
        \A p \in Punches : Queued(p) ~> Recorded(p) /\ ~Queued(p)

---------------------------------------------------------------------------
(* What the repository says and the code does not do. *)

\* "Saved offline and waiting to synchronize." (attendance_home.dart:87): a punch
\* that goes into the queue and is reported so got no answer; the API did not
\* refuse it (on DioException in submit).
SavedWasOffline ==
    [][\A p \in Punches, j \in Jobs :
          /\ told[p] # "QUEUED" /\ told'[p] = "QUEUED" /\ Queued(p)'
          /\ job[j].submitting = p
          => job[j].answer # "REFUSED"
      ]_vars
=============================================================================
