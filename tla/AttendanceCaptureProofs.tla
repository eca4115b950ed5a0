---------------------- MODULE AttendanceCaptureProofs ----------------------
(***************************************************************************)
(* Proofs about AttendanceCapture, for any number of punches, coroutines of *)
(* the app and requests in the API, and however often answers are lost and  *)
(* the app is ended.                                                        *)
(*                                                                         *)
(* QueuedIsKept is not inductive: that a row may be removed on a good answer *)
(* rests on the answer being about that row (CallsServe) and about a punch  *)
(* that is recorded (AnswersRecorded).                                      *)
(*                                                                         *)
(* The last part shows that the whole implements PunchLog.                  *)
(***************************************************************************)
EXTENDS CaptureRefinement, SequenceTheorems, TLAPS

Busy(j) == job[j].pc \in {"sending", "waiting", "answered"}

\* A coroutine that sends or waits has a punch to send.
BusyOnPunch == \A j \in Jobs : Busy(j) => Current(j) \in Punches

\* A request in the API has a punch, the one its client waits for; a coroutine
\* waits for one request.
CallsServe ==
    \A c \in Calls :
        /\ call[c].pc # "idle" => call[c].punch \in Punches
        /\ call[c].client # NULL =>
             /\ call[c].pc # "idle"
             /\ job[call[c].client].pc = "waiting"
             /\ Current(call[c].client) = call[c].punch
             /\ \A d \in Calls \ {c} : call[d].client # call[c].client

\* A decision came from the row of the punch the coroutine is about.
AnswersRecorded ==
    \A j \in Jobs :
        job[j].answer \in Decisions =>
            job[j].pc = "answered" /\ Recorded(Current(j))

CaptureInv ==
    /\ TypeOK
    /\ BusyOnPunch
    /\ CallsServe
    /\ AnswersRecorded
    /\ RecordedOnce
    /\ QueuedIsKept

---------------------------------------------------------------------------
USE DEF Decisions, Errors

\* What is in the first or the second sequence is in their concatenation.
LEMMA ConcatKeepsLeft ==
    ASSUME NEW S, NEW left \in Seq(S), NEW right \in Seq(S),
           NEW k \in 1..Len(left)
    PROVE  \E l \in DOMAIN (left \o right) : (left \o right)[l] = left[k]
<1>1. k \in 1..Len(left \o right) /\ (left \o right)[k] = left[k]
  BY ConcatProperties
<1> QED
  BY <1>1, ConcatProperties

LEMMA ConcatKeepsRight ==
    ASSUME NEW S, NEW left \in Seq(S), NEW right \in Seq(S),
           NEW k \in 1..Len(right)
    PROVE  \E l \in DOMAIN (left \o right) : (left \o right)[l] = right[k]
<1>1. /\ Len(left) + k \in 1..Len(left \o right)
      /\ (left \o right)[Len(left) + k] = right[k]
  BY ConcatProperties
<1> QED
  BY <1>1, ConcatProperties

\* Removing the row of a punch leaves the others in the queue (removePending).
LEMMA WithoutKeeps ==
    ASSUME queue \in Seq(Punches), NEW p \in Punches
    PROVE  /\ Without(p) \in Seq(Punches)
           /\ \A q \in Punches : q # p /\ Queued(q) =>
                 \E k \in DOMAIN Without(p) : Without(p)[k] = q
<1>1. CASE ~Queued(p)
  BY <1>1 DEF Without, Queued
<1>2. CASE Queued(p)
  <2> DEFINE i == CHOOSE k \in DOMAIN queue : queue[k] = p
             n == Len(queue)
             left == SubSeq(queue, 1, i - 1)
             right == SubSeq(queue, i + 1, n)
  <2>1. i \in 1..n /\ queue[i] = p /\ n \in Nat
    BY <1>2 DEF Queued
  <2>2. /\ left \in Seq(Punches) /\ Len(left) = i - 1
        /\ \A k \in 1..i - 1 : left[k] = queue[k]
    BY <2>1
  <2>3. /\ right \in Seq(Punches) /\ Len(right) = n - i
        /\ \A k \in 1..n - i : right[k] = queue[i + k]
    BY <2>1
  <2>4. Without(p) = left \o right
    BY <1>2 DEF Without, RemoveAt
  <2> HIDE DEF i, n, left, right
  <2>5. left \o right \in Seq(Punches)
    BY <2>2, <2>3, ConcatProperties
  <2>6. ASSUME NEW q \in Punches, q # p, Queued(q)
        PROVE  \E k \in DOMAIN (left \o right) : (left \o right)[k] = q
    <3>1. PICK m \in 1..n : queue[m] = q
      BY <2>6 DEF Queued, n
    <3>2. CASE m < i
      <4>1. m \in 1..Len(left) /\ left[m] = q
        BY <3>1, <3>2, <2>1, <2>2
      <4>2. left \in Seq(Punches) /\ right \in Seq(Punches)
        BY <2>2, <2>3
      <4>3. PICK k \in 1..Len(left) : left[k] = q
        BY <4>1
      <4>4. \E l \in DOMAIN (left \o right) : (left \o right)[l] = left[k]
        BY <4>2, ConcatKeepsLeft
      <4> QED
        BY <4>3, <4>4
    <3>3. CASE m > i
      <4>1. m - i \in 1..Len(right) /\ right[m - i] = q
        BY <3>1, <3>3, <2>1, <2>3
      <4>2. left \in Seq(Punches) /\ right \in Seq(Punches)
        BY <2>2, <2>3
      <4>3. PICK k \in 1..Len(right) : right[k] = q
        BY <4>1
      <4>4. \E l \in DOMAIN (left \o right) : (left \o right)[l] = right[k]
        BY <4>2, ConcatKeepsRight
      <4> QED
        BY <4>3, <4>4
    <3> QED
      BY <3>1, <3>2, <3>3, <2>1, <2>6
  <2> QED
    BY <2>4, <2>5, <2>6
<1> QED
  BY <1>1, <1>2

\* Every reading gives a decision.
LEMMA DecisionType == \A r : decideAttendance(r) \in Decisions
BY DEF decideAttendance

\* A coroutine that is not running.
LEMMA IdleType == Idle \in Job
BY DEF Idle, Job

\* The invariant holds before anything is captured.
LEMMA CaptureInit == Init => CaptureInv
BY CaptureAssumption
   DEF Init, CaptureInv, TypeOK, Job, Idle, Call, NoCall, Busy, BusyOnPunch,
       CallsServe, AnswersRecorded, RecordedOnce, QueuedIsKept, Recorded

---------------------------------------------------------------------------
(* The app's actions *)

\* A coroutine that moves on keeps what is known of coroutines, if it has a
\* punch to send when it sends, and no answer but one about a recorded punch.
LEMMA BecomeKeeps ==
    ASSUME TypeOK, BusyOnPunch, AnswersRecorded, NEW j \in Jobs, NEW o \in Job,
           Become(j, o), events' = events,
           o.pc \in {"sending", "waiting", "answered"} => Subject(o) \in Punches,
           o.answer \in Decisions => o.pc = "answered" /\ Recorded(Subject(o))
    PROVE  job' \in [Jobs -> Job] /\ BusyOnPunch' /\ AnswersRecorded'
<1>1. \A i \in Jobs : job'[i] = IF i = j THEN o ELSE job[i]
  BY DEF TypeOK, Become
<1>2. job' \in [Jobs -> Job]
  BY DEF TypeOK, Become
<1>3. BusyOnPunch'
  BY <1>1 DEF BusyOnPunch, Busy, Current
<1>4. AnswersRecorded'
  BY <1>1 DEF AnswersRecorded, Current, Recorded
<1> QED
  BY <1>2, <1>3, <1>4

\* No request of the API is served for a coroutine that does not wait.
LEMMA BecomeServes ==
    ASSUME TypeOK, CallsServe, NEW j \in Jobs, NEW o,
           Become(j, o), job[j].pc # "waiting", call' = call
    PROVE  CallsServe'
<1>1. \A i \in Jobs \ {j} : job'[i] = job[i]
  BY DEF TypeOK, Become
<1>2. \A c \in Calls : call[c].client # NULL =>
         call[c].client \in Jobs \ {j}
  BY DEF TypeOK, Call, CallsServe
<1> QED
  BY <1>1, <1>2 DEF CallsServe, Current

LEMMA SubmitInv ==
    ASSUME CaptureInv, NEW j \in Jobs, NEW p \in Punches, NEW r \in Readings,
           Submit(j, p, r)
    PROVE  CaptureInv'
<1> DEFINE o == [Idle EXCEPT !.pc = "sending", !.submitting = p]
<1>1. /\ TypeOK /\ BusyOnPunch /\ CallsServe /\ AnswersRecorded
      /\ Become(j, o) /\ job[j].pc = "idle"
      /\ reading' = [reading EXCEPT ![p] = r]
      /\ UNCHANGED <<queue, told, call, events, eligible, kills>>
  BY DEF CaptureInv, Submit, server
<1>2. o \in Job
  BY IdleType DEF Job
<1>3. Subject(o) = p /\ o.answer = NULL
  BY DEF Subject, Idle
<1>4. job' \in [Jobs -> Job] /\ BusyOnPunch' /\ AnswersRecorded'
  BY <1>1, <1>2, <1>3, BecomeKeeps, CaptureAssumption
<1>5. CallsServe'
  BY <1>1, BecomeServes
<1>6. TypeOK'
  BY <1>1, <1>4, CaptureAssumption DEF TypeOK
<1>7. RecordedOnce' /\ QueuedIsKept'
  BY <1>1 DEF CaptureInv, RecordedOnce, QueuedIsKept, Queued, Recorded
<1> QED
  BY <1>4, <1>5, <1>6, <1>7 DEF CaptureInv

\* A coroutine moves on and nothing else changes.
LEMMA BecomeInv ==
    ASSUME CaptureInv, NEW j \in Jobs, NEW o \in Job,
           Become(j, o), job[j].pc # "waiting", UNCHANGED <<app, call, server>>,
           o.pc \in {"sending", "waiting", "answered"} => Subject(o) \in Punches,
           o.answer \in Decisions => o.pc = "answered" /\ Recorded(Subject(o))
    PROVE  CaptureInv'
<1>1. /\ TypeOK /\ BusyOnPunch /\ CallsServe /\ AnswersRecorded
      /\ UNCHANGED <<reading, queue, told, kills, call, events, eligible>>
  BY DEF CaptureInv, app, server
<1>2. job' \in [Jobs -> Job] /\ BusyOnPunch' /\ AnswersRecorded'
  BY <1>1, BecomeKeeps
<1>3. CallsServe'
  BY <1>1, BecomeServes
<1>4. TypeOK'
  BY <1>1, <1>2 DEF TypeOK
<1>5. RecordedOnce' /\ QueuedIsKept'
  BY <1>1 DEF CaptureInv, RecordedOnce, QueuedIsKept, Queued, Recorded
<1> QED
  BY <1>2, <1>3, <1>4, <1>5 DEF CaptureInv

LEMMA SyncStartInv ==
    ASSUME CaptureInv, NEW j \in Jobs, SyncStart(j)
    PROVE  CaptureInv'
<1> DEFINE o == [Idle EXCEPT !.pc = "pending"]
<1>1. o \in Job /\ o.pc = "pending" /\ o.answer = NULL
  BY IdleType DEF Job, Idle
<1>2. /\ Become(j, o) /\ job[j].pc = "idle"
      /\ UNCHANGED <<app, call, server>>
  BY DEF SyncStart
<1> QED
  BY <1>1, <1>2, BecomeInv, CaptureAssumption

LEMMA SyncReadInv ==
    ASSUME CaptureInv, NEW j \in Jobs, SyncRead(j)
    PROVE  CaptureInv'
<1> DEFINE o == [job[j] EXCEPT
                   !.pc   = IF queue = <<>> THEN "returning" ELSE "sending",
                   !.todo = queue]
<1>1. job[j] \in Job /\ queue \in Seq(Punches) /\ AnswersRecorded
  BY DEF CaptureInv, TypeOK
<1>2. o \in Job /\ o.answer = job[j].answer /\ o.todo = queue
      /\ o.pc = IF queue = <<>> THEN "returning" ELSE "sending"
  BY <1>1 DEF Job
<1>3. /\ Become(j, o) /\ job[j].pc = "pending"
      /\ UNCHANGED <<app, call, server>>
  BY DEF SyncRead
<1> HIDE DEF o
<1>4. o.answer \notin Decisions
  BY <1>1, <1>2, <1>3 DEF AnswersRecorded
<1>5. o.pc = "sending" => Subject(o) \in Punches
  BY <1>1, <1>2 DEF Subject
<1> QED
  BY <1>2, <1>3, <1>4, <1>5, BecomeInv

LEMMA SubmitAnsweredInv ==
    ASSUME CaptureInv, NEW j \in Jobs, SubmitAnswered(j)
    PROVE  CaptureInv'
<1> DEFINE o == [job[j] EXCEPT !.pc = "pending", !.result = job[j].answer,
                               !.answer = NULL]
<1>1. /\ Become(j, o) /\ job[j].pc = "answered"
      /\ job[j].answer \in Decisions
      /\ UNCHANGED <<app, call, server>>
  BY DEF SubmitAnswered
<1>2. job[j] \in Job
  BY DEF CaptureInv, TypeOK
<1>3. o \in Job /\ o.pc = "pending" /\ o.answer = NULL
  BY <1>1, <1>2 DEF Job
<1> QED
  BY <1>1, <1>3, BecomeInv, CaptureAssumption

LEMMA MarkAttemptInv ==
    ASSUME CaptureInv, NEW j \in Jobs, MarkAttempt(j)
    PROVE  CaptureInv'
<1> DEFINE rest == Tail(job[j].todo)
           o == [job[j] EXCEPT
                   !.pc     = IF rest = <<>> THEN "returning" ELSE "sending",
                   !.todo   = rest,
                   !.answer = NULL]
<1>1. /\ Become(j, o) /\ job[j].pc = "answered" /\ job[j].todo # <<>>
      /\ UNCHANGED <<app, call, server>>
  BY DEF MarkAttempt, Advance
<1>2. job[j] \in Job
  BY DEF CaptureInv, TypeOK
<1>3. rest \in Seq(Punches)
  BY <1>1, <1>2 DEF Job
<1> HIDE DEF rest
<1>4. o \in Job /\ o.answer = NULL /\ o.todo = rest
      /\ o.pc = IF rest = <<>> THEN "returning" ELSE "sending"
  BY <1>2, <1>3 DEF Job
<1> HIDE DEF o
<1>5. o.pc = "sending" => Subject(o) \in Punches
  BY <1>3, <1>4 DEF Subject
<1> QED
  BY <1>1, <1>4, <1>5, BecomeInv, CaptureAssumption

LEMMA DeliverInv ==
    ASSUME CaptureInv, NEW j \in Jobs, NEW c \in Calls, Deliver(j, c)
    PROVE  CaptureInv'
<1> DEFINE o == [job[j] EXCEPT !.pc = "waiting"]
           request == [pc |-> "find", punch |-> Current(j), client |-> j]
<1>1. /\ TypeOK /\ BusyOnPunch /\ CallsServe /\ AnswersRecorded
      /\ Become(j, o) /\ job[j].pc = "sending" /\ job[j] \in Job
      /\ call' = [call EXCEPT ![c] = request]
      /\ UNCHANGED <<reading, queue, told, kills, events, eligible>>
  BY DEF CaptureInv, TypeOK, Deliver, app, server
<1>2. Current(j) \in Punches /\ job[j].answer \notin Decisions
  BY <1>1 DEF BusyOnPunch, Busy, AnswersRecorded
<1>3. /\ o \in Job /\ o.pc = "waiting" /\ o.answer = job[j].answer
      /\ Subject(o) = Current(j)
  BY <1>1 DEF Job, Subject, Current
<1>4. request \in Call
  BY <1>2 DEF Call
<1> HIDE DEF o
<1>5. job' \in [Jobs -> Job] /\ BusyOnPunch' /\ AnswersRecorded'
  BY <1>1, <1>2, <1>3, BecomeKeeps
<1>6. TypeOK'
  BY <1>1, <1>4, <1>5 DEF TypeOK
<1>7. CallsServe'
  <2>1. \A i \in Jobs : job'[i] = IF i = j THEN o ELSE job[i]
    BY <1>1 DEF TypeOK, Become
  <2>2. \A d \in Calls : call'[d] = IF d = c THEN request ELSE call[d]
    BY <1>1 DEF TypeOK
  <2>3. \A d \in Calls : call[d].client # NULL => call[d].client \in Jobs \ {j}
    BY <1>1 DEF TypeOK, Call, CallsServe
  <2> QED
    BY <1>1, <1>2, <1>3, <2>1, <2>2, <2>3 DEF CallsServe, Current
<1>8. RecordedOnce' /\ QueuedIsKept'
  BY <1>1 DEF CaptureInv, RecordedOnce, QueuedIsKept, Queued, Recorded
<1> QED
  BY <1>5, <1>6, <1>7, <1>8 DEF CaptureInv

LEMMA GiveUpInv ==
    ASSUME CaptureInv, NEW j \in Jobs, GiveUp(j)
    PROVE  CaptureInv'
<1> DEFINE o == [job[j] EXCEPT !.pc = "answered", !.answer = "LOST"]
<1>1. /\ TypeOK /\ BusyOnPunch /\ CallsServe /\ AnswersRecorded
      /\ Become(j, o) /\ job[j].pc \in {"sending", "waiting"}
      /\ job[j] \in Job
      /\ call' = [c \in Calls |-> IF call[c].client = j
                                  THEN [call[c] EXCEPT !.client = NULL]
                                  ELSE call[c]]
      /\ UNCHANGED <<reading, queue, told, kills, events, eligible>>
  BY DEF CaptureInv, TypeOK, GiveUp, app, server
<1>2. Current(j) \in Punches
  BY <1>1 DEF BusyOnPunch, Busy
<1>3. /\ o \in Job /\ o.pc = "answered" /\ o.answer = "LOST"
      /\ Subject(o) = Current(j)
  BY <1>1 DEF Job, Subject, Current
<1> HIDE DEF o
<1>4. job' \in [Jobs -> Job] /\ BusyOnPunch' /\ AnswersRecorded'
  BY <1>1, <1>2, <1>3, BecomeKeeps
<1>5. ASSUME NEW c \in Calls
      PROVE  /\ call'[c] \in Call
             /\ call'[c].pc = call[c].pc /\ call'[c].punch = call[c].punch
             /\ call'[c].client = IF call[c].client = j THEN NULL
                                  ELSE call[c].client
  BY <1>1 DEF TypeOK, Call
<1>6. TypeOK'
  BY <1>1, <1>4, <1>5 DEF TypeOK
<1>7. CallsServe'
  <2>1. \A i \in Jobs \ {j} : job'[i] = job[i]
    BY <1>1 DEF TypeOK, Become
  <2>2. \A c \in Calls : call[c].client \in Jobs \cup {NULL}
    BY <1>1 DEF TypeOK, Call
  <2> QED
    BY <1>1, <1>5, <2>1, <2>2 DEF CallsServe, Current
<1>8. RecordedOnce' /\ QueuedIsKept'
  BY <1>1 DEF CaptureInv, RecordedOnce, QueuedIsKept, Queued, Recorded
<1> QED
  BY <1>4, <1>6, <1>7, <1>8 DEF CaptureInv

LEMMA EnqueueInv ==
    ASSUME CaptureInv, NEW j \in Jobs, Enqueue(j)
    PROVE  CaptureInv'
<1> DEFINE p == job[j].submitting
<1>1. /\ TypeOK /\ BusyOnPunch /\ CallsServe /\ AnswersRecorded
      /\ Become(j, Idle) /\ job[j].pc = "answered" /\ job[j].todo = <<>>
      /\ queue' = IF Queued(p) THEN queue ELSE Append(queue, p)
      /\ told' = [told EXCEPT ![p] = "QUEUED"] \/ told' = told
      /\ UNCHANGED <<reading, kills, call, events, eligible>>
  BY DEF CaptureInv, Enqueue, Tell, server
<1>2. p \in Punches
  BY <1>1 DEF BusyOnPunch, Busy, Current, Subject
<1>3. Idle \in Job /\ Idle.pc = "idle" /\ Idle.answer = NULL
  BY IdleType DEF Idle
<1>4. job' \in [Jobs -> Job] /\ BusyOnPunch' /\ AnswersRecorded'
  BY <1>1, <1>3, BecomeKeeps, CaptureAssumption
<1>5. CallsServe'
  BY <1>1, BecomeServes
<1> HIDE DEF p
<1>6. queue \in Seq(Punches) /\ queue' \in Seq(Punches)
  BY <1>1, <1>2 DEF TypeOK
<1>7. TypeOK'
  BY <1>1, <1>4, <1>6 DEF TypeOK
<1>8. \A q \in Punches : Queued(q) \/ q = p => Queued(q)'
  <2>1. CASE Queued(p)
    BY <1>1, <2>1 DEF Queued
  <2>2. CASE ~Queued(p)
    BY <1>1, <1>2, <1>6, <2>2, AppendProperties DEF Queued
  <2> QED
    BY <2>1, <2>2
<1>9. RecordedOnce' /\ QueuedIsKept'
  BY <1>1, <1>8 DEF CaptureInv, TypeOK, RecordedOnce, QueuedIsKept, Recorded
<1> QED
  BY <1>4, <1>5, <1>7, <1>9 DEF CaptureInv

LEMMA RemovePendingInv ==
    ASSUME CaptureInv, NEW j \in Jobs, RemovePending(j)
    PROVE  CaptureInv'
<1> DEFINE rest == Tail(job[j].todo)
           o == [job[j] EXCEPT
                   !.pc     = IF rest = <<>> THEN "returning" ELSE "sending",
                   !.todo   = rest,
                   !.answer = NULL]
           p == Current(j)
<1>1. /\ TypeOK /\ BusyOnPunch /\ CallsServe /\ AnswersRecorded
      /\ Become(j, o) /\ job[j].pc = "answered" /\ job[j].todo # <<>>
      /\ job[j].answer \in Decisions /\ job[j] \in Job
      /\ queue' = Without(p)
      /\ UNCHANGED <<reading, told, kills, call, events, eligible>>
  BY DEF CaptureInv, TypeOK, RemovePending, Advance, server
<1>2. p \in Punches /\ Recorded(p)
  BY <1>1 DEF BusyOnPunch, Busy, AnswersRecorded
<1> HIDE DEF p
<1>3. rest \in Seq(Punches)
  BY <1>1 DEF Job
<1> HIDE DEF rest
<1>4. o \in Job /\ o.answer = NULL /\ o.todo = rest
      /\ o.pc = IF rest = <<>> THEN "returning" ELSE "sending"
  BY <1>1, <1>3 DEF Job
<1> HIDE DEF o
<1>5. o.pc = "sending" => Subject(o) \in Punches
  BY <1>3, <1>4 DEF Subject
<1>6. job' \in [Jobs -> Job] /\ BusyOnPunch' /\ AnswersRecorded'
  BY <1>1, <1>4, <1>5, BecomeKeeps, CaptureAssumption
<1>7. CallsServe'
  BY <1>1, BecomeServes
<1>8. queue \in Seq(Punches)
  BY <1>1 DEF TypeOK
<1>9. queue' \in Seq(Punches)
  BY <1>1, <1>2, <1>8, WithoutKeeps
<1>10. TypeOK'
  BY <1>1, <1>6, <1>9 DEF TypeOK
<1>11. \A q \in Punches : q # p /\ Queued(q) => Queued(q)'
  <2>1. \A q \in Punches : q # p /\ Queued(q) =>
           \E k \in DOMAIN Without(p) : Without(p)[k] = q
    BY <1>2, <1>8, WithoutKeeps
  <2> QED
    BY <1>1, <2>1 DEF Queued
<1>12. RecordedOnce' /\ QueuedIsKept'
  BY <1>1, <1>2, <1>11 DEF CaptureInv, RecordedOnce, QueuedIsKept, Recorded
<1> QED
  BY <1>6, <1>7, <1>10, <1>12 DEF CaptureInv

LEMMA ReturnInv ==
    ASSUME CaptureInv, NEW j \in Jobs, Return(j)
    PROVE  CaptureInv'
<1> DEFINE p == job[j].submitting
           d == job[j].result
<1>1. /\ TypeOK /\ BusyOnPunch /\ CallsServe /\ AnswersRecorded
      /\ Become(j, Idle) /\ job[j].pc = "returning"
      /\ \/ d # NULL /\ told' = [told EXCEPT ![p] = d]
         \/ told' = told
      /\ UNCHANGED <<reading, queue, kills, call, events, eligible>>
  BY DEF CaptureInv, Return, Tell, server
<1>2. d \in Decisions \cup {NULL}
  BY <1>1 DEF TypeOK, Job
<1> HIDE DEF p, d
<1>3. Idle \in Job /\ Idle.pc = "idle" /\ Idle.answer = NULL
  BY IdleType DEF Idle
<1>4. job' \in [Jobs -> Job] /\ BusyOnPunch' /\ AnswersRecorded'
  BY <1>1, <1>3, BecomeKeeps, CaptureAssumption
<1>5. CallsServe'
  BY <1>1, BecomeServes
<1>6. TypeOK'
  BY <1>1, <1>2, <1>4 DEF TypeOK
<1>7. \A q \in Punches : told'[q] = "QUEUED" => told[q] = "QUEUED"
  BY <1>1, <1>2 DEF TypeOK
<1>8. RecordedOnce' /\ QueuedIsKept'
  BY <1>1, <1>7 DEF CaptureInv, RecordedOnce, QueuedIsKept, Queued, Recorded
<1> QED
  BY <1>4, <1>5, <1>6, <1>8 DEF CaptureInv

LEMMA KillInv ==
    ASSUME CaptureInv, Kill
    PROVE  CaptureInv'
<1>1. /\ TypeOK /\ CallsServe /\ kills < MaxKills /\ kills' = kills + 1
      /\ job' = [j \in Jobs |-> Idle]
      /\ call' = [c \in Calls |-> [call[c] EXCEPT !.client = NULL]]
      /\ UNCHANGED <<reading, queue, told, events, eligible>>
  BY DEF CaptureInv, Kill, server
<1>2. \A j \in Jobs : job'[j].pc = "idle" /\ job'[j].answer = NULL
  BY <1>1 DEF Idle
<1>3. ASSUME NEW c \in Calls
      PROVE  /\ call'[c] \in Call /\ call'[c].client = NULL
             /\ call'[c].pc = call[c].pc /\ call'[c].punch = call[c].punch
  BY <1>1 DEF TypeOK, Call
<1>4. job' \in [Jobs -> Job] /\ call' \in [Calls -> Call]
  BY <1>1, <1>3, IdleType
<1>5. kills' \in 0..MaxKills
  BY <1>1, CaptureAssumption DEF TypeOK
<1>6. TypeOK'
  BY <1>1, <1>4, <1>5 DEF TypeOK
<1>7. BusyOnPunch' /\ AnswersRecorded'
  BY <1>2, CaptureAssumption DEF BusyOnPunch, AnswersRecorded, Busy
<1>8. CallsServe'
  BY <1>1, <1>3 DEF CallsServe
<1>9. RecordedOnce' /\ QueuedIsKept'
  BY <1>1 DEF CaptureInv, RecordedOnce, QueuedIsKept, Queued, Recorded
<1> QED
  BY <1>6, <1>7, <1>8, <1>9 DEF CaptureInv

---------------------------------------------------------------------------
(* The API's actions *)

\* An answer keeps what is known of coroutines and requests, if it is an error
\* or the punch of the request is recorded.
LEMMA ReplyKeeps ==
    ASSUME TypeOK, BusyOnPunch, CallsServe, AnswersRecorded,
           NEW c \in Calls, NEW p \in Punches, call[c].punch = p,
           NEW answer \in Decisions \cup Errors, Reply(c, answer),
           \A q \in Punches : Recorded(q) => Recorded(q)',
           answer \in Decisions => Recorded(p)'
    PROVE  /\ job' \in [Jobs -> Job] /\ call' \in [Calls -> Call]
           /\ BusyOnPunch' /\ CallsServe' /\ AnswersRecorded'
<1> DEFINE i == call[c].client
           o == [job[i] EXCEPT !.pc = "answered", !.answer = answer]
<1>1. /\ job' = [j \in Jobs |-> IF j = i THEN o ELSE job[j]]
      /\ call' = [call EXCEPT ![c] = NoCall]
      /\ i \in Jobs \cup {NULL}
  BY DEF TypeOK, Call, Reply
<1>2. i \in Jobs => /\ job[i] \in Job /\ job[i].pc = "waiting"
                    /\ Current(i) = p
  BY CaptureAssumption DEF TypeOK, CallsServe, BusyOnPunch, Busy
<1>3. i \in Jobs => /\ o \in Job /\ o.pc = "answered" /\ o.answer = answer
                    /\ Subject(o) = Current(i)
  BY <1>2 DEF Job, Subject, Current
<1> HIDE DEF o, i
<1>4. job' \in [Jobs -> Job]
  BY <1>1, <1>3 DEF TypeOK
<1>5. \A d \in Calls : call'[d] = IF d = c THEN NoCall ELSE call[d]
  BY <1>1 DEF TypeOK
<1>6. NoCall \in Call /\ NoCall.pc = "idle" /\ NoCall.client = NULL
  BY DEF NoCall, Call
<1>7. call' \in [Calls -> Call]
  BY <1>1, <1>6 DEF TypeOK
<1>8. \A j \in Jobs : Current(j)' = Current(j)
  BY <1>1, <1>3 DEF Current
<1>9. BusyOnPunch'
  BY <1>1, <1>2, <1>8 DEF BusyOnPunch, Busy
<1>10. CallsServe'
  <2>1. ASSUME NEW d \in Calls, d # c, NEW k, k = call[d].client, k # NULL
        PROVE  /\ call[d].pc # "idle" /\ job'[k].pc = "waiting"
               /\ Current(k)' = call[d].punch
               /\ \A e \in Calls \ {d} : call'[e].client # k
    <3>1. k \in Jobs /\ k # i
      BY <2>1 DEF TypeOK, Call, CallsServe, i
    <3>2. job'[k] = job[k] /\ Current(k)' = Current(k)
      BY <1>1, <1>8, <3>1
    <3>3. \A e \in Calls \ {d} : call'[e].client # k
      BY <1>5, <1>6, <2>1 DEF CallsServe
    <3> QED
      BY <2>1, <3>2, <3>3 DEF CallsServe
  <2>2. \A d \in Calls : call'[d].pc # "idle" => call'[d].punch \in Punches
    BY <1>5, <1>6 DEF CallsServe
  <2>3. \A d \in Calls : call'[d].client # NULL => d # c /\ call'[d] = call[d]
    BY <1>5, <1>6
  <2> QED
    BY <2>1, <2>2, <2>3 DEF CallsServe
<1>11. AnswersRecorded'
  <2>1. ASSUME NEW j \in Jobs, job'[j].answer \in Decisions
        PROVE  job'[j].pc = "answered" /\ Recorded(Current(j))'
    <3>1. CASE j = i
      BY <1>1, <1>2, <1>3, <1>8, <2>1, <3>1 DEF Recorded
    <3>2. CASE j # i
      <4>1. job[j].pc = "answered" /\ Recorded(Current(j)) /\ job'[j] = job[j]
        BY <1>1, <2>1, <3>2 DEF AnswersRecorded
      <4>2. Current(j) \in Punches
        BY <4>1 DEF BusyOnPunch, Busy
      <4> QED
        BY <1>8, <4>1, <4>2 DEF Recorded
    <3> QED
      BY <3>1, <3>2
  <2> QED
    BY <2>1 DEF AnswersRecorded
<1> QED
  BY <1>4, <1>7, <1>9, <1>10, <1>11

\* A request goes on to its next step.
LEMMA CallAdvances ==
    ASSUME CaptureInv, NEW c \in Calls, call[c].pc # "idle",
           NEW step \in {"check", "create"},
           call' = [call EXCEPT ![c].pc = step], job' = job,
           UNCHANGED <<app, server>>
    PROVE  CaptureInv'
<1>1. /\ TypeOK /\ BusyOnPunch /\ CallsServe /\ AnswersRecorded
      /\ UNCHANGED <<reading, queue, told, kills, events, eligible>>
  BY DEF CaptureInv, app, server
<1>2. ASSUME NEW d \in Calls
      PROVE  /\ call'[d] \in Call
             /\ call'[d].punch = call[d].punch /\ call'[d].client = call[d].client
             /\ call'[d].pc = IF d = c THEN step ELSE call[d].pc
  BY <1>1 DEF TypeOK, Call
<1>3. TypeOK'
  BY <1>1, <1>2 DEF TypeOK, Call
<1>4. CallsServe'
  BY <1>1, <1>2 DEF CallsServe, Current
<1>5. BusyOnPunch' /\ AnswersRecorded'
  BY <1>1 DEF BusyOnPunch, Busy, AnswersRecorded, Current, Recorded
<1>6. RecordedOnce' /\ QueuedIsKept'
  BY <1>1 DEF CaptureInv, RecordedOnce, QueuedIsKept, Queued, Recorded
<1> QED
  BY <1>3, <1>4, <1>5, <1>6 DEF CaptureInv

\* A request ends with an answer and the log stays as it is.
LEMMA ReplyInv ==
    ASSUME CaptureInv, NEW c \in Calls, call[c].pc # "idle",
           NEW answer \in Decisions \cup Errors, Reply(c, answer),
           answer \in Decisions => Recorded(call[c].punch),
           UNCHANGED <<app, server>>
    PROVE  CaptureInv'
<1>1. /\ TypeOK /\ BusyOnPunch /\ CallsServe /\ AnswersRecorded
      /\ UNCHANGED <<reading, queue, told, kills, events, eligible>>
  BY DEF CaptureInv, app, server
<1>2. PICK p \in Punches : call[c].punch = p
  BY <1>1 DEF CallsServe
<1>3. answer \in Decisions => events[p] # <<>>
  BY <1>2 DEF Recorded
<1>4. \A q \in Punches : Recorded(q) => Recorded(q)'
  BY <1>1 DEF Recorded
<1>5. answer \in Decisions => Recorded(p)'
  BY <1>1, <1>3 DEF Recorded
<1>6. /\ job' \in [Jobs -> Job] /\ call' \in [Calls -> Call]
      /\ BusyOnPunch' /\ CallsServe' /\ AnswersRecorded'
  BY <1>1, <1>2, <1>4, <1>5, ReplyKeeps
<1>7. TypeOK'
  BY <1>1, <1>6 DEF TypeOK
<1>8. RecordedOnce' /\ QueuedIsKept'
  BY <1>1 DEF CaptureInv, RecordedOnce, QueuedIsKept, Queued, Recorded
<1> QED
  BY <1>6, <1>7, <1>8 DEF CaptureInv

LEMMA FindInv ==
    ASSUME CaptureInv, NEW c \in Calls, Find(c)
    PROVE  CaptureInv'
<1>1. call[c].pc = "find" /\ UNCHANGED <<app, server>>
  BY DEF Find
<1>2. CASE Recorded(call[c].punch)
  <2>1. call[c].punch \in Punches /\ events \in [Punches -> Seq(Decisions)]
    BY <1>1 DEF CaptureInv, TypeOK, CallsServe
  <2>2. Head(events[call[c].punch]) \in Decisions
    BY <1>2, <2>1 DEF Recorded
  <2>3. Reply(c, Head(events[call[c].punch]))
    BY <1>2 DEF Find
  <2> QED
    BY <1>1, <1>2, <2>2, <2>3, ReplyInv
<1>3. CASE ~Recorded(call[c].punch)
  <2>1. call' = [call EXCEPT ![c].pc = "check"] /\ job' = job
    BY <1>3 DEF Find
  <2> QED
    BY <1>1, <2>1, CallAdvances
<1> QED
  BY <1>2, <1>3

LEMMA CheckInv ==
    ASSUME CaptureInv, NEW c \in Calls, Check(c)
    PROVE  CaptureInv'
<1>1. call[c].pc = "check" /\ UNCHANGED <<app, server>>
  BY DEF Check
<1>2. CASE eligible
  <2>1. call' = [call EXCEPT ![c].pc = "create"] /\ job' = job
    BY <1>2 DEF Check
  <2> QED
    BY <1>1, <2>1, CallAdvances
<1>3. CASE ~eligible
  <2>1. Reply(c, "REFUSED")
    BY <1>3 DEF Check
  <2> QED
    BY <1>1, <2>1, ReplyInv
<1> QED
  BY <1>2, <1>3

LEMMA CreateInv ==
    ASSUME CaptureInv, NEW c \in Calls, Create(c)
    PROVE  CaptureInv'
<1>1. call[c].pc = "create" /\ UNCHANGED <<app, eligible>>
  BY DEF Create
<1>2. CASE Recorded(call[c].punch)
  <2>1. Reply(c, "FAILED") /\ UNCHANGED <<app, server>>
    BY <1>1, <1>2 DEF Create, server
  <2> QED
    BY <1>1, <2>1, ReplyInv
<1>3. CASE ~Recorded(call[c].punch)
  <2>1. /\ TypeOK /\ BusyOnPunch /\ CallsServe /\ AnswersRecorded
        /\ UNCHANGED <<reading, queue, told, kills, eligible>>
    BY <1>1 DEF CaptureInv, app
  <2>2. PICK p \in Punches : call[c].punch = p
    BY <1>1, <2>1 DEF CallsServe
  <2>3. PICK d \in Decisions : d = decideAttendance(reading[p])
    BY DecisionType
  <2>4. events' = [events EXCEPT ![p] = <<d>>] /\ Reply(c, d)
    BY <1>3, <2>2, <2>3 DEF Create
  <2>5. PICK rows \in Seq(Decisions) :
           rows = <<d>> /\ rows # <<>> /\ Len(rows) = 1
    <3>1. <<d>> \in Seq(Decisions) /\ <<d>> # <<>> /\ Len(<<d>>) = 1
      BY <2>3
    <3> QED
      BY <3>1, Zenon
  <2>6. \A q \in Punches : events'[q] = IF q = p THEN rows ELSE events[q]
    BY <2>1, <2>4, <2>5 DEF TypeOK
  <2>7. (\A q \in Punches : Recorded(q) => Recorded(q)') /\ Recorded(p)'
    BY <2>2, <2>5, <2>6 DEF Recorded
  <2>8. /\ job' \in [Jobs -> Job] /\ call' \in [Calls -> Call]
        /\ BusyOnPunch' /\ CallsServe' /\ AnswersRecorded'
    BY <2>1, <2>2, <2>3, <2>4, <2>7, ReplyKeeps
  <2>9. TypeOK'
    BY <2>1, <2>4, <2>5, <2>8 DEF TypeOK
  <2>10. RecordedOnce'
    <3>1. ASSUME NEW q \in Punches PROVE Len(events'[q]) <= 1
      <4>1. CASE q = p
        <5>1. events'[q] = rows
          BY <2>6, <4>1
        <5>2. Len(rows) = 1
          BY <2>5, Zenon
        <5> QED
          BY <5>1, <5>2
      <4>2. CASE q # p
        BY <2>6, <4>2 DEF CaptureInv, RecordedOnce
      <4> QED
        BY <4>1, <4>2
    <3> QED
      BY <3>1 DEF RecordedOnce
  <2>11. QueuedIsKept'
    BY <2>1, <2>7 DEF CaptureInv, QueuedIsKept, Queued
  <2> QED
    BY <2>8, <2>9, <2>10, <2>11 DEF CaptureInv
<1> QED
  BY <1>2, <1>3

LEMMA ChangeEligibilityInv ==
    ASSUME CaptureInv, ChangeEligibility
    PROVE  CaptureInv'
<1>1. UNCHANGED <<reading, queue, job, told, events, call, kills>>
      /\ eligible' = ~eligible
  BY DEF ChangeEligibility, app
<1>2. TypeOK'
  BY <1>1 DEF CaptureInv, TypeOK
<1>3. BusyOnPunch' /\ CallsServe' /\ AnswersRecorded'
  BY <1>1 DEF CaptureInv, BusyOnPunch, Busy, CallsServe, AnswersRecorded,
              Current, Recorded
<1>4. RecordedOnce' /\ QueuedIsKept'
  BY <1>1 DEF CaptureInv, RecordedOnce, QueuedIsKept, Queued, Recorded
<1> QED
  BY <1>2, <1>3, <1>4 DEF CaptureInv

---------------------------------------------------------------------------
(* The theorems *)

\* Every step of the app, the API and the network keeps the invariant.
LEMMA CaptureStep == CaptureInv /\ [Next]_vars => CaptureInv'
<1> SUFFICES ASSUME CaptureInv, [Next]_vars PROVE CaptureInv'
  OBVIOUS
<1>1. ASSUME NEW j \in Jobs, NEW p \in Punches, NEW r \in Readings,
             Submit(j, p, r)
      PROVE  CaptureInv'
  BY <1>1, SubmitInv
<1>2. ASSUME NEW j \in Jobs, SyncStart(j) PROVE CaptureInv'
  BY <1>2, SyncStartInv
<1>3. ASSUME NEW j \in Jobs, App(j) PROVE CaptureInv'
  BY <1>3, SyncReadInv, SubmitAnsweredInv, EnqueueInv, RemovePendingInv,
     MarkAttemptInv, ReturnInv DEF App
<1>4. ASSUME NEW j \in Jobs, NEW c \in Calls, Deliver(j, c) PROVE CaptureInv'
  BY <1>4, DeliverInv
<1>5. ASSUME NEW j \in Jobs, GiveUp(j) PROVE CaptureInv'
  BY <1>5, GiveUpInv
<1>6. ASSUME NEW c \in Calls, Serve(c) PROVE CaptureInv'
  BY <1>6, FindInv, CheckInv, CreateInv DEF Serve
<1>7. CASE ChangeEligibility
  BY <1>7, ChangeEligibilityInv
<1>8. CASE Kill
  BY <1>8, KillInv
<1>9. CASE UNCHANGED vars
  BY <1>9 DEF vars, CaptureInv, TypeOK, BusyOnPunch, Busy, CallsServe,
              AnswersRecorded, Current, Recorded, RecordedOnce, QueuedIsKept,
              Queued
<1> QED
  BY <1>1, <1>2, <1>3, <1>4, <1>5, <1>6, <1>7, <1>8, <1>9 DEF Next

\* The inductive invariant holds in every behaviour of app, network and API.
THEOREM CaptureSafety == Spec => []CaptureInv
<1>1. Init => CaptureInv
  BY CaptureInit
<1>2. CaptureInv /\ [Next]_vars => CaptureInv'
  BY CaptureStep
<1> QED
  BY <1>1, <1>2, PTL DEF Spec

\* Retries, overlapping syncs, lost answers and restarts record a punch at most
\* once, for any number of punches, coroutines and requests.
THEOREM PunchesRecordedOnce == Spec => []RecordedOnce
<1>1. CaptureInv => RecordedOnce
  BY DEF CaptureInv
<1> QED
  BY <1>1, CaptureSafety, PTL

\* A punch of which the employee was told that it waits is in the queue until it
\* is recorded, however often the app is ended.
THEOREM QueuedPunchesKept == Spec => []QueuedIsKept
<1>1. CaptureInv => QueuedIsKept
  BY DEF CaptureInv
<1> QED
  BY <1>1, CaptureSafety, PTL

\* Every variable keeps its type.
THEOREM CaptureTypes == Spec => []TypeOK
<1>1. CaptureInv => TypeOK
  BY DEF CaptureInv
<1> QED
  BY <1>1, CaptureSafety, PTL

---------------------------------------------------------------------------
(* The refinement of PunchLog.  That what the page shows of a punch is the    *)
(* decision on record, and is shown once, rests on each punch being submitted *)
(* by one coroutine, and on answers and results being those of the log.       *)

ToldWasRead == \A p \in Punches : told[p] # NULL => reading[p] # NULL

\* The new punch of a submit is that of no other, and nothing was yet said of it.
OneSubmitter ==
    \A j \in Jobs : job[j].submitting # NULL =>
        /\ reading[job[j].submitting] # NULL
        /\ told[job[j].submitting] = NULL
        /\ \A i \in Jobs \ {j} : job[i].submitting # job[j].submitting

\* What a coroutine knows is in the log.
AnswerOnRecord(o) == o.answer \in Decisions => o.answer = Head(events[Subject(o)])
ResultOnRecord(o) ==
    o.result # NULL => /\ o.submitting \in Punches /\ Recorded(o.submitting)
                       /\ o.result = Head(events[o.submitting])

HeardInv ==
    /\ ToldWasRead
    /\ OneSubmitter
    /\ \A j \in Jobs : AnswerOnRecord(job[j]) /\ ResultOnRecord(job[j])

LogStays == \A p \in Punches : Recorded(p) => events'[p] = events[p]

\* A coroutine that does nothing.
LEMMA StillOnRecord ==
    ASSUME CaptureInv, HeardInv, LogStays, NEW j \in Jobs
    PROVE  job'[j] = job[j] => AnswerOnRecord(job[j])' /\ ResultOnRecord(job[j])'
<1> SUFFICES ASSUME job'[j] = job[j]
             PROVE  AnswerOnRecord(job[j])' /\ ResultOnRecord(job[j])'
  OBVIOUS
<1>1. PICK o : o = job[j] /\ o = job'[j] OBVIOUS
<1>2. AnswerOnRecord(o) /\ ResultOnRecord(o) BY <1>1 DEF HeardInv
<1>3. o.answer \in Decisions => Subject(o) \in Punches /\ Recorded(Subject(o))
  BY <1>1 DEF CaptureInv, AnswersRecorded, BusyOnPunch, Busy, Current
<1>4. AnswerOnRecord(o)'
  BY <1>2, <1>3 DEF AnswerOnRecord, LogStays
<1>5. ResultOnRecord(o)'
  BY <1>2 DEF ResultOnRecord, LogStays, Recorded
<1> QED
  BY <1>1, <1>4, <1>5 DEF AnswerOnRecord, ResultOnRecord

\* Nothing is captured and nothing said.
LEMMA HeardKeeps ==
    ASSUME HeardInv, UNCHANGED <<reading, told>>,
           \A j \in Jobs : /\ job'[j].submitting \in {job[j].submitting, NULL}
                           /\ AnswerOnRecord(job[j])' /\ ResultOnRecord(job[j])'
    PROVE  HeardInv'
<1>1. ToldWasRead' BY DEF HeardInv, ToldWasRead
<1>2. OneSubmitter' BY DEF HeardInv, OneSubmitter
<1> QED BY <1>1, <1>2 DEF HeardInv

\* One coroutine moves on.
LEMMA HeardBecomes ==
    ASSUME CaptureInv, HeardInv, NEW j \in Jobs, NEW o, Become(j, o),
           UNCHANGED <<reading, told, events>>,
           o.submitting \in {job[j].submitting, NULL},
           AnswerOnRecord(o), ResultOnRecord(o)
    PROVE  HeardInv'
<1>1. \A i \in Jobs : job'[i] = IF i = j THEN o ELSE job[i]
  BY DEF CaptureInv, TypeOK, Become
<1>2. LogStays BY DEF LogStays
<1>3. ASSUME NEW i \in Jobs
      PROVE  /\ job'[i].submitting \in {job[i].submitting, NULL}
             /\ AnswerOnRecord(job[i])' /\ ResultOnRecord(job[i])'
  <2>1. CASE i = j
    <3>1. job'[i] = o BY <1>1, <2>1
    <3>2. AnswerOnRecord(job[i])' /\ ResultOnRecord(job[i])'
      BY <3>1 DEF AnswerOnRecord, ResultOnRecord, Recorded
    <3> QED BY <2>1, <3>1, <3>2
  <2>2. CASE i # j
    <3>1. job'[i] = job[i] BY <1>1, <2>2
    <3> QED BY <1>2, <3>1, StillOnRecord
  <2> QED BY <2>1, <2>2
<1> QED BY <1>3, HeardKeeps

\* An answer of the log reaches the coroutine that waits for it.
LEMMA HeardReplies ==
    ASSUME CaptureInv, HeardInv, LogStays, NEW c \in Calls, NEW p \in Punches,
           call[c].punch = p, NEW answer, Reply(c, answer),
           UNCHANGED <<reading, told>>,
           answer \in Decisions => answer = Head(events'[p])
    PROVE  HeardInv'
<1>1. PICK i : i = call[c].client OBVIOUS
<1>2. \A j \in Jobs : job'[j] = IF j = i
                                THEN [job[j] EXCEPT !.pc = "answered", !.answer = answer]
                                ELSE job[j]
  BY <1>1 DEF Reply
<1>3. ASSUME NEW j \in Jobs
      PROVE  /\ job'[j].submitting \in {job[j].submitting, NULL}
             /\ AnswerOnRecord(job[j])' /\ ResultOnRecord(job[j])'
  <2>1. CASE j = i
    <3>1. PICK o, q : o = job[j] /\ q = job'[j] OBVIOUS
    <3>2. o \in Job /\ q = [o EXCEPT !.pc = "answered", !.answer = answer]
      BY <1>2, <2>1, <3>1 DEF CaptureInv, TypeOK
    <3>3. /\ q.submitting = o.submitting /\ q.result = o.result /\ q.todo = o.todo
          /\ q.answer = answer
      BY <3>2 DEF Job
    <3>4. Subject(o) = p
      BY <1>1, <2>1, <3>1, CaptureAssumption DEF CaptureInv, CallsServe, Current
    <3>5. Subject(q) = p BY <3>3, <3>4 DEF Subject
    <3>6. AnswerOnRecord(q)' BY <3>3, <3>5 DEF AnswerOnRecord
    <3>7. ResultOnRecord(o) BY <3>1 DEF HeardInv
    <3>8. ResultOnRecord(q)' BY <3>3, <3>7 DEF ResultOnRecord, LogStays, Recorded
    <3> QED BY <3>1, <3>3, <3>6, <3>8 DEF AnswerOnRecord, ResultOnRecord
  <2>2. CASE j # i
    <3>1. job'[j] = job[j] BY <1>2, <2>2
    <3> QED BY <3>1, StillOnRecord
  <2> QED BY <2>1, <2>2
<1> QED BY <1>3, HeardKeeps

\* The page shows something of the punch of a coroutine, which ends.
LEMMA HeardTells ==
    ASSUME CaptureInv, HeardInv, NEW j \in Jobs, NEW p \in Punches,
           job[j].submitting = p, Become(j, Idle), UNCHANGED <<reading, events>>,
           NEW x, told' = [told EXCEPT ![p] = x] \/ told' = told
    PROVE  HeardInv'
<1>1. \A i \in Jobs : job'[i] = IF i = j THEN Idle ELSE job[i]
  BY DEF CaptureInv, TypeOK, Become
<1>2. /\ reading[p] # NULL /\ p # NULL /\ \A i \in Jobs \ {j} : job[i].submitting # p
      /\ told \in [Punches -> Decisions \cup {"QUEUED", NULL}]
  BY CaptureAssumption DEF HeardInv, OneSubmitter, CaptureInv, TypeOK
<1>3. \A q \in Punches : q # p => told'[q] = told[q] BY <1>2
<1>4. ToldWasRead' BY <1>2, <1>3 DEF HeardInv, ToldWasRead
<1>5. Idle.submitting = NULL /\ Idle.answer = NULL /\ Idle.result = NULL BY DEF Idle
<1>6. OneSubmitter'
  <2>1. ASSUME NEW i \in Jobs, job'[i].submitting # NULL
        PROVE  /\ i # j /\ job'[i] = job[i] /\ job[i].submitting # p
               /\ job[i].submitting \in Punches
    <3>1. i # j BY <1>1, <1>5, <2>1
    <3>2. job'[i] = job[i] BY <1>1, <3>1
    <3>3. job[i] \in Job BY DEF CaptureInv, TypeOK
    <3>4. job[i].submitting \in Punches BY <2>1, <3>2, <3>3 DEF Job
    <3> QED BY <1>2, <3>1, <3>2, <3>4
  <2>2. ASSUME NEW i \in Jobs, job'[i].submitting # NULL, NEW k \in Jobs \ {i}
        PROVE  job'[k].submitting # job'[i].submitting
    <3>1. CASE k = j BY <1>1, <1>5, <2>2, <3>1
    <3>2. CASE k # j BY <1>1, <2>1, <2>2, <3>2 DEF HeardInv, OneSubmitter
    <3> QED BY <3>1, <3>2
  <2> QED BY <1>3, <2>1, <2>2 DEF HeardInv, OneSubmitter
<1>7. LogStays BY DEF LogStays
<1>8. ASSUME NEW i \in Jobs PROVE AnswerOnRecord(job[i])' /\ ResultOnRecord(job[i])'
  <2>1. CASE i = j
    <3>1. job'[i].answer = NULL /\ job'[i].result = NULL BY <1>1, <1>5, <2>1
    <3> QED BY <3>1, CaptureAssumption DEF AnswerOnRecord, ResultOnRecord
  <2>2. CASE i # j
    <3>1. job'[i] = job[i] BY <1>1, <2>2
    <3> QED BY <1>7, <3>1, StillOnRecord
  <2> QED BY <2>1, <2>2
<1> QED BY <1>4, <1>6, <1>8 DEF HeardInv

Step == Log!Next \/ UNCHANGED <<events, told>>

\* A coroutine about whose punch nothing is known yet.
LEMMA NothingKnown ==
    ASSUME NEW o, o.answer \notin Decisions
    PROVE  AnswerOnRecord(o)
BY DEF AnswerOnRecord

LEMMA SubmitRefines ==
    ASSUME CaptureInv, HeardInv, NEW j \in Jobs, NEW p \in Punches, NEW r \in Readings,
           Submit(j, p, r)
    PROVE  HeardInv' /\ Step
<1>1. PICK o : o = [Idle EXCEPT !.pc = "sending", !.submitting = p] OBVIOUS
<1>2. /\ Become(j, o) /\ reading[p] = NULL /\ reading' = [reading EXCEPT ![p] = r]
      /\ UNCHANGED <<told, events>>
  BY <1>1 DEF Submit, server
<1>3. o.submitting = p /\ o.answer = NULL /\ o.result = NULL BY <1>1 DEF Idle
<1>4. \A i \in Jobs : job'[i] = IF i = j THEN o ELSE job[i]
  BY <1>2 DEF CaptureInv, TypeOK, Become
<1>5. r # NULL /\ p # NULL BY CaptureAssumption
<1>6. /\ reading'[p] # NULL
      /\ \A q \in Punches : reading[q] # NULL => reading'[q] # NULL
  BY <1>2, <1>5 DEF CaptureInv, TypeOK
<1>7. told[p] = NULL /\ \A i \in Jobs : job[i].submitting # p
  BY <1>2, <1>5 DEF HeardInv, ToldWasRead, OneSubmitter
<1>8. ToldWasRead' BY <1>2, <1>6 DEF HeardInv, ToldWasRead
<1>9. OneSubmitter'
  <2>1. ASSUME NEW i \in Jobs, i # j, job[i].submitting # NULL
        PROVE  job[i].submitting \in Punches
    <3>1. job[i] \in Job BY DEF CaptureInv, TypeOK
    <3> QED BY <2>1, <3>1 DEF Job
  <2>2. ASSUME NEW i \in Jobs, job'[i].submitting # NULL
        PROVE  /\ reading'[job'[i].submitting] # NULL
               /\ told'[job'[i].submitting] = NULL
               /\ \A k \in Jobs \ {i} : job'[k].submitting # job'[i].submitting
    <3>1. CASE i = j
      <4>1. job'[i].submitting = p BY <1>3, <1>4, <3>1
      <4> QED BY <1>2, <1>4, <1>6, <1>7, <3>1, <4>1
    <3>2. CASE i # j
      <4>1. job'[i] = job[i] /\ job[i].submitting \in Punches /\ job[i].submitting # NULL
        BY <1>4, <2>1, <2>2, <3>2
      <4>2. reading'[job[i].submitting] # NULL /\ told'[job[i].submitting] = NULL
        BY <1>2, <1>6, <4>1 DEF HeardInv, OneSubmitter
      <4>3. \A k \in Jobs \ {i} : job'[k].submitting # job[i].submitting
        BY <1>3, <1>4, <1>7, <4>1 DEF HeardInv, OneSubmitter
      <4> QED BY <4>1, <4>2, <4>3
    <3> QED BY <3>1, <3>2
  <2> QED BY <2>2 DEF OneSubmitter
<1>10. LogStays BY <1>2 DEF LogStays
<1>11. ASSUME NEW i \in Jobs PROVE AnswerOnRecord(job[i])' /\ ResultOnRecord(job[i])'
  <2>1. CASE i = j
    <3>1. job'[i].answer = NULL /\ job'[i].result = NULL BY <1>3, <1>4, <2>1
    <3> QED BY <3>1, CaptureAssumption DEF AnswerOnRecord, ResultOnRecord
  <2>2. CASE i # j
    <3>1. job'[i] = job[i] BY <1>4, <2>2
    <3> QED BY <1>10, <3>1, StillOnRecord
  <2> QED BY <2>1, <2>2
<1> QED BY <1>2, <1>8, <1>9, <1>11 DEF HeardInv, Step

\* The steps of a coroutine between its start and its end.
LEMMA MoveRefines ==
    ASSUME CaptureInv, HeardInv, NEW j \in Jobs,
           \/ SyncStart(j) \/ SyncRead(j) \/ SubmitAnswered(j)
           \/ RemovePending(j) \/ MarkAttempt(j)
           \/ GiveUp(j) \/ \E c \in Calls : Deliver(j, c)
    PROVE  HeardInv' /\ Step
<1>1. UNCHANGED <<reading, told, events>>
  BY DEF SyncStart, SyncRead, SubmitAnswered, RemovePending, MarkAttempt, GiveUp, Deliver,
         app, server
<1>2. PICK b : b = job[j] OBVIOUS
<1>3. b \in Job /\ AnswerOnRecord(b) /\ ResultOnRecord(b)
      /\ (b.answer \in Decisions => b.pc = "answered")
  BY <1>2 DEF CaptureInv, TypeOK, HeardInv, AnswersRecorded
<1>4. SUFFICES \E o : /\ Become(j, o) /\ o.submitting \in {b.submitting, NULL}
                      /\ AnswerOnRecord(o) /\ ResultOnRecord(o)
  BY <1>1, <1>2, HeardBecomes DEF Step
<1>5. CASE SyncStart(j)
  <2>1. PICK o : o = [Idle EXCEPT !.pc = "pending"] OBVIOUS
  <2>2. o.submitting = NULL /\ o.answer = NULL /\ o.result = NULL BY <2>1 DEF Idle
  <2>3. Become(j, o) BY <1>5, <2>1 DEF SyncStart
  <2> QED BY <2>2, <2>3, CaptureAssumption DEF AnswerOnRecord, ResultOnRecord
<1>6. CASE SyncRead(j)
  <2>1. PICK o : o = [b EXCEPT !.pc = IF queue = <<>> THEN "returning" ELSE "sending",
                               !.todo = queue]
    OBVIOUS
  <2>2. o.submitting = b.submitting /\ o.answer = b.answer /\ o.result = b.result
    BY <1>3, <2>1 DEF Job
  <2>3. Become(j, o) /\ b.pc = "pending" BY <1>2, <1>6, <2>1 DEF SyncRead
  <2> QED BY <1>3, <2>2, <2>3 DEF AnswerOnRecord, ResultOnRecord
<1>7. CASE SubmitAnswered(j)
  <2>1. PICK o : o = [b EXCEPT !.pc = "pending", !.result = b.answer, !.answer = NULL]
    OBVIOUS
  <2>2. o.submitting = b.submitting /\ o.answer = NULL /\ o.result = b.answer
    BY <1>3, <2>1 DEF Job
  <2>3. Become(j, o) /\ b.pc = "answered" /\ b.todo = <<>> /\ b.answer \in Decisions
    BY <1>2, <1>7, <2>1 DEF SubmitAnswered
  <2>4. /\ Current(j) = b.submitting /\ Subject(b) = b.submitting
        /\ Current(j) \in Punches /\ Recorded(Current(j))
    BY <1>2, <2>3 DEF Current, Subject, CaptureInv, BusyOnPunch, Busy, AnswersRecorded
  <2>5. b.answer = Head(events[b.submitting]) BY <1>3, <2>3, <2>4 DEF AnswerOnRecord
  <2>6. ResultOnRecord(o) BY <2>2, <2>4, <2>5 DEF ResultOnRecord
  <2> QED BY <2>2, <2>3, <2>6, CaptureAssumption DEF AnswerOnRecord
<1>8. CASE RemovePending(j) \/ MarkAttempt(j)
  <2>1. PICK o : o = [b EXCEPT
                        !.pc     = IF Tail(b.todo) = <<>> THEN "returning" ELSE "sending",
                        !.todo   = Tail(b.todo),
                        !.answer = NULL]
    OBVIOUS
  <2>2. o.submitting = b.submitting /\ o.answer = NULL /\ o.result = b.result
    BY <1>3, <2>1 DEF Job
  <2>3. Become(j, o) BY <1>2, <1>8, <2>1 DEF RemovePending, MarkAttempt, Advance
  <2> QED BY <1>3, <2>2, <2>3, CaptureAssumption DEF AnswerOnRecord, ResultOnRecord
<1>9. CASE GiveUp(j)
  <2>1. PICK o : o = [b EXCEPT !.pc = "answered", !.answer = "LOST"] OBVIOUS
  <2>2. o.submitting = b.submitting /\ o.answer = "LOST" /\ o.result = b.result
    BY <1>3, <2>1 DEF Job
  <2>3. Become(j, o) BY <1>2, <1>9, <2>1 DEF GiveUp
  <2> QED BY <1>3, <2>2, <2>3 DEF AnswerOnRecord, ResultOnRecord
<1>10. CASE \E c \in Calls : Deliver(j, c)
  <2>1. PICK o : o = [b EXCEPT !.pc = "waiting"] OBVIOUS
  <2>2. o.submitting = b.submitting /\ o.answer = b.answer /\ o.result = b.result
    BY <1>3, <2>1 DEF Job
  <2>3. Become(j, o) /\ b.pc = "sending" BY <1>2, <1>10, <2>1 DEF Deliver
  <2> QED BY <1>3, <2>2, <2>3 DEF AnswerOnRecord, ResultOnRecord
<1> QED BY <1>5, <1>6, <1>7, <1>8, <1>9, <1>10

\* The page shows that the punch is queued.
LEMMA EnqueueRefines ==
    ASSUME CaptureInv, HeardInv, NEW j \in Jobs, Enqueue(j)
    PROVE  HeardInv' /\ Step
<1>1. PICK p : p = job[j].submitting OBVIOUS
<1>2. /\ job[j].pc = "answered" /\ job[j].todo = <<>> /\ Become(j, Idle)
      /\ UNCHANGED <<reading, events>> /\ Tell(p, "QUEUED")
  BY <1>1 DEF Enqueue, server
<1>3. p \in Punches
  BY <1>1, <1>2 DEF CaptureInv, BusyOnPunch, Busy, Current, Subject
<1>4. told' = [told EXCEPT ![p] = "QUEUED"] \/ told' = told BY <1>2 DEF Tell
<1>5. HeardInv' BY <1>1, <1>2, <1>3, <1>4, HeardTells
<1>6. told[p] = NULL BY <1>1, <1>3, CaptureAssumption DEF HeardInv, OneSubmitter
<1>7. Step BY <1>2, <1>3, <1>4, <1>6 DEF Step, Log!Next, Log!HearQueued
<1> QED BY <1>5, <1>7

\* The page shows the decision on record.
LEMMA ReturnRefines ==
    ASSUME CaptureInv, HeardInv, NEW j \in Jobs, Return(j)
    PROVE  HeardInv' /\ Step
<1>1. PICK p, d : p = job[j].submitting /\ d = job[j].result OBVIOUS
<1>2. /\ Become(j, Idle) /\ UNCHANGED <<reading, events>>
      /\ IF d = NULL THEN UNCHANGED told ELSE Tell(p, d)
  BY <1>1 DEF Return, server
<1>3. CASE d = NULL
  <2>1. Idle.submitting = NULL /\ Idle.answer = NULL /\ Idle.result = NULL BY DEF Idle
  <2>2. AnswerOnRecord(Idle) /\ ResultOnRecord(Idle)
    BY <2>1, CaptureAssumption DEF AnswerOnRecord, ResultOnRecord
  <2>3. PICK o : o = Idle OBVIOUS
  <2>4. HeardInv' BY <1>2, <1>3, <2>1, <2>2, <2>3, HeardBecomes
  <2> QED BY <1>2, <1>3, <2>4 DEF Step
<1>4. CASE d # NULL
  <2>1. p \in Punches /\ Recorded(p) /\ d = Head(events[p])
    BY <1>1, <1>4 DEF HeardInv, ResultOnRecord
  <2>2. told' = [told EXCEPT ![p] = d] \/ told' = told BY <1>2, <1>4 DEF Tell
  <2>3. HeardInv' BY <1>1, <1>2, <2>1, <2>2, HeardTells
  <2>4. told[p] = NULL BY <1>1, <2>1, CaptureAssumption DEF HeardInv, OneSubmitter
  <2>5. Step BY <1>2, <2>1, <2>2, <2>4 DEF Step, Log!Next, Log!Hear, Recorded
  <2> QED BY <2>3, <2>5
<1> QED BY <1>3, <1>4

LEMMA ServeRefines ==
    ASSUME CaptureInv, HeardInv, NEW c \in Calls, Serve(c)
    PROVE  HeardInv' /\ Step
<1>1. PICK p : p = call[c].punch OBVIOUS
<1>2. p \in Punches
  <2>1. call[c].pc # "idle" BY DEF Serve, Find, Check, Create
  <2> QED BY <1>1, <2>1 DEF CaptureInv, CallsServe
<1>3. UNCHANGED <<reading, told>> BY DEF Serve, Find, Check, Create, app
<1>4. CASE UNCHANGED <<events, job>>
  <2>1. LogStays BY <1>4 DEF LogStays
  <2>2. \A j \in Jobs : AnswerOnRecord(job[j])' /\ ResultOnRecord(job[j])'
    BY <1>4, <2>1, StillOnRecord
  <2> QED BY <1>3, <1>4, <2>2, HeardKeeps DEF Step
<1>5. ASSUME UNCHANGED events, NEW answer, Reply(c, answer),
             answer \in Decisions => answer = Head(events[p])
      PROVE  HeardInv' /\ Step
  <2>1. LogStays BY <1>5 DEF LogStays
  <2>2. HeardInv' BY <1>1, <1>2, <1>3, <1>5, <2>1, HeardReplies
  <2> QED BY <1>3, <1>5, <2>2 DEF Step
<1>6. CASE Find(c)
  <2>1. UNCHANGED events BY <1>6 DEF Find, server
  <2>2. Reply(c, Head(events[p])) \/ UNCHANGED job BY <1>1, <1>6 DEF Find
  <2> QED BY <1>4, <1>5, <2>1, <2>2
<1>7. CASE Check(c)
  <2>1. UNCHANGED events BY <1>7 DEF Check, server
  <2>2. Reply(c, "REFUSED") \/ UNCHANGED job BY <1>7 DEF Check
  <2> QED BY <1>4, <1>5, <2>1, <2>2
<1>8. CASE Create(c)
  <2>1. CASE Recorded(p)
    <3>1. UNCHANGED events /\ Reply(c, "FAILED") BY <1>1, <1>8, <2>1 DEF Create
    <3> QED BY <1>5, <3>1
  <2>2. CASE ~Recorded(p)
    <3>1. PICK d \in Decisions : d = decideAttendance(reading[p]) BY DecisionType
    <3>2. events' = [events EXCEPT ![p] = <<d>>] /\ Reply(c, d)
      BY <1>1, <1>8, <2>2, <3>1 DEF Create
    <3>3. events \in [Punches -> Seq(Decisions)] BY DEF CaptureInv, TypeOK
    <3>4. PICK row : row = <<d>> OBVIOUS
    <3>5. Head(row) = d BY <3>4
    <3>6. events'[p] = row /\ \A q \in Punches : q # p => events'[q] = events[q]
      BY <1>2, <3>2, <3>3, <3>4
    <3>7. LogStays BY <2>2, <3>6 DEF LogStays
    <3>8. HeardInv' BY <1>1, <1>2, <1>3, <3>2, <3>5, <3>6, <3>7, HeardReplies
    <3>9. Step
      <4>1. Log!Record(p, d) BY <1>3, <2>2, <3>2 DEF Log!Record, Recorded
      <4>2. d \in Log!Decisions BY DEF Log!Decisions
      <4> QED BY <1>2, <4>1, <4>2 DEF Step, Log!Next
    <3> QED BY <3>8, <3>9
  <2> QED BY <2>1, <2>2
<1> QED BY <1>6, <1>7, <1>8 DEF Serve

LEMMA HeardStep ==
    ASSUME CaptureInv, HeardInv, [Next]_vars
    PROVE  HeardInv' /\ Step
<1>1. CASE \E j \in Jobs, p \in Punches, r \in Readings : Submit(j, p, r)
  BY <1>1, SubmitRefines
<1>2. ASSUME NEW j \in Jobs, \/ SyncStart(j) \/ App(j)
                             \/ GiveUp(j) \/ \E c \in Calls : Deliver(j, c)
      PROVE  HeardInv' /\ Step
  BY <1>2, MoveRefines, EnqueueRefines, ReturnRefines DEF App
<1>3. CASE \E c \in Calls : Serve(c) BY <1>3, ServeRefines
<1>4. CASE UNCHANGED <<reading, told, events, job>>
  <2>1. LogStays BY <1>4 DEF LogStays
  <2>2. \A j \in Jobs : AnswerOnRecord(job[j])' /\ ResultOnRecord(job[j])'
    BY <1>4, <2>1, StillOnRecord
  <2> QED BY <1>4, <2>2, HeardKeeps DEF Step
<1>5. CASE Kill
  <2>1. UNCHANGED <<reading, told, events>> /\ \A j \in Jobs : job'[j] = Idle
    BY <1>5 DEF Kill, server
  <2>2. Idle.submitting = NULL /\ Idle.answer = NULL /\ Idle.result = NULL BY DEF Idle
  <2>3. \A j \in Jobs : /\ job'[j].submitting = NULL
                        /\ AnswerOnRecord(job[j])' /\ ResultOnRecord(job[j])'
    BY <2>1, <2>2, CaptureAssumption DEF AnswerOnRecord, ResultOnRecord
  <2> QED BY <2>1, <2>3, HeardKeeps DEF Step
<1>6. ChangeEligibility \/ UNCHANGED vars => UNCHANGED <<reading, told, events, job>>
  BY DEF ChangeEligibility, app, vars
<1> QED BY <1>1, <1>2, <1>3, <1>4, <1>5, <1>6 DEF Next

\* Whatever is lost, retried or restarted, the app and the API together are a log
\* that takes each punch once, and the page shows a punch once: as queued, or
\* with the decision on record (submit, syncPending, clock).
THEOREM CaptureImplementsLog == Spec => ImplementsPunchLog
<1>1. Init => HeardInv /\ Log!Init
  BY CaptureAssumption DEF Init, HeardInv, ToldWasRead, OneSubmitter, Idle, AnswerOnRecord,
                           ResultOnRecord, Log!Init
<1>2. CaptureInv /\ HeardInv /\ [Next]_vars => HeardInv'
  BY HeardStep
<1>3. CaptureInv /\ HeardInv /\ [Next]_vars => [Log!Next]_<<events, told>>
  BY HeardStep DEF Step
<1> QED BY <1>1, <1>2, <1>3, CaptureSafety, PTL DEF Spec, ImplementsPunchLog, Log!Spec
=============================================================================
