# A TLA+ model of SmartEdX

SmartEdX is a learning platform for institutes: courses, exams with integrity
monitoring, live classes, messages, an AI assistant and a phone agent. This
directory models the parts of it whose correctness depends on the order in which
things happen, checks them with TLC on small instances, and proves the most
important facts with TLAPS for every value of the constants. Paths below are
relative to `src/`; `exam.service.ts` and its neighbours are in
`backend/institute_service/src/modules/auth/`.

## 1. Inventory

| Component | State | Operations | What is hard | What makes it correct |
|---|---|---|---|---|
| **Exam engine** (`exam.service.ts`) | one row of `exams` per exam: status, window, paper, `studentAttempts` and `integrityFlags` (JSONB columns holding the entries of *all* students) | create, update, remove, submitExam, saveEssayGrade, reportIntegrityFlag, screenCheck, forceAutoFail, markFlagReviewed | every handler reads the row, awaits, and writes whole columns back; no lock, version or transaction; handlers may die between two writes | accepted submissions and reports are kept, limits and thresholds hold, nobody is disqualified without evidence, disqualification is permanent |
| **Live classes** (`live.gateway.ts`, `live-class.service.ts`) | `live_sessions`, `live_participants` rows; `socketSessionMap` and socket.io rooms in memory | startSession, endSession, deleteSession, join-room, leave-room, POST leave, disconnect | a join awaits three times and races the disconnect; several sockets of one user; two joins race to insert one row; a newcomer is told users from the rows, without sockets | who is in a room is who is listed as present; announced peers are forgotten when they leave; dead sockets are forgotten |
| **Live class pages** (`frontend/institute_protal/src/context/LiveSessionContext.tsx`) | session, socket, microphone, one peer connection per socket, queued candidates, a timer | join, leave, end, reconnect; offer, answer, ICE candidates | messages of both sides cross; handlers await the browser between two of them; a reconnection gets a new socket id | who was told of each other gets a call; no candidate is lost; an ended class empties |
| **Recordings and video questions** (`recording.service.ts`) | recording, its questions, the students' attempts, all in one entity | upload, assignToCourse, saveVideoQuestions, submitVideoAttempt, statistics | whole-entity saves that overlap; check-then-create | attempts survive edits, statistics count each student once |
| **Courses and assessments** (`course.service.ts`) | courses, enrolments, assessments, attempts | create, enrol, publish, submit attempts, grade | attempt limits checked before an await | limits hold, scores belong to the attempt graded |
| **Course modules and content** (`course.service.ts`, `module-content.service.ts`, `course-module.service.ts`) | rows of courses, modules and contents; a content names a file | create, update, remove, deleteModule, deleteCourse, by the teacher and by the administrator | each change asks the voice agent, without waiting, to index or to forget a file; a row read before an await decides what is asked | the knowledge base has the files that the rows name, and no others |
| **Course knowledge base** (`voice_agent/app/qdrant/course_kb.py`, `routers/course_kb.py`) | points in Qdrant, one collection per course; `_search_cache` in memory | index_content, delete_content, search_course | jobs run in threads, in any order, batch by batch, and may fail at any point; answers are cached for five minutes | as above; answers catch up |
| **Institute users and login** (`auth.service.ts`) | users, institute memberships, face descriptors | assign, create, update, toggle, delete, login | two tables written without a transaction | no half-created user; inactive users get no token |
| **Messages, notifications** (`message.*`, `notification.*`) | messages, read marks, connected sockets | send, read, broadcast | delivery only to sockets connected now | unread counts agree with messages |
| **Response cache** (`infra/redis/redis-cache.interceptor.ts`) | Redis entries keyed by user and URL | fill on GET, invalidate after writes | a GET in flight refills the entry after its invalidation | a user sees his own writes |
| **SaaS accounts, institutes, subscriptions** (`saas_service/.../auth.service.ts`) | users, institutes, subscriptions | register, onboarding, createInstitute, create/update/cancelSubscription | check-then-insert; multi-step onboarding | one subscription per user; no institute without owner |
| **PayHere payments** (`payhere.service.ts`) | subscription row; the payment provider's retries | checkout, handleNotify | duplicated, reordered and swallowed notifications | paid means active, cancelled stays cancelled |
| **SIP calls** (`voice_agent/.../server.py`) | calls by Call-ID, RTP addresses, two tasks per call, the agent's queue and session, transcripts | INVITE, ACK, BYE/CANCEL, RTP, agent stream, termination | tear-down from five sides; tasks that cancel and await each other | a call is torn down once and completely, every teardown ends |
| **Agent sessions and transcripts** (`voice_agent/app/adk/session_manager.py`, `transcription/handler.py`, `transport/websocket/handler.py`) | under one session id: transcript, ADK session, clip queue, memory; per connection a Core session | connect, talk, finalize | a client comes back with the id of a connection that is still being finalised | what was said is reported once; what is shared is released by the last to go |
| **WebSocket transports** (`transport/websocket`, `transport/sip_websocket`) | the socket's tasks | pump audio and events | - | - |
| **Chat sessions** (`ai_core/utils/chat_sessions.py`) | points in Qdrant: chats and numbered messages | create, save, list, prune, delete | numbering read before it is written; pruning | order kept, newest messages kept |
| **AI agents and routers** (`ai_core`), **face server** | none | model calls | slow, fail, time out | external: any answer |
| **API gateway** | none | forwards requests | - | - |
| **Student exam client** (`frontend/institute_protal/.../student/exams/page.tsx`) | timers, countdown, detectors, `submitRef` | auto-submit, report, forced fail | blur and visibilitychange fire together; a countdown races a submission | a submission is sent once; a countdown cancelled in time sends nothing |
| **Portal pages**, **infrastructure** | - | rendering, configuration | - | - |

How they interact: the portals call the gateway over HTTP, which forwards to the
services. `reportIntegrityFlag` and `forceAutoFail` of the exam engine call the
notification service, which emits to the sockets connected then; submitExam and
screenCheck call the AI core and take any answer, and a failure of it, as given.
The phone agent and the assistant call the institute service over its API; the
institute service tells the voice agent of every indexable file and of its removal.
The pages of a live class talk to each other through the gateway only. Each table of
Postgres is written by one service, and the points in Qdrant by the voice agent.

## 2. Modules

| Module | Contents |
|---|---|
| `Exam` | the exam engine: one row, its requests in flight, one action per step between two awaits |
| `ExamLedger` | abstract: what the engine promises while requests do not overlap |
| `ExamSafety` | its properties, among them that it implements `ExamLedger`, and the inductive invariants behind them |
| `ExamClaims` | what comments and documents say of it and the code does not keep |
| `MCExam` | instances for TLC |
| `ExamProofs` | proofs of type correctness and of what holds whatever requests overlap |
| `ExamSerialProofs` | proofs of what holds when requests do not overlap, and that the engine is a ledger then |
| `ExamPage` | the page of a student who takes an exam, composed with `Exam` over calls that may be lost |
| `MCPage` | its instance for TLC |
| `ExamPageProofs` | the composition implements the engine; proofs of its safety properties |
| `LiveRoom` | abstract: what the gateway promises the sockets of a class |
| `LiveGateway` | the gateway, the rows of the class and of its participants; implements `LiveRoom` |
| `MCLive`, `LiveProofs` | its instance; proofs of its invariants and of the refinement |
| `LiveCall` | the pages of a class around `LiveRoom`: signalling and peer connections |
| `MCCall` | its instance for TLC |
| `LiveCallProofs` | proofs of its safety, and that it runs the room as `LiveRoom` says |
| `VoiceSession` | the connections of a browser to one voice session |
| `MCVoice`, `VoiceProofs` | its instance; proofs of its safety properties |
| `CourseKb` | the contents of a course in the institute service and their points in the voice agent |
| `MCKb` | its instance for TLC |
| `CourseKbProofs` | proofs of its safety |
| `SipServer` | the phone server of the voice agent: calls, their tasks, their teardown |
| `SipSafety` | its properties, and the inductive invariants behind them |
| `MCSip` | instances for TLC |
| `SipProofs` | proofs of its safety: types, teardown, routes, tracking, what a teardown waits for |

Abstract specifications: `LiveRoom` (one room, entered and left by sockets) and
`ExamLedger` (one account per student, entered in atomic steps).

Compositions. `ExamPage` EXTENDS `Exam` and runs its handlers, unchanged, as the
server side of the page's calls. `LiveCall` EXTENDS `LiveRoom` and uses of the gateway
only what `LiveRoom` promises; that the gateway keeps the promise is
`ImplementsRoom`, and that the pages use it as the room allows is
`LiveCallProofs!PagesRunTheRoom`. `CourseKb` holds both sides of its calls. Phone calls, voice
sessions and the three above share no state with one another.

### The exam engine (`Exam`)

NestJS runs one thread, so a handler is atomic between two `await`s and only
there can another one run. Each handler is split exactly there:

| Handler | Steps | Awaits between them |
|---|---|---|
| submitExam | `submitExam` (read the row, check) → `SubmitWrite` | short-answer grader, user lookup |
| saveEssayGrade | `saveEssayGrade` → `GradeWrite` | the read's own await |
| reportIntegrityFlag | `reportIntegrityFlag` → `FlagAutoFail` → `FlagNotify`, or → `FlagAlert` → `FlagWrite` | user lookup, the update, the notification |
| screenCheck | `screenCheck` → `ScreenClear`, or → `ScreenSuspicious` → as a report | image analysis (up to 20 s), second read of the row |
| forceAutoFail | `forceAutoFail` → `ForceWrite` → `ForceNotify` | user lookup, the update |
| markFlagReviewed | `markFlagReviewed` → `ReviewWrite` | the read's own await |
| create, update, remove | `Created` (in `Init`), `update`, `remove` | one step: what they read first decides permissions and not what they write |

`req[r]` is a request in flight: what it does when it resumes, and in `seen` the
row it read. A write replaces a whole column by one computed from `seen`
(`withAttempt`, `updatedFlags`), which is where other requests' writes are lost.
`Abort` lets a handler die at any await: a failed query, a restarted pod. A
request refused by its checks changes nothing and is no step.

Abstractions. A score is kept as the marks awarded per question, so that a grade
given twice shows; the code keeps the sum. Which answers are right is an input
(`AnswerSheets`): a sheet names the MCQs answered right and the text questions
filled in. Time is the phase of the exam's window (`none`, `before`, `open`,
`closed`) moved on by `Tick` or by a patch. `short_answer` grading is modelled
although `CreateExamDto` admits only `mcq` and `essay`, so no run has such a
question and no proof excludes it. Read-only queries, result views and wording
are left out. `accepted`, `reported`, `acked`, `forced` and `alerts` record what
clients and the creator have observed; no guard reads them, except that a flag
can only be ticked off once it has been reported.

### SIP calls (`SipServer`)

asyncio runs one task at a time, and an `await` is a step only where it really
suspends: waiting for a task, a timer or the agent's stream. The in-memory session
service and the unbounded audio queue never suspend, so a datagram is handled in
one step, up to the first living task that `_terminate_call` awaits.

| Code (`transport/sip_udp/server.py`) | Actions |
|---|---|
| `_handle_invite`, `_handle_ack`, `_handle_bye`/`_handle_cancel` | the same names; an ACK is `StartAdkSession`, or `FailAdkSession` when the session exists |
| `handle_rtp_packet` | the same name: an address is learned from its host |
| `_run_adk_session` | `AdkEvent`, `AdkStreamEnds`, `AdkStreamError` → `AdkReconnect`, `AdkCancelled`; its `finally` is `AdkFinally`, then `AdkDrainTimeout`, `AdkDrained` |
| `_rtp_pacing_worker`, `_send_bye` | `Play`, `HangUp`, `_send_bye`, `PacingStops` |
| `_terminate_call` | `Terminate` within the caller's step, then `Teardown` whenever an awaited task has ended |
| `stop` | `stop`, `StopCall`, `Stopped` |

`info[i]` is a `SIPCallInfo` with the program counters of its agent task (`adk`),
its pacing task (`pacing`) and its teardown (`teardown`: which task it awaits), the
pending cancellations, and in `by` whose task runs the teardown: a datagram's,
`stop()`'s or an agent's own. A cancellation is consumed by the task that it
resumes. When an agent task is cancelled while it waits for its pacing task the
cancellation goes to that one, which swallows it (`server.py:775`).

Abstractions. Audio is one bit: something waits to be played. Interruptions,
muting and the conditions under which `end_call` is ignored decide *whether* an
event speaks or ends the call, and both are free choices of `AdkEvent`. The clip
worker is off by default and left out, as are OPTIONS and REGISTER, which have no
state, the 503 of a server without an API key, and the retransmission of a BYE. A
finalized transcript stands for the report to the Core service. `Infos` bounds the INVITEs
of a run, since an ended info is never reused, and `SdpAddrs` are the addresses they name.
To keep states that nothing tells apart one, `audio` is reset when the pacing task ends
and `retry_count` when the agent task leaves its loop: neither is read after that.

Three INVITEs of one dialog can start one info twice: the first is replaced while it runs,
its teardown deletes the session that the second's start finds by the same id, and a
repeated ACK starts the tracked info again. The new task handles, queue and transcript then
replace the old ones in the info (`server.py:472-491`), and nothing refers to those any
more. `earlier_tasks = "lost"` says so; what the lost tasks still do is
`LostTasksGoOn` (speak, hang up, cancel the present pacing task) and `LostAgentEnds` (their
`finally`, which terminates whatever call has the id). A teardown run by the lost agent
task of the same info has `by = "lost"`: it has set `adk_task` to None (`:704`), so it
neither cancels nor awaits the present agent task.

### The exam page (`ExamPage`)

| Code (`student/exams/page.tsx`) | Actions |
|---|---|
| the list (`fetchExams`, `isLive`, `canRetry`) | `load`, `handleStart` |
| `TakeExamModal`: deadline, submission | `TimeIsUp`, `setAnswers`, `AutoSubmit`, `handleSubmit`, `SubmitAnswered` |
| blur, focus, visibilitychange, copy | `Leave` (two reports), `Return`, `onCopy` |
| the countdown of ten seconds, the answer to a report, the banner | `CountdownExpires`, `ReportAnswered`, `onClose` |
| a reload of the page | `Reload` |

A call is `sent`, `Arrives` at its handler (or is `Refused` by the handler's checks), is
`Serve`d by the actions of `Exam`, and is answered; `Lost` breaks the connection,
after which the handler goes on, and `Fails` is `Exam`'s `Abort`. The request slots of
`Exam` number the calls. `modal` holds the flags of the component, `submitRef` among
them; `mine` says whether the modal that made a call is still open, because a closure
that outlives it changes nothing. What the page knows of the exam is `View`, which may
be arbitrarily old. `incidents`, `overstayed` and `failures` are history and bounds.
Left out: sharing the screen and its periodic checks (`screenCheck` is modelled in
`Exam` only) and the answers: which sheet is submitted is the engine's choice.

### Live classes (`LiveRoom`, `LiveGateway`, `LiveCall`)

| Code (`live.gateway.ts`, `live-class.service.ts`) | Actions of `LiveGateway` |
|---|---|
| `handleConnection`, `handleJoinRoom` | the same names; the join goes on as `JoinFind` → `JoinSave` → `JoinList` → `JoinTell` |
| `handleLeaveRoom`, `handleDisconnect` | the same names; both go on as `LeaveMark` → `LeaveTell` |
| `startSession`, `endSession`, `deleteSession` | the same names; the deletion ends in `DeleteRow` |
| POST `leave` | `leaveSession` |

A panel has two kinds of entries, both as they are once everything sent to socket `s`
has been received (socket.io delivers in order on one connection). `heard[s]` are the
sockets that `peer-joined` announced to it; `shown[s]` are the users whom `room-state`
named, without a socket: those whose rows were present when `JoinList` read them into
`listed[s]`, the newcomer among them. `peer-left` names a socket and takes an entry out of
`heard` only. `PanelCloses` stands for the page that clears its panel when it leaves, or
gets another room state when it is back under a new id. `disturbed` are the users
whose joins and leaves overlapped or failed; nothing is claimed of their rows, which
do go wrong (section 6). A socket id is never used again, so `Sockets` bounds the
connections of a class.

`LiveRoom` is the part of this that pages rely on: a socket enters once, is announced
at most once, and leaves once. The refinement mapping takes `where` from `joining` and
`room` and `announced` from the joins that are through; the rows of the session and of
the participants disappear.

`LiveCall` puts the pages around it. A page (`LiveSessionContext.tsx`) is its
`session`, its `media` request, its socket (`link`, `sock`), a peer connection `pc`
per remote socket and the candidates queued for it; its messages wait in
`inbox` and its handlers are split where they await the browser (`PeerJoined` →
`SendOffer`; `Offer` → `OfferSet` → `SendAnswer`; `Answer` → `AnswerSet`). One
candidate stands for all that one side gathers. `Plans` says in advance which page
gets which socket id and whether the class is ended, so that an instance may bound
reconnections without cutting a page off for ever. Left out: chat, raised hands,
captions, switching microphone, camera or screen on and off, and a page that joins a
second time while it still waits for the microphone, whose first socket then stays
open beside the second.

### Voice sessions (`VoiceSession`)

| Code (`transport/websocket/handler.py`, `adk/session_manager.py`, `transcription/handler.py`) | Actions |
|---|---|
| `initialize`, before and after it loads the chat history; `_start_core_session` | `Connect`, `initialize`, `start_core_session` |
| `upstream_task` | the same name: a typed message |
| `downstream_task`, `process_event` | `run_live`, `InputTranscription`, `AgentSpeaks`, `Interrupted`, `TurnComplete` |
| the end of either task | `Ends` |
| `finalize` | `flush`, `wait_for`, `end_core_session` (both with `persist`) |

`transcript`, `adk`, `clips` and `memory` are the entries of the process-wide
dictionaries under the session id. A message is the connection that recorded it and
its number. The clip queue is modelled as registered and unregistered, as when clip
tools are configured. `overlapped`, `broken`, `last`, `history` and `recorded` are
history.

### Course knowledge base (`CourseKb`)

| Code | Actions |
|---|---|
| `createContentForTeacher`, `ModuleContentService.create` | `create` → `CreateWrite` (→ `queueKbIndex` for the administrator) |
| `updateContentForTeacher`, `ModuleContentService.update` | `update` → `UpdateWrite` (→ `UpdateReread` → `queueKbIndex`) |
| `deleteContentForTeacher`, `ModuleContentService.remove` | `remove` → `RemoveWrite` (→ `queueKbIndex`) |
| `deleteModuleForTeacher`, `CourseModuleService.deleteModule` | `deleteModule` → `DeleteModuleWrite` |
| `deleteCourse` | the same name |
| `index_content` | `IndexNothing`, or `IndexClear` → `IndexPut` per batch |
| `delete_content`, `search_course`, `_cache_set`, `_cache_get` | the same names; `CacheExpires` |

`req[r]` is a request between two awaits, with what it read in `seen`; `job[r][c]` is
the call it made to the voice agent about content `c`. Requests are numbered in the
order in which they start. Jobs run in any order and at any time after they were asked
for. `JobFails` stands for the call that does not arrive, the download or a request to
Qdrant that fails, two jobs that race to create the collection, and a restart of the
voice agent, which loses its jobs; `Abort` for a handler that dies. An item is the type
and URL of a content: a file that can be indexed, or anything else (`Plain`).
An update gives both type and URL or, changing only the title, neither, or `url: null`
(`NoUrl`), which `UpdateModuleContentDto` admits, with the type as it is. The row then
loses its URL, but both handlers go on with the old one (`??`, `course.service.ts:308`,
`module-content.service.ts:122`): the teacher's has the old file indexed again, and the
administrator's deletes nothing and makes at most a call without URL, which the voice
agent refuses (`file_url` of its request is a `str`). An empty string is `Plain`.

`settled` and `alone` are history: a content is settled as long as no two requests
about it met and none of them failed or died after its write, and becomes settled
again when a request that met no other has been carried out to its end. They say
exactly under which circumstances the knowledge base can be relied on. Left out:
titles and positions, uploads, the search over all courses of a student, and the
creation of a collection, which every write and every search makes sure of.

## 3. Runs

`CHECK_DEADLOCK FALSE` in every configuration: the systems stop when the bounds on
requests, connections or incidents are used up, when an exam or a class is removed,
and when nobody asks for anything.

**Exam engine.** All runs of `MCExam` have a paper of one MCQ and one essay of one mark each and a
passing score of 50, so either question alone passes. The creator's patches change
the attempt limit only; the page's run has the patch that publishes.

| Run | Question | Instance | States |
|---|---|---|---|
| `exam_overlap` | what can no interleaving break? | 2 students, 3 requests, all of which may overlap, two kinds of violation, an open window | 0.84 M |
| `exam_serial` | what holds when requests do not overlap, although they may die half-way? | 2 students, 1 request at a time, 4 in all, limits 1 and 2 | 1.7 M |
| `exam_page` | do page and engine agree, whatever is late, lost or stale? | 1 student, 2 calls at a time and 3 handled, 2 incidents, 1 failure; two exams, below | 1.5 M |
| `exam_lost` | a violation, see section 6 | 2 students, 2 requests at a time | |

The bounds are `MaxRequests` (requests that pass their checks) and the sets of
the instance. Three reports meet the auto-fail threshold
(`HIGH_VIOLATION_THRESHOLD` = 3); the four requests of `exam_serial` leave one
before, among or after them. Two submissions exceed a limit of 1 and three a limit
of 2. The three requests of `exam_overlap` show every overlap of reads and writes
of two students, or of two and the creator; the proofs of section 5 carry the same
properties to any number. Symmetry permutes students and slots, which no definition
tells apart; no run with liveness uses it.

`exam_page` has an exam without a schedule, which may be taken twice and which
cheating fails, and a draft whose window is open, which is published during the run,
may be taken once and which cheating does not fail: the window may close while a
submission is on its way, and the list may be older than either. Two incidents make
up to four reports, one more than the threshold. Not explored: a page that read
`autoFailOnCheat` before the creator changed it.

**Live classes.**

| Run | Question | Instance | States |
|---|---|---|---|
| `live_room` | are rows, announced peers and map right, however sockets come and go? | 2 users, 2 sockets (one each, or both of one user) | 1.1 M |
| `live_call` | do the pages connect, and does an ended class empty? | a teacher and a student; the teacher ends the class, or may reconnect; liveness | 35 K |
| `live_late` | a violation, see section 6 | the same | |
| `live_panel` | a violation, see section 6 | as `live_room` | |

Two sockets of one user are what two connections at once need; every property of
`live_room` is about one user and one or two sockets, and is proved for any number.
Calls are between the teacher and one student each, and calls of different students
share nothing on either page, so `live_call` has one.

**Voice agent.**

| Run | Question | Instance | States |
|---|---|---|---|
| `voice_session` | what survives when a client comes back early? | 2 connections, 5 messages, a memory of 2; liveness | 0.26 M |
| `course_kb` | does the knowledge base follow the rows, and a search the knowledge base? | 1 content, 1 module, 3 requests, 1 failure, files of two batches, one and none, 1 search thread; liveness | 0.49 M |
| `sip_stop` | do teardowns, ended calls and `stop()` come to an end while calls start, run and end, and is nothing left? | 2 calls, 1 RTP address, 1 reconnection, liveness | 0.14 M |
| `sip_repeated` | is teardown right whatever is sent again? | 3 INVITEs and any ACKs of one dialog, 3 addresses of 2 hosts, 1 reconnection | 2.6 M |

Five messages are more than twice the memory, so that a transcript is cut and two
overlapping connections have something of their own each; the code keeps 12 turns.
Contents share nothing but the deletion of their module and course, which the one
content meets too; three requests are a creation, a change and a third that meets
either, and two batches suffice to mix two files. Calls share only routes, the session
service and `stop()`, so two of them meet in every way. Three INVITEs of one dialog are what
a second start of an info takes. Three addresses of two hosts allow an address
learned from a learned one, and one that must not be; two of them may be named by an
INVITE. The code reconnects three times; one reconnection has a queue that is opened again
while a teardown is on its way, and the exhausted retry.

**Fairness.** None for the exam engine, its page and the gateway: their properties
are safety. Elsewhere only what runs by itself is fair, and users owe nothing: no
INVITE, ACK, BYE or packet, no connection, message or request is.

- SIP: weak fairness of each task of the event loop: a call's teardown, its agent
  task, its pacing task, and `stop()` once it was called. asyncio's ready queue is
  first-in-first-out and every timer expires, so a step that stays enabled is taken.
  Nothing is assumed of the agent's stream, nor of tasks lost by a second start. The run
  configuration asks for session resumption and context compression
  (`run_config_factory.py:81-94`), so a stream may last for ever.
- `LiveCall`: weak fairness of `System`, all that the gateway and the pages do without
  a user, as one action: they do not stand still while one of them can go on.
- `VoiceSession`: weak fairness of `finalize`, whose two waits end by time-outs of
  five and eight seconds.
- `CourseKb`: weak fairness of `System` (a handler or a job goes on), of the end of a
  search, and of the clock that lets a cached answer expire.

## 4. Properties

**Exam engine.** Whatever requests overlap: `AttemptsWithinLimits` (a stale write never
numbers an attempt past every limit the exam was given), `PassesAreEarned`,
`NoFalseDisqualification` (lost writes hide flags and never invent them),
`FlagsAreReported` (a stale write moves no flag to another student),
`HighFlagsAreAlerted` (an answered high-severity report has alerted the creator
on either path). Behind them `OverlapInvariant`.

Only while requests do not overlap: `AcceptedAreStored`, `AcceptedWithinLimit`,
`AckedFlagsAreListed`, `ThresholdDisqualifies`, `DisqualificationIsPermanent`,
`ImplementsLedger`. Behind them `SerialInvariant`. The last says that every submission,
grade, report, review and disqualification takes effect in one step, on the student it is
about, or not at all (`ExamLedger`). All six fail as soon as two requests overlap, and
overlap is normal: the client reports blur and visibilitychange at the same moment
(`page.tsx:272`, `:344`).

**Exam page.** `NothingIsForgotten` (a page that gave up acting has a reason it can
show), `DisqualifiedForCause` (two reports of one incident never disqualify, the
threshold being three, as long as the student comes back in time),
`TerminationIsRecorded` (the banner tells the truth once everything has arrived),
`DraftsHaveNoSubmissions` (an open window does not open a draft).

**Live classes.** `AttendanceIsExact`, `AnnouncedPeersAreForgotten`,
`DeadSocketsAreForgotten` and
`ImplementsRoom` of the gateway; `CandidatesAreKept`, `PeersConnect`,
`EndedClassEmpties` of the pages. The first two except users whose joins and leaves
overlapped or failed (`disturbed`), and say thereby that nothing else harms them. The
second is about the peers announced by `peer-joined`, for which the page has made a
connection. Of the whole panel, the users named by `room-state` included, it would be
`PanelsFollowTheClass`, which the code does not keep (`live_panel`, section 6).

**Voice sessions.** `ResourcesAreReleased` whatever overlaps; `OnlyOverlapsBreak`,
`CoreGetsTheTranscript`, `MemoryIsOfTheLast` for connections that were alone, the last for
one that also recorded something: a silent one erases the memory (section 6);
`EveryEndIsFinal`.

**Course knowledge base.** `KbFollowsRows` (whole files, of settled contents, while no
request is about them) and `AnswersCatchUp` (a search ends up with the same, past
cached answers and searches under way). A content is not settled, and nothing is claimed of
it, after requests about it met, after a failure, after `url: null` and after a
replacement by a file without text, for in the last two the points of the old file stay
although nothing fails (section 6).

**SIP calls**, whatever is repeated: `TeardownRunsOnce` (the comment at
`server.py:860`: "Atomically pop from tracking dicts to prevent double cleanup"),
`RoutesStayOnHost`, and, of every call that was started once at most,
`ReleasedMeansReleased` (no task, queue or activity survives a teardown, although
a reconnecting agent may open a queue at any time). Behind the first and the last
`TeardownInvariant`. As long as every INVITE opens a dialog of its own:
`TasksAreTracked`, `NothingIsLeftBehind`, `TeardownsEnd`, `StopEnds` and
`CallsEndWithTheirStream` (a call whose agent's stream is over is released, even if the
phone never hangs up). The first two fail when an INVITE is sent again: the new info
replaces the old one in `calls`, and the old agent runs on, out of reach of a BYE,
until its stream ends. Behind them `TrackedInvariant`.

**Proved only.** `AttemptsAreIsolated`, which follows from the ledger, and three
properties that have a theorem and no run of their own. Those are what is safety in the
liveness properties, and are what would have to break first:
`TeardownsGoOn` (a teardown never waits for its own task, nor for one that nobody
cancelled) of `TeardownsEnd` and `StopEnds`, `EndedCallsGoOn` (a call whose end was asked
for is being torn down or still has the agent task that will, once its stream is over) of
`CallsEndWithTheirStream`,
and `MustLeaveStays` (a page that has to leave the class stays one that has to) of
`EndedClassEmpties`. `TeardownsGoOn` needs that no INVITE is sent again: TLC has a
counterexample with one.

## 5. Proofs

All proofs assume only the named assumptions on constants in the modules; the sets of
students, slots, violations, users, sockets, connections, contents and calls are
arbitrary.

`ExamProofs!TypeCorrect`: `Spec => []TypeOK`, one step per action. It needs that
the row a request carries is itself a row, so the type of `req` contains `Row`.

`OverlapInvariant` says that the row *and every copy of it in flight* is sound with
respect to the reports and forced requests made so far. Soundness is monotone in those
(`RowGrows`), they only grow, and a write mixes columns of two sound rows; so each action
needs only that the entry it adds is sound. The invariant of the row alone is not
inductive: a stale copy could be written back. The first five properties of section 4
follow. `DraftsStayEmpty` holds whatever overlaps as well, if no patch sets the status of
an exam to draft (`NeverBackToDraft`): while the exam is a draft nothing was accepted and
no submission is on its way (`DraftInvariant`). That assumption is about the creator, whom
the code lets take a published exam back (`exam.service.ts:195`); the exam is a draft with
submissions then. The attempt at this proof found two arms of a `CASE` in `computeStatus`
that overlapped: TLC takes the first as the code does, the definition did not say so.

`ExamSerialProofs` assumes `Serial` (one slot) and proves `SerialInvariant`: the
columns a request will write are as it read them, attempts are counted, and
answered flags are listed. `AcceptedStayStored`, `AcceptedStayWithinLimit`,
`AckedFlagsStayListed` and the two action properties follow.
`EngineIsALedger` maps the columns of the row to the accounts of `ExamLedger`. A read is a
stutter and a write is the entry, since the columns are as the request read them; what
else a request has checked on the row it read is `AllChecked`. A report that is being
made, and a submission answered after the exam was deleted, are actions of the ledger.
`ThresholdAlwaysDisqualifies` adds `ThresholdInvariant`: it holds of the flags that are
*listed*, and a report that has decided against the auto-fail decided on the list it will
write. That acknowledged flags are listed carries it over to those, by cardinality. It
needs that the auto-fail is not turned on meanwhile (`NeverTurnedOn`): flags that are
there then are counted at the next report only.

`ExamPageProofs`: `PageRunsTheEngine` says that every step of the composition is a step
of `Exam` or leaves `Exam`'s variables alone, so every invariant proved of the engine
holds of it; `PageTypeCorrect` adds the page's own types. `DisqualificationHasCause`
needs a budget: the student's flags, and the reports on their way to become flags, are
never more than two per incident (`Budget`), and a forced failure is only ever sent by a
countdown that expired (`ForcedForCause`, `Countdown`). With at most one incident there
are two flags at most, one less than the threshold. `TerminationStaysRecorded` follows
from `RecordedInvariant`, which says where the disqualification that the banner speaks
of is while it is not yet in the row.

`LiveProofs` proves types, map, attendance and, as `AnnouncedAreForgotten`, that announced
peers are forgotten, from `IInv`: what each socket's
handlers have done and still have to do (`SocketsSound`), and, of undisturbed users,
that at most one of their sockets is active, that it is in the room while it joins, and
that the row says present from the save on and until the mark (`UserSound`).
`Refinement`: under the mapping of section 2 every action of the gateway is `Enter`,
`Announce`, `Leave`, `Farewell` or a stutter of `LiveRoom`.

`LiveCallProofs` proves types and `CandidatesStayKept` together (`CallInvariant`): a page
that is connected has a socket, and a connection that becomes stable empties its queue.
`PagesRunTheRoom`, under the identity, says that every action of the class is an action of
the room or a stutter of it; with `Refinement` this joins the two halves of a live class.
`NoticesAreNotLost` proves `MustLeaveStays` from `SocketsAreOwned`, that no two pages have
the same socket: what another page receives or loses is not in this one's inbox. A step
only appends to an inbox, takes its head, or empties that of a page that goes down
(`InboxStep`), and the head, when it is the notice, starts the timer.

`VoiceProofs` proves the types and four properties from `SessionInvariant`: an active
connection that never overlapped is the only active one, the transcript is then exactly
what it recorded, and the stage says which shared entries still exist. `Remembered` is about
connections that recorded something, as its property is.

`CourseKbProofs` proves `KbFollowsRows` from `KbInvariant`. A request is `Trusted` with a
content it works on if the content is settled or the request met no other. Then nobody
else works on the content (`Solitary`), the row is as the request read it or, once it has
written, as it wrote it, and what it asks for, or has asked for, leads to what the row
says (`TrustSound`, `Fits`: of a file being indexed exactly the batches put so far are
stored). A settled content that no request has written yet is as its row says (`Kept`).
`KbFollowsRows` alone is not inductive: it says nothing while somebody is at work. One
lemma says what a new request does to trust (`StartKeeps`), one what a step of a single
request about a single content does (`StepKeeps`), and the actions are instances of
these, but for the deletion of a module, which is about many contents at once, and
`Abort`.

`SipProofs` proves `TypeCorrect`, `ReleasedStaysReleased`, `TornDownOnce` and
`RoutesAreOnHost` for any calls, infos, addresses and retries and any repetition.
`ReleasedStaysReleased` speaks of the calls that were started once at most, whatever other
INVITEs and ACKs of the same dialog are repeated; of an info started twice it says nothing,
for there its first task and queue do outlive the teardown.
`TeardownInvariant` adds to
the types what makes them inductive: a tracked info is one whose teardown has not
begun, an info being torn down is inactive with its queue closed and a streaming
agent cancelled (so it cannot reconnect) unless a lost agent task runs the teardown, and
the stage of a teardown says which tasks are over. Every action but `_handle_invite`,
`Terminate` and `Teardown` changes one info and leaves tracking and teardowns alone (`OneInfoStep`);
`TerminateStep` and `TeardownStep` rest on `ProceedSound`, about a teardown that
runs as far as it can.

The other four assume that no INVITE is repeated, which is what the code relies on without
checking it (`server.py:289`). `TrackedInvariant` then says that an info whose teardown has
not begun is the one `calls` has, so that `RunningTasksAreTracked` follows; that a session
belongs to a call whose teardown is not over, and a stored transcript to a tracked call
whose handler will finalise it, so that nothing of a finished call is left
(`EverythingIsCleanedUp`). `NoTeardownIsStuck` and `EndedCallsAreNotForgotten` follow from
`WaitingInvariant`: the task that runs a teardown is the call's own or none, whoever
makes a teardown wait for a pacing task has cancelled it, and a call that has started keeps
its session until its teardown is over, so that no info is started twice (`StartedOnce`,
which `RunningTasksAreTracked` needs too).

Only model-checked: the liveness properties (`PeersConnect`, `EndedClassEmpties`,
`EveryEndIsFinal`, `AnswersCatchUp`, `TeardownsEnd`, `StopEnds`, `CallsEndWithTheirStream`),
which are out of the prover's reach; of four of them the safety half is proved, as above.
Every invariant and every action property of a passing run is proved. No definition is
recursive.

## 6. Where the code and its documents disagree

| Run | Says | Does |
|---|---|---|
| `exam_lost` | "Results tracked per student" (`docs/FEATURES.md:98`) | two students submit at once; the later write restores the attempts as it read them, and one accepted submission is gone |
| `live_late` | "Student joins the live session with audio/video via WebRTC" (`docs/test_cases/SmartEdX_Test_Cases.csv:63`) | only `peer-joined` makes the teacher's page offer a connection, so a teacher who enters, or comes back, after a student never calls that student |
| `live_panel` | "Participant count updates instantly as students join and leave the session" (`docs/test_cases/SmartEdX_Test_Cases.csv:46`) | `room-state` names the present users without their sockets (`live.gateway.ts:107-115`), the page counts them, and `peer-left` takes entries out by socket id (`LiveSessionContext.tsx:315-319`): who was there before a newcomer stays in the newcomer's panel for good |

Seen with TLC in variants of these runs and not kept as runs of their own:

- Exams. Overlapping reports overwrite each other's flags and undercount ("Auto-fail
  when 3+ high-severity violations detected", `docs/FEATURES.md:106`); a late third
  flag replaces a submission ("Only auto-fail if not already failed or submitted",
  `exam.service.ts:489`, where only "already failed" is checked); grading a question
  again adds to the score ("teacher can accept or change the score", test case TC031);
  a disqualification can be taken back by a stale submission and more submissions than
  the limit are accepted; `forceAutoFail` can overwrite a submission that is written
  while it looks the user up (comment at `:582`); grading a disqualified attempt can
  make it passed (`:419` against the comment at `:296`); a submission before
  `scheduledAt` is accepted (`:288-290`); `tab_switch` and `copy_attempt` are high in
  the code and medium and low in `docs/FEATURES.md:114,116`.
- Live classes. A user whose second socket is disconnected while the first is in class
  is marked as having left (`markLeft` is per user); a connection lost while its join
  is being saved leaves the row present. A newcomer's `room-state` replaces what its panel
  had: whoever was announced to it after the list was read, and before the list is sent,
  is missing from its panel.
- Voice sessions. `finalize` replaces the memory by the last turns of its own
  transcript, so a connection on which nothing was said makes the agent forget what
  was said before, although the memory "survives WebSocket disconnects so the agent remembers
  what was discussed" (`session_manager.py:26-28`).
  A connection that comes back before the old one is finalised loses its transcript
  to it, and dies or goes unrecorded. A Core session whose start takes more than five
  seconds is abandoned unended.
- Course knowledge base. After `url: null` the old file stays searchable, although its row
  names none and nothing failed, and removing the content or its module afterwards does not delete
  it, the row being of no file by then ("No longer a PDF/DOCUMENT — remove from index",
  `course.service.ts:332`). A file replaced before or while its predecessor is indexed
  ends up mixed with it, although "deleted first so re-uploads remain idempotent"
  (`course_kb.py:307`) suggests otherwise; a content created while its module is
  deleted leaves its points behind; a replacement file without text leaves the points
  of the old one. `deleteCourse` never deletes the collection, although
  `course_kb.py:434` says "Call this when a course is permanently deleted so no orphan
  data remains", and nothing calls it.

Seen in the SIP server, where nothing in the repository says otherwise and no run
claims it: a repeated ACK makes `create_session` fail and terminates the running
call (`server.py:467-506`); a repeated or refreshing INVITE replaces the info of a
running call (`:289`); after the ten seconds of draining the pacing task swallows
the cancellation, `wait_for` raises nothing, and no BYE is sent (`:699-703`); an
INVITE without an ACK is tracked for ever; learned RTP addresses are never removed
(`:401`), so a later call's audio may be routed to an ended one and dropped; a call
accepted while `stop()` terminates others is left as it is (`:210`); after the server's own
BYE (`:743-745`) nothing closes the agent's queue or cancels its task, so the call
stays tracked, with its tasks and session, for as long as the stream lasts; and of an info
that is started twice (section 2) the first transcript, queue, Core session and tasks are
out of reach of every teardown.

## 7. Not modelled

Parts of modelled components are named with their modules in section 2. Of the rest:

- Payments. Nothing ever stores a `payhereOrderId`, so `handleNotify` finds no
  subscription whatever PayHere sends, and there is no order of events to explore; the
  plan changes when the page's own `onCompleted` asks for it, and the "Payment
  received! Your plan will be updated shortly." of the billing page (`:641`) is not
  followed by an update. Subscriptions, users and institutes are single writes after a
  check: two at once may insert twice (`createSubscription`).
- Recordings with questions, and the assessments of `course.service.ts`, keep all
  students' attempts in one column and write it back as it was read: `Exam` has that
  pattern with everything that can be built on it, and `exam_lost` shows its weakness.
- Messages and notifications: one insert and an emission to the sockets connected now.
- The response cache: entries of six minutes, deleted by the same user's writes. Its
  staleness towards the exam page is in `ExamPage` (`listed`); a cache with a lifetime is
  in `CourseKb`.
- Chats of the AI core: synchronous calls to Qdrant; the pages save whole chats.
- Transports, parsers, codecs, prompts, the AI and face services, the gateway, the
  other pages and the deployment keep no state whose order matters, or pump data.

## 8. Plan

1. An abstract specification of a call (offered, active, released) that `SipServer`
   implements, with its proof.
2. More proofs: that the pages of a class never both offer, and that no candidate is lost;
   the safety halves of `EveryEndIsFinal` and `AnswersCatchUp`.
