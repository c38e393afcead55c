# Bali, specified

TLA+ modules that model the core of Bali, TLC runs over small instances of them, and proofs TLAPS checks of
what matters most for every instance. Bali: a student taps their phone on a teacher's block, the phone locks for
the lesson, an Emergency Unlock is never refused, and the teacher sees who is in, who is unlocked and whose
phone has gone quiet; asks questions, and shows slides.

## 1. The system

| component | state it keeps | operations | who it talks to |
|---|---|---|---|
| **Transition engine** `packages/db/src/transitions.ts` | Postgres rows: sessions, participations, events (append-only), armed_taps, enrollments | startSession, extendSession, endSession, expireDueSessions, markSilentParticipations, tapIn, armTap, unlock, unlockUnderTap, changeUnlockReason, refocus, protectionOff/On, checkIn, joinClassByCode, endEnrollment, deleteAccount | one transaction per call; advisory lock per tap, row lock per student and per session |
| **Routes** `apps/api/src/routes` | none | validate, authorise, read the clock, call the engine; `taps.ts` calls it up to three times | phones, portal |
| **Sweep** `apps/api/src/sweep.ts` | none | every minute: expire, mark silent, clean up decks | engine, bucket |
| **Phone outbox, sync engine, standing** `android/outbox`, `ios/BaliOutbox` | a file of queued records, the standing the lock follows | record, send, settle an answer, refile what waits under a tap, reconcile a read | tap and session routes |
| **Live stream** `apps/api/src/sse`, `apps/web/src/lib/sse-client.ts`, `live-grid.tsx` | the settled point, a stream per tab, the tab's cursor and grid | follow events by seq once no older writer is open; resume; refresh | engine's rows |
| **Questions and answers** `transitions.ts`, `routes/questions.ts`, `live-question.ts`, `student-web.ts` | questions, responses; what a window or a page holds | open, close, answer, read, poll | engine's locks, the stream |
| **Slide decks** `transitions.ts`, `routes/decks.ts`, `lib/decks.ts`, `use-slide.ts` | decks, the bucket's files, what a session shows | upload, check, remove, sweep, show | the bucket, engine's locks, the stream |
| **Report, recap** `packages/shared/src/report.ts`, `recap.ts` | none (folds) | minutes per state from a session's events | events |
| **Schools, management, Cognito deletions, portal** | single rows, a work queue, HTML | | |

How a record travels: the phone writes it to its outbox with an event id of its own and, on newer builds, an
order *(install, seq)* (A12); it sends it until an answer settles it. The server takes the locks, reads, decides
and writes one batch of event rows with the change of participation, or refuses. Nothing bounds how late, how
often, or in what order records arrive. What is committed reaches the teacher's tab by the stream, which follows the
events by seq though seqs are given out before they commit.

Hard behaviours, each a row of `hazards` in `PROJECT.json` with the line where it bites:

* records out of order and twice (a refocus made before an unlock, arriving after it, would lock the phone of a
  student who unlocked; an older tap would take them back to the class they left);
* the tap's route picks its session with no lock, and meets the end of the lesson, a removal or a Start before
  it gets one;
* one student, two lessons: taps and Starts that join must end the stint elsewhere in the same transaction;
* bells: extend against sweep against Start, each with a clock read before its locks;
* silences that any contact must close, or no later one is ever recorded;
* an unlock that reaches the server before the tap it was made under;
* deletion and removal with requests still under way;
* phones with wrong clocks, or with no numbering at all;
* the app killed at any step, answers lost or late, reads of the server's truth that cross a change;
* rows that commit behind a stream that has read past their seq; connections lost, processes restarted, refreshes
  older than what the stream brought;
* answers, closes, reads and events of one question that arrive in any order at a window or a page;
* uploads still on their way after a removal; deletes refused or cut short.

What makes each component correct:

* engine: one lesson at a time; no one in a lesson that is over or of a class they are not in; the live state
  is what the event rows say; the newest action of the student stands whatever the order of arrival; every
  unlock recorded; a retry changes nothing; silences in pairs;
* phone: no unlock is lost, and none is undone by what the phone hears, reads or comes back to; its queue drains;
* stream: nothing lies unsent behind a cursor, nothing is applied twice, everything is told;
* questions: the newest answer of a student stands, the same question is not asked twice, final counts are final;
* slides: a deleted file stays deleted, what is shown is there to be shown, nothing is left behind;
* report: it moves a student exactly where the engine did, and agrees with the recap.

## 2. The modules

| module | what it is |
|---|---|
| `History` | the events rows and what the engine's queries make of them: `Clamp`, `After` (the order by which the newest is taken), `Turns`, `MadeSince`, `TappedSince`, `ReturnedSince` |
| `Engine`, `EngineProps` | the engine, the routes that call it and what phones record; its properties, and the refinement mapping to Attendance |
| `Attendance` | the abstract specification: lessons open and close once; a student is nowhere or in one open lesson |
| `Readings` | a chip of the grid by snapshot and by stream, the report's walk and the recap, as readings of Engine's rows |
| `Outbox` | the phone's file, as operators over its value: record, file, settle, refile, which row may go |
| `Phone`, `PhoneProps` | one Android phone in front of `Engine`: sync engine, network, crashes, reads |
| `Feed`, `FeedProps` | the events table under concurrent writers, the settled point, one stream, one tab and its grid |
| `Delivery` | the abstract specification: every event the lesson comes to show is told |
| `Lesson` | questions and one student's answers on the server |
| `QuestionCard`, `LessonPage` | a teacher's window on the question; a student's page |
| `LiveLesson`, `LessonProps` | their composition, and its properties |
| `Decks` | decks, their files and what a session shows, on the server |
| `Upload`, `SlideCard` | a page's upload; a teacher's window on the slide |
| `Slides`, `SlideProps` | their composition, and its properties |
| `MCEngine`, `MCPhone`, `MCFeed`, `MCLesson`, `MCSlides`, `*.cfg` | constants for TLC |
| `Engine_proofs`, `Records_proofs` | proofs about the engine: types, attendance, bells and the refinement; records |
| `Picture_proofs`, `Taps_proofs` | proofs about the engine's logs: what the rows tell, and whose order decides |
| `Feed_proofs`, `Lesson_proofs`, `Slides_proofs` | proofs about the feed, a lesson's questions, and the slides |
| `Phone_proofs` | proofs about the phone's file, and about a phone in front of the engine |

### The engine

**State.** `sessions`, `enrolled`, `deleted`, `parts` (participations, by student and session), `log` (events, by
student), `armed` are the tables. `written` numbers the transactions that wrote to a student's log; a row's
`(tx, place)` is its `seq`, the place being where in its transaction the row is written. `made` and `install` are
the phones: the records made, in order, the index being the event id and the seq. `asking` is the tap request the
server works on, between its steps. `now` is the server's clock.

**Actions.** One per engine operation, with everything its transaction writes. The operations of one student are
operators that return what the transaction comes to (`rows`, `parts`, `armed`, `answer`), and `Commit` applies it:
`Reach` runs `Unlock`, `ChangeReason` or `ChangeState` of a record; the tap's route is `AskTap` (the read without a
lock), `TapLands` (tapIn), `TapRereads` (the second read, when the student was found out of the class) and
`TapArms` (armTap). `Start` ends what is past its bell and converts every waiting tap of the class; `Extend`,
`End`, `Sweep`, `MarkSilent`, `CheckIn`, `JoinClass`, `LeaveClass`, `RemoveFromClass`, `DeleteAccount` are the rest.

**Abstractions, and what they cost.**

* A tick of the clock is at least the silence threshold (90 s), so a live phone not heard from since the last tick is quiet.
* `Lag`: a request reads the clock before its locks; a transaction may use any time in `now - Lag .. now`.
* A phone names any session it has a row in, and unlocks under its last tap: more than its screens allow, so
  what holds here holds of them. It has one tap request in flight at a time, other records any number.
* A record never leaves the phone, so any answer may be lost and any record sent again, for ever.
* Requests whose student is deleted or removed go on, and find it under their locks.
* The retry of an extend or a rename, which changes nothing, is a stutter. Reasons and their text, names, tags and
  push notes are left out; the block of a tap is its teacher.
* tapIn's replay reads the recorded session and the stint there with no lock. The model reads both at once: a lesson
  ending between the two reads is not covered.
* Deadlock retries (`transitions.ts:224`) run a transaction again from its start, which is the same step.

### The phone

`Phone` puts one phone in front of `Engine`: a request is one of the records in `made`, and what the server answers
is what the engine's transaction answers. `file` is what the outbox has written and survives the app; `app` is what the running app
knows; `call` is the send under way, `wire` what may still reach the server, `look` the read under way. `turn` is history: the
student's newest act, the lessons begun by then, and whether the phone knew where it stood (`sure`).

* Where the phone stands is written to the file only where it is not what was kept last (`SyncEngine.kt:822`), and that write files what
  waits to be filed. `app.kept` says whether it was: it is false after a launch that read less than the whole file, or found an unlock
  not filed, until the first step of `run` (`RefreshQueue`). A pass of the drain with nothing due writes nothing.
* A crash loses `app`, `call` and `look`; a request on the wire may still be served. A copy sent again is the copy on the wire. An answer
  settles its record, ends a wait and keeps the standing in writes of their own: `KilledHearing` is the app killed between them.
  A write of the file never fails, but a launch may find the file unreadable (`unread`) and stand blind until it is read.
* An answer names the bell as it was when it was given (`call.ends`); an extend since is learnt by a read.
* A read of the truth is `GET /v1/me`, two queries with no lock between (armed taps, then the session), or a check-in. It carries whether
  `readMayReconcile` would still take it: nothing waited for an answer as it was sent, and no change was made or answered since. A
  check-in is contact, which closes a silence; no sweep marks one here, so it writes nothing.
* A block taken away (`unknown_block`) may stay away: each try of a record already stuck on it may be refused, at no cost of a fault.
* Faults (a crash, a lost answer, a lost read, an unreadable file, a first refusal of a block) are bounded by `MaxFaults`.
* The lock itself (`Enforcer`) is only that protection is found off or on; cards, reasons picked later, classes and sign-outs are left out.
* `RefocusAfterUnlock` is of the newest unlock made before a return. An older one may stay behind: a scan or an unlock supersedes the queued
  returns and with them what those waited for, and a return made later waits only for the newest.
* `UnlockStands` leaves out what the code decides otherwise: an unlock the server keeps in no session (`KeptApart`;
  `docs/DECISIONS.md:14436-14445`), one whose tap is stuck and joined no class (`Adrift`), one made under a tap where the phone stood unread.

### The feed

`rows` is the events table by seq, given out at the insert; `writes` the transactions that write it. `cursor` is the process's settled
point with what waits for it (`settled.ts`), `stream` the hub's state for the tab, `wire` the frames on their way, `tab` the
client's cursor, `grid` what it draws, `snap` the snapshot being read. `heard` and `told` are history.

* One tab's stream is modelled. The settled point it shares with other tabs' streams and reads: `Others` says whether they ask for it too. The
  theorems hold either way; the run has `Others = FALSE`, with which it is half the size (with `TRUE` it passes as well, 335,224 states).
* One snapshot is in flight at a time. A page is read and written in one step: what a drop loses, it loses after.
* A doorbell that rings during a read makes another follow it; here it rings when that read has ended. The doorbell and
  the re-poll are one action, `Wake`. A snapshot that waits for a fresh point reads on as if it had asked then.
* `Kinds = {"left"}` in the run: rows written under no lock of the lesson's, the most permissive way to write them;
  rolled-back rows stand for seqs other lessons took.
* What a chip says is in `Readings`; here a chip is the set of events it tells.
* An older server's snapshot without a settled point, the cap on a teacher's streams and malformed frames are left out.

*Seen while modelling, not a property.* `snapshotIsFresh` (`grid-state.ts:146`) compares the newest seqs alone.
`endParticipationsElsewhere` writes `left_for_other_session` into a lesson without that lesson's lock
(`transitions.ts:405-455`), so it may commit ahead of an unlock with an earlier seq; a snapshot read between the two, landing
after the stream brought both, passes for fresh and takes the unlock off the grid until the next refresh, where
`grid-state.ts:140` says no refresh rolls the grid back. `GridCatchesUp` says that the next one brings it again.

### Questions and answers

`Lesson` is the server: `questions`, `responses` (of one student), `log` (the events of questions). Each transaction is one step, at an instant
its route read before it took its locks. `QuestionCard` is `useLiveQuestion` with its poll and its stream; `LessonPage` is
`followLesson` and `picker`. The two know of each other through the server alone, so `LiveLesson` has one scene of each: a
window with the student's devices and other windows about it, and a page with the teacher's windows about it.

* Words, options, the correct one and its reveal are left out. A poll is its begin and its question's read at once; a read that fails is a slow one.
* A request whose window has stopped waiting stays in `asks` or `closes`: it may land late, or never.
* The stream brings every event from the mount on: `Feed`'s promise, for which the window relies on `EVENT_RESUME_OVERLAP`
  (`packages/shared/src/index.ts:21`). A window's reload is not modelled; the enrollment the routes ask for is Engine's.
* The bell does not move. An extension by a clock read before the bell, committed after two polls past it, would leave
  a poll "final" over an open question; `FinalCounts` asks only of closes on record, as `routes/questions.ts:287-289` does.
* Two questions closed at one instant are ordered by their opens, not by which was asked last (`queries.ts:323-328`);
  `ShownIsLastAsked` leaves that tie out. An ask's late reply can bring back a question put away by Done, closed.

### Slides

`Decks` is the server and the bucket: a transaction that holds its deck's row to its end is one step; a slide change, whose hold is
shared, is two (`HoldsShow`, `showSlide`), and so is what is done outside transactions: the check and its verdict, a delete and its
stamp. Instants are counted down: a deck's fields say how many are left until no upload can write its file
(`writable`), until the sweep rejects it (`limit`), until a failed delete is tried again (`wait`).

* A PUT is the time it may still land in: at any instant while its limit lasts, more than once, whether or not the page still waits.
* A create's answer comes with its commit, or is lost. A create that lands after its deck was removed or checked makes another deck
  (`docs/DECISIONS.md:8736-8740`), which `NoLeftovers` says the sweep cleans up.
* `Writable >= UploadLimit + Slow`: 30 minutes against 25 and the time from the route's clock to its commit
  ("the margin covers the commit between", `routes/decks.ts:215-216`).
* `running` is one flag for the bell and the end. A show that holds its locks may be written past it; requests that read the clock before
  the bell and take their locks after it are left out.
* A late extension (its clock read before the bell, committed after a removal judged past it) lets a running session's row
  name a removed deck; `presentationNow` then answers no slide. The session's bell does not move here, so no run shows it.
* Titles, lengths, pages, downloads and drawing, a student's page of the slide and the two turns of checks are left out; a refused upload started afresh is another upload.

## 3. The runs

TLC is told not to report deadlock: time, records and sessions are bounded, so an instance stops.

| run | instance | properties |
|---|---|---|
| `turns` | one lesson, one numbered phone, 4 records of seven kinds | `NewestActionStands`, `PictureExplained`, `RecordedOnce`, `KeptUnlockFiled`, `AnswersNameTrueSessions`, `ChipMirrors` |
| `moves` | two teachers' lessons, 2 records (taps, protection off in a lesson or after it), ends | `LessonsApart`, `LastTapDecides`, and `Attends`: Engine implements Attendance |
| `silence` | a phone with no numbering and a clock that may be behind, 2 records, extends to the cap | `TypeOK`, `SilencePaired`, `ReportFollows`, `RecapAgrees`, `BellMovesLater` |
| `accounts` | join, leave, delete, reinstall, 3 records | `LiveIsEnrolled`, `DeletedLeavesNothing` |
| `liveness` | `LiveSpec`: taps, unlocks under them, a removal, extends, clock lag 1 | `EveryLessonOver`, `EveryUnlockRecorded`, `EveryTapAnswered` |
| `phone` | one phone, 3 records, 1 fault: a kill, a busy server, a lost answer or read, an unread file, a block gone; protection off and on | `UnlockStands`, `UnlockKept`, `RefocusAfterUnlock`, `LastActStands` |
| `phone_live` | `PhoneLive`: 2 records, 2 faults: kills, with the call on its way, unread files, lost reads, a block gone for a while or for good; check-ins | `QueueDrains`, `Converges` |
| `feed` | 2 rows, 2 writers, pages of one, one place to wait in, 1 fault | `SettledSound`, `NothingBehind`, `HeardOnce`, `GridCatchesUp`, and `Delivers`: Feed implements Delivery |
| `lesson` | 2 questions, 3 acts, a bell, the clock of an ended lesson standing still | `ShownIsLastAsked`, `NewestPickStands`, `AskedOnce`, `FinalCounts`, `AnswerNeverGoesBack`, `CardCatchesUp`, `PageCatchesUp` |
| `slides` | 2 decks, 2 creates, 3 acts, 1 fault | `FilesFollowDecks`, `NoLeftovers`, `SlideCatchesUp` |
| `armed_unlock` | violation expected | `EveryTapUnlockFiled` |
| `phone_replay` | violation expected | `UnlockOutlivesLesson` |

**Why the bounds are enough to be worth running.** Students share nothing but sessions and their class's rows: no
operator of `Engine` reads one student's rows to decide another's, so a second student adds interleavings and no new
case. Two sessions are what a move, a Start past a bell and a late tap need. `turns` has four
records so that protection off, an unlock, protection on and a late return meet; what the phone has made may reach the server
in any order and any number of times. `Doings` names what people do, and what goes wrong, in an instance: the kinds a question does not touch are left
out of it to let the others go deeper. Three records at the phone are a tap, an unlock and a return, a fault a crash, an answer lost or a launch that finds the
file unreadable, at any of their steps; two at `phone_live`, as an unlock
made where the phone stood unread is filed late only after a second launch. A clock read before a wait (`Lag`) is in `liveness`; what it may do to a bell is proved for every lag
(`silence`, which checks `BellMovesLater`, has one clock, and makes no protection on and no leave, so `RecapAgrees` is checked of unlocks and silences). Two rows of the feed are one that commits behind another; pages of one and one place to wait make every
read and every look run over. In the two scenes of `slides` the faults are the upload's; two creates are a retry and the
one it retries, and 2 decks one made past the first's removal. `PendingLimit` of one instant is harsher than the code's 24 hours, which no upload outlives.

**Fairness** (of the temporal properties' specifications only). `LiveSpec` of `Engine`: the clock runs; the sweep of a due session is run, since it starts every minute and
a failed run is tried at the next tick (`sweep.ts:48-93`); a tap request the server took goes on to its answer; a
record a phone made is sent until it is answered, the outbox's promise, which `QueueDrains` checks. `PhoneLive`: the app is started again, works through its queue,
reads at its wakes, and is served in the end; nothing of the bell or the sweep. A record not stuck is sent if it could be again and again (`SendPending`): a
stuck one backs off between its tries (`Outbox.kt:347-353`), and the drain's next pass goes at once to what is due. `LiveSpec` of `Feed`: transactions end, looks and re-polls come, the tab reconnects and
refreshes every 15 s. `LiveLesson` and `Slides`: a window's reads and polls are repeated and its stream resumed; time passes, the sweep runs, the server ends what it
holds and began. Nothing is assumed of the teacher, of the student, or of which answers are heard.

**What the violations say.**

* `armed_unlock`: a tap that found no lesson arms just after a Start commits, and then lands by its own retry; an unlock sent
  between is kept as `tap_armed`, which `unlocksAwaitingTap` does not look for, while `docs/ARCHITECTURE.md:552` says a tap landing
  after an unlock sent under it files it.
* `phone_replay`: an unlock recorded after an early end, its answer lost, is sent again, and the replay answers with
  the ended session and the state the stint was left in; the phone takes that for a live participation (`SyncEngine.kt:266-274`) and
  stands focused over its unlock.

*Also seen, no run:* a `left_for_other_session` row belongs to the old session and is stamped with a time clamped to the *new* one
(`transitions.ts:444`), while `schema.ts:250` says every row's time is clamped to its session's window. With a phone's clock ahead, the
recap, which holds times only over rows of coming and going, can draw less focus than the report counts for a student who left.

*An unlock pressed first, no run:* one pressed where the phone stood unread and knows of no tap has nothing to be filed under. A write of the standing files
it where the phone then stands, but `SyncEngine.kt:822` writes only a standing that changed: with the standing since read as out, and a tap scanned after and
refused, it waits unfiled and unsent until the standing changes, something else is recorded, or the app is launched again. Nothing locks the phone
meanwhile. `QueueDrains` leaves out exactly this unlock (`PressedFirst`: in no lesson, and made before every tap of the phone's) and what the server
refuses for good; `Converges` leaves out a phone with a stuck record, each answer of which puts off the reads sent before it.

*A late tap, no run:* "the newest action stands" does not hold of a student who moved between two lessons and back while their records were late.
Tapping B (1), A (2), unlocking in A (3) and in B (6) and tapping B (5) and A (4), recorded as 1, 2, 3, 6, 5, 4 where 5 is late in B for the
unlock, leaves them live and unlocked in A: tap 4, their newest turn there, is late for tap 5, which itself joined nothing (`transitions.ts:2706`
asks for any tap made later elsewhere). `NewestActionStands` says so by `NotOvertaken`, without which it is false of two lessons; the proof found it.

Every property has a mutant in `PROJECT.json`: a plausible slip in one definition (an operator `Name_Slip` beside the
one it stands in for) that makes the run fail.

## 4. What is proved

For every set of students, classes and teachers, every value of the bounds, the lag and the skews, and any number of rows, pages,
questions, picks and decks, from the assumptions on the constants only:

| theorem | module | says |
|---|---|---|
| `Invariance` | `Engine_proofs` | `Spec => []IInv`, the conjunction of the next five |
| `TypeCorrect` | | `Spec => []TypeOK` |
| `NoTwoLessons` | | `Spec => []OneLessonPerStudent` |
| `NoTwoOpenLessons` | | `Spec => []OneOpenLessonPerClass` |
| `NoOneInOverLesson` | | `Spec => []OverLessonHasNoOne` |
| `LessonsKeptApart` | | `Spec => []LessonsApart`, the three together |
| `NoOneInAnothersClass` | | `Spec => []LiveIsEnrolled` |
| `BellsMoveLater` | | `Spec => BellMovesLater` |
| `EngineAttends` | | `Spec => Attends`: the engine implements the abstract specification |
| `NothingTwice` | `Records_proofs` | `Spec => []RecordedOnce` |
| `OneTapWaits` | | `Spec => []WaitingOnce` |
| `NothingLeft` | | `Spec => []DeletedLeavesNothing` |
| `SilencesPair` | `Picture_proofs` | `Spec => []SilencePaired` |
| `PictureIsTold` | | `Spec => []PictureExplained` |
| `AnswersAreTrue` | `Taps_proofs` | `Spec => []AnswersNameTrueSessions` |
| `LastTapJoins` | | `Spec => []LastTapDecides` |
| `KeptIsFiled` | | `Spec => []KeptUnlockFiled` |
| `LastTurnStands` | | `Spec => []NewestActionStands` |
| `FeedTypes` | `Feed_proofs` | `Spec => []FeedTypeOK` |
| `SettledIsSound` | | `Spec => []SettledSound` |
| `NothingIsBehind` | | `Spec => []NothingBehind` |
| `EachHeardOnce` | | `Spec => []HeardOnce` |
| `FeedDelivers` | | every step of `Feed` is a step of `Delivery` or a stutter, and so is its start: the safety half of `Delivers` |
| `LastShown` | `Lesson_proofs` | `Spec => []ShownIsLastAsked` |
| `AskedAgainIsOne` | | `Spec => []AskedOnce` |
| `CountsAreFinal` | | `Spec => []FinalCounts` |
| `NewestStands` | | `Spec => []NewestPickStands` |
| `NeverGoesBack` | | `Spec => AnswerNeverGoesBack` |
| `FilesFollow` | `Slides_proofs` | `Spec => []FilesFollowDecks` |
| `PhoneInvariance` | `Phone_proofs` | `PhoneSpec => []PInv`, what the next four rest on |
| `PhoneKeepsEngine` | | `PhoneSpec => []TypeOK` |
| `PhoneKeepsLessons` | | `PhoneSpec => []LessonsApart` |
| `UnlocksKept` | | `PhoneSpec => []UnlockKept` |
| `ReturnsBehind` | | `PhoneSpec => []RefocusAfterUnlock` |

*The argument.* The five hold each other up. That a tap joins a student only to an open session is `Running`, but that
they are then live in an open session everywhere needs the stint elsewhere to have ended (`OneLessonPerStudent`); that a
removal clears the class's stints looks only at open sessions, so it needs `OverLessonHasNoOne`; a Start that ends "the" session past its
bell needs every open one of the class to be past it, which is `OneOpenLessonPerClass` again; so `IInv` is
their conjunction. Its type invariant carries `Referring`, what the code has by foreign keys: a
waiting tap and a request name a record the phone made, and a `tap_in` row names a session.

The engine's transactions of one student are values (`Handle`, `TapTx`, `ArmTap`...), so the proof has one lemma per
operator, that its result is `TxOK` (rows and stints well-typed, and the stints `Settles`: nobody is newly live but in a session that
is open and of a class they are in, and then nowhere else), and one, `CommitKeeps`, that committing such a result
preserves `IInv`. Steps that touch many students (`Start`, `End`, `Sweep`, `DeleteAccount`) have their own.

*The rest stands on it.* `EngineAttends` uses the invariant before and after a step: a student is in at most one lesson, so
"where they are" is a value, and it is open, so moving there is allowed. A step of one student's is a `Move`, an end is a `Close`, a
Start a `Begin`, everything else a stutter. `BellsMoveLater` needs one more invariant, `Windows`: a started
lesson's window is not empty and, if over, it ended in it; else a clamped time would not lie in the window it is clamped to.
`Records_proofs` shows of every transaction that it writes at most one row that names a record, and only of one not
recorded yet (`FilesOnce`), and of a deleted account that nothing new waits or is ordered; the stints of the deleted are over by
`LiveIsEnrolled`.

*What the rows tell.* `PictureExplained` is almost inductive: what a student's stint is said to be depends on the newest rows of three kinds (comings
and goings, changes of protection, turns), and a transaction's rows are newer than every row before them, if the numbers of
transactions only grow. So `Told` keeps beside it that no row is numbered above `written` (`LogTold`), that a row of
a session is of one that has started, its clamped time in its window, and that a student has a stint only there. `Retold` is
the one lemma on "newest": the newest of the old rows and the new is the newest of the new, where any counts, else the old one. Each
operator that makes a transaction is shown to tell the stint it leaves (`Tells`), a Start for every student of the class.

*Whose order decides.* Every step of one student's log is one of four (`LogSteps`): rows of the server's own; a record that is no tap; a tap with the
unlocks filed with it; the end of the account, which takes every order away. Four invariants are shown of the four. `Numbered`: an order on a
row is the place of some record recorded, so a new record's is none of theirs. `JoinsLast`: of a student live somewhere, some tap there was made
after every tap that joined another. `KeptTrue`: an unlock kept is filed once, with its tap. `Turned`: a return that stands was made after every unlock
before it in the table, one that is late before some unlock or a tap elsewhere; an unlock the same of the returns; and where the student never had a
stint every return is late (an unlock is not weighed there). With the picture above, `NewestActionStands` is
then an argument about one set of rows: the turn made last is late for nothing, and whichever stands newest in the table agrees with it.

*The feed.* `SentInv` says of each place that holds a settled point (the process, the stream, each frame on its way, the tab, a snapshot) that no
row at or below it is to come, and that whoever holds it has been sent every event at or below it, or will have with the frames
before it. That a row is not to come is a fact of the table alone, kept by every later insert (`Awaits`: a look waits for the
writers open then). `OnceInv` is the other half: a tab forgets an event only when the stream will not send it again, since no
line ever resumes from further back than the overlap. `FeedDelivers` needs no more than `SentInv`.

*A lesson's questions.* `LessonInv` is an invariant of the server's rows, one of the window and one of the page, joined by what
any step leaves of the rows (`Grows`): questions and their ids stay, one closed keeps its instant and its answers, no answer goes back. Of the
rows: only the question asked last may be open, and once it is closed it was closed last (`LastClosed`). A close does not hold that by itself, since it
works at an instant read before its lock; it does because a close that waits was sent for the question shown, after every other was closed,
and a question asked meanwhile closes that one first (`CloseOK`). The sort of `findShownQuestion` is shown to have a last by well-founded descent, three times.
Of the window: `AskedOnce` needs what a press that ended without a question knows, that the bell has passed (`Refused`), so that a
fresh id after it opens nothing, whatever request under it is still on its way (`Dry`). Of the page: `FollowsOn`, that a read on its way which is open is of no earlier question than any picked for,
else a pick could be minted below one of the same question sent before another's.

*The slides.* `FilesInv`: a delete, or its stamp, on its way is of a deck that is gone and past its last upload, and a PUT lands while its URL
writes, so no file comes after; a verdict of `ready` on its way is of a file that is still there, or whose deck was removed meanwhile; and what is shown, or about
to be, is ready and kept, which its row's lock keeps while a show waits. It rests on `UploadAssumption`, that an upload's limit
and the time its route takes fit in what its URL writes, as the code's constants do.

*The phone.* `PInv` joins what the file holds to what the phone made and what the server recorded. `Fits`: each record queued is one the
phone made, of its kind and place, and queued once, so that filing again under the next ids names nothing twice. Four facts of the
order of turns (`InTurn`) are inductive only together. `UnfiledLast`: an unlock not filed yet is newer than every return, since a return is made
only where the phone stands in a lesson, and what it keeps there files what waits. `NewestKnown`: the file's `lastUnlock` is the newest unlock, unless that was
given up to the record filed again. By these two `ReturnsWait`: a return finds the unlock it follows in the queue, and filing, refiling and
settling keep the two together. `GoneAfter`: so a return that left the phone, on the wire or recorded, left no such unlock behind.
An answer disturbs all four (`SettleTurns`): it drops a record, files presses again, names the lesson of those under its tap. `UnlockKept` needs the server's half too:
an answer that settles an unlock says that it is recorded (`Serves`, of every transaction that handles a record), and the answer on its
way back stays of that record until it is heard (`CallOK`). The engine's invariant holds on with it, its records now rewritten as
the phone files them. `PhoneAssumption` asks for a teacher whose
block there is to scan, and for `Lag = 0`: in this composition the server reads its clock where it takes its locks; the engine's own proofs are for every lag.

Two of these proofs found an earlier form of their property false beyond the runs' bounds, `NewestActionStands` and `RefocusAfterUnlock`, as
said above. The phone's invariant was run through TLC, on the bounds of `phone` and by simulation past them, before it was proved.

**Only model-checked:** the liveness properties and the fairness in `Delivers` (fairness and ENABLED are out of the prover's reach); the
readings (`ChipMirrors`, `ReportFollows`, `RecapAgrees`), which are folds; and of the phone `UnlockStands` and
`LastActStands`. These two weigh what the phone knows against what the server makes of its records in any order, so they need `NewestActionStands` of the engine
with a phone's records, and the reads on their way beside it; random runs
of 5 records, 2 sessions, 2 faults and one class or two, beyond the run's bounds, found no counterexample in some ten million states each.

## 5. The plan

1. *Done*: the engine and its proofs; the phone; the feed; the readings; questions and answers; slides.
2. The lock order of the engine's transactions, at the grain of single locks (`transitions.ts:224`).
3. Proofs: *done*, that the phone loses no unlock and keeps a return behind it; left, that it undoes none (`UnlockStands`, `LastActStands`).
4. The iOS outbox where it differs from Android's; the queue of Cognito deletions.

**Not modelled, and why:** schools' disposal and retention (bulk deletions whose content is which rows, not when), class
management and invites (single rows behind unique constraints), saved questions (single-row drafts), Cognito deletions (a work queue, after the parts above),
authentication, rate limits, push and analytics (I/O), the portal and the phones' screens (rendering), and the iOS outbox, the Swift
twin of the Android one under the same contract. A teacher's deletion of their account is not modelled.
