------------------------------- MODULE Phone -------------------------------
(***************************************************************************)
(* One Android phone in front of the transition engine: its sync engine    *)
(* (SyncEngine.kt), the outbox it drains (Outbox.tla), and the network     *)
(* between.  The server is Engine.tla itself: a request the phone sends is *)
(* one of the records in made, and what the server answers is what the     *)
(* engine's transaction answers.                                           *)
(*                                                                         *)
(* The app is killed at any step; a request already sent may still reach   *)
(* the server after that, and an answer may never reach the phone.         *)
(***************************************************************************)
EXTENDS Engine, Outbox

CONSTANTS
    Me,            \* the student whose phone it is
    TapCap,        \* TAP_CAP, in ticks: how long an unanswered tap locks
    Recalls,       \* whether turn is kept, the history UnlockStands and LastActStands speak of
    MaxFaults      \* bound: times the app is killed, or a call or a read of it fails

ASSUME PhoneAssumption ==
    /\ Me \in Students /\ Teachers # {}
    /\ Recalls \in BOOLEAN
    /\ TapCap \in Nat \ {0} /\ MaxFaults \in Nat /\ Lag = 0

VARIABLES
    file,      \* what the outbox's file holds
    app,       \* what the running app knows: SyncState and the engine's own
    call,      \* the send under way: the record's id, the answer on its way back, and
               \* the bell the answer names
    wire,      \* requests that may still reach the server
    look,      \* the read under way: GET /v1/me or a check-in
    turn,      \* history: the student's newest act, and the lessons begun by then
    faults     \* history: times the app was killed, or a call or a read failed

phone == <<file, app, call, wire, look, turn, faults>>
allVars == <<vars, phone>>
serverSide == <<now, server, asking>>

Pending == [outcome |-> "pending", session |-> NoSession, state |-> "none"]
NoCall == [id |-> 0, answer |-> Pending, ends |-> 0]
NoLook == [kind |-> "none", session |-> 0, fresh |-> FALSE, stage |-> "idle",
           armed |-> FALSE, truth |-> Out]
NoApp == [up |-> FALSE, standing |-> Out, kept |-> FALSE, blind |-> FALSE,
          reread |-> FALSE, armed |-> FALSE]
NoTurn == [id |-> 0, kind |-> "none", begun |-> {}, sure |-> TRUE]

-----------------------------------------------------------------------------
(* What the engine's state says: SyncState. *)

Seen == IF app.blind THEN <<>> ELSE file.queue

(* The newest tap not answered, if one is. *)
PendingTap(q) ==
    {i \in DOMAIN q : /\ q[i].kind = "tap" /\ ~q[i].stuck
                      /\ \A j \in DOMAIN q : q[j].kind = "tap" /\ ~q[j].stuck => j =< i}
UnlockedSince(q, i) == \E j \in i..Len(q) : IsUnlock(q[j])

(* tapHeldUntil: a pending tap locks until its cap, unless unlocked since. *)
TapHeld(q) ==
    {made[Me][q[i].id].at + TapCap : i \in {k \in PendingTap(q) : ~UnlockedSince(q, k)}}

(* emergencyUnlock: where an unlock made now is filed; none where nothing the *)
(* phone knows locks.                                                         *)
UnlockNow ==
    LET tap == PendingTap(Seen)
    IN IF tap # {} THEN {Change("unlock", 0, Seen[i].id) : i \in tap}
       ELSE IF app.standing.at = "in" THEN {Change("unlock", app.standing.session, 0)}
       ELSE IF app.standing.at = "unread" THEN {Change("unlock", 0, 0)}
       ELSE {}

IsFocusedIn(standing, sid) ==
    standing.at = "in" /\ standing.session = sid /\ standing.state = "focused"

(* keepsUnlocked: the unlock guard, over every read and every answer. *)
KeepsUnlocked(standing, q, sid, after) ==
    ~IsFocusedIn(standing, sid) /\ HoldsUnlock(q, sid, after)
Guarded(standing, q, to, after) ==
    IF to.at = "in" /\ to.state = "focused" /\ KeepsUnlocked(standing, q, to.session, after)
    THEN [to EXCEPT !.state = "unlocked"] ELSE to

(* update: a standing other than the one kept last is written to the file,  *)
(* which files what waits to be filed; the same one writes nothing.         *)
IsKept(standing) == app.kept /\ standing = app.standing
KeptIn(f, standing) ==
    IF standing.at = "unread" \/ IsKept(standing) THEN f ELSE FileUnder(f, standing)
Knows(a, standing) ==
    [a EXCEPT !.standing = standing, !.kept = standing.at # "unread",
              !.armed = @ /\ standing.at = "unread"]

(* run: its loops go round once its first step has kept what was not. *)
Runs == app.up /\ (app.kept \/ app.standing.at = "unread")

-----------------------------------------------------------------------------
(* The student and the lock's check record what the phone does. *)

BackTo(change) ==
    IF file.offFrom # "none" THEN file.offFrom
    ELSE IF KeepsUnlocked(app.standing, file.queue, change.session, 0) THEN "unlocked"
    ELSE "focused"

Begun == {sid \in SessionIds : Started(sid)}

(* recording: the change queued, and where it leaves the phone kept with it. *)
Recording(change, due) ==
    LET id == Len(made[Me]) + 1
        f == IF change.kind = "protection_off" /\ IsFocusedIn(app.standing, change.session)
             THEN [file EXCEPT !.reported = 0] ELSE file
        standing == Acting(app.standing, change, BackTo(change))
    IN /\ app.up /\ id =< MaxRecords
       /\ change.kind = "protection_off" => f.reported # change.session
       /\ file' = Queueing(f, id, change, standing, due)
       /\ app' = [Knows(app, standing) EXCEPT !.blind = FALSE]
       /\ look' = [look EXCEPT !.fresh = FALSE]
       /\ made' = [made EXCEPT ![Me] = Append(@,
             [kind |-> change.kind, session |-> change.session, claim |-> change.tap,
              teacher |-> IF change.kind = "tap" THEN CHOOSE te \in Teachers : TRUE ELSE NoTeacher,
              at |-> now, when |-> now, install |-> install[Me], place |-> id])]
       /\ turn' = IF Recalls /\ change.kind \in {"tap", "unlock", "refocus"}
                  THEN [id |-> id, kind |-> change.kind, begun |-> Begun,
                        sure |-> change.tap = 0 \/ app.standing.at # "unread"] ELSE turn
       /\ UNCHANGED <<serverSide, install, call, wire, faults>>

Scan == Recording(Change("tap", 0, 0), TRUE)

(* pressUnlock: in a session its send is held for the reason. *)
PressUnlock ==
    \E change \in UnlockNow : Recording(change, app.standing.at # "in")

BackToFocus ==
    /\ app.standing.at = "in" /\ app.standing.state = "unlocked"
    /\ Recording(Change("refocus", app.standing.session, 0), TRUE)

(* The hold ends with a reason picked (explain), or Bali going behind. *)
Release ==
    /\ app.up /\ Released(file.queue) # file.queue
    /\ file' = [file EXCEPT !.queue = Released(@)]
    /\ UNCHANGED <<vars, app, call, wire, look, turn, faults>>

(* check and backOn: the lock's service found off in a lesson, or on again. *)
InLesson == app.standing.at = "in" /\ app.standing.ends > now
FindOff ==
    /\ "protection_off" \in Doings
    /\ InLesson /\ app.standing.state # "protection_off"
    /\ Recording(Change("protection_off", app.standing.session, 0), TRUE)
FindOn ==
    /\ InLesson /\ app.standing.state = "protection_off"
    /\ Recording(Change("protection_on", app.standing.session, 0), TRUE)

-----------------------------------------------------------------------------
(* The drain: the record due is sent, served, and its answer heard. *)

Sends(r) ==
    /\ call' = [NoCall EXCEPT !.id = r.id]
    /\ wire' = wire \cup {r.id}
    /\ made' = [made EXCEPT ![Me][r.id] =
                   [@ EXCEPT !.claim = r.tap, !.session = IF r.tap = 0 THEN r.session ELSE 0]]

Send ==
    /\ Runs /\ call = NoCall
    /\ \E i \in NextDue(file.queue) : Sends(file.queue[i])
    /\ UNCHANGED <<serverSide, install, file, app, look, turn, faults>>

BellOf(sid) == IF sid = NoSession THEN 0 ELSE sessions[sid].endsAt
Answers(id, answer) ==
    call' = IF call.id = id /\ call.answer = Pending
            THEN [call EXCEPT !.answer = answer, !.ends = BellOf(answer.session)] ELSE call

Serve(id) ==
    /\ id \in wire /\ Reach(Me, id)
    /\ wire' = wire \ {id}
    /\ Answers(id, Handle(Me, id, now).answer)
    /\ UNCHANGED <<file, app, look, turn, faults>>

ServeTap(id) ==
    /\ id \in wire /\ AskTap(Me, id)
    /\ wire' = wire \ {id}
    /\ UNCHANGED <<file, app, call, look, turn, faults>>

TapServed ==
    \/ /\ TapLands(Me)
       /\ IF Onward(asking[Me], TapTx(Me).answer.outcome) = "idle"
          THEN Answers(asking[Me].record, TapTx(Me).answer) ELSE call' = call
       /\ UNCHANGED <<file, app, wire, look, turn, faults>>
    \/ /\ TapArms(Me)
       /\ Answers(asking[Me].record, ArmTap(Me, asking[Me].record, asking[Me].at).answer)
       /\ UNCHANGED <<file, app, wire, look, turn, faults>>

(* What the answer means for where the phone stands: answered. *)
Lands(q, answer, r) ==
    LET to == In(answer.session, answer.state, call.ends)
    IN Guarded(app.standing, q, to, IF IsReturn(r) THEN r.place ELSE 0)

StandsAfter(f, d, answer, r) ==
    LET live == answer.session # 0 /\ answer.state # "none"
        stays == app.standing.at = "in" /\ app.standing.ends > now
    IN CASE d \in {"apply_session", "recorded"} /\ live /\ Settled(f.queue) ->
               Lands(f.queue, answer, r)
         [] d = "wait_for_start" /\ Settled(f.queue) /\ ~stays /\ app.standing.at # "unread" -> Waits
         [] OTHER -> app.standing

Rereads(d, answer) ==
    \/ d \in {"reread", "retry_and_surface", "drop"}
    \/ d \in {"apply_session", "recorded"} /\ (answer.session = 0 \/ answer.state = "none")
    \/ d = "wait_for_start" /\ app.standing.at = "unread"

(* settle and answered, one stretch of the engine's; killed in it, the app *)
(* leaves the file as one of its writes did: the record settled, or the     *)
(* wait's end with it, and where the phone stands not kept.  (presses and f *)
(* are bound so that TLC works each out once.)                              *)
Hears(answer, killed) ==
    LET id == call.id
        there == id \in Ids(file.queue)
        r == file.queue[CHOOSE i \in DOMAIN file.queue : file.queue[i].id = id]
        d == IF there THEN Disposition(r.kind, answer) ELSE "superseded"
        rereads == there /\ (r.kind # "unlock" \/ d = "recorded") /\ Rereads(d, answer)
    IN /\ app.up /\ call.id # 0
       /\ \E presses \in {IF there THEN Unjoined(file, id, d, answer) ELSE <<>>},
             f \in {Settle(file, id, d, answer, Len(made[Me]))} :
             LET arms == d = "wait_for_start" /\ Settled(f.queue)
                 waiting == [f EXCEPT !.waitEnds = IF arms THEN EndOfDay(now) ELSE @]
                 standing == StandsAfter(f, d, answer, r)
             IN /\ IF killed
                   THEN file' \in {f, waiting} /\ app' = NoApp /\ look' = NoLook
                   ELSE /\ file' = KeptIn(waiting, standing)
                        /\ app' = [Knows(app, standing) EXCEPT
                             !.blind = FALSE,
                             !.armed = IF arms /\ standing.at = "unread" THEN TRUE ELSE @,
                             !.reread = @ \/ rereads]
                        /\ look' = [look EXCEPT !.fresh = @ /\ d = "retry"]
                /\ made' = [made EXCEPT ![Me] = @ \o [k \in DOMAIN presses |->
                      [@[presses[k].id] EXCEPT !.session = presses[k].session,
                                               !.claim = 0, !.when = now]]]
       /\ call' = NoCall
       /\ UNCHANGED <<serverSide, install, turn>>

Hear == call.answer # Pending /\ Hears(call.answer, FALSE) /\ UNCHANGED <<wire, faults>>
Fails == faults < MaxFaults /\ faults' = faults + 1
KilledHearing ==
    /\ "crash" \in Doings /\ Fails
    /\ call.answer # Pending /\ Hears(call.answer, TRUE) /\ UNCHANGED wire

(* No answer came, or the server was too busy to give one; what was sent is  *)
(* gone, or reaches the server late.                                         *)
Late == wire' = IF "late" \in Doings THEN wire ELSE wire \ {call.id}
Lost == "lost" \in Doings /\ Fails /\ Late /\ Hears([Pending EXCEPT !.outcome = "lost"], FALSE)
Busy ==
    /\ "busy" \in Doings /\ Fails /\ Late /\ call.answer = Pending
    /\ Hears([Pending EXCEPT !.outcome = "busy"], FALSE)

(* A backoff or a hold is over, or the student asks to try again. *)
Due(i) ==
    /\ app.up /\ i \in DOMAIN file.queue /\ ~file.queue[i].due
    /\ file' = [file EXCEPT !.queue[i].due = TRUE]
    /\ UNCHANGED <<vars, app, call, wire, look, turn, faults>>

(* The block was taken away before the tap reached the server, and may stay so *)
(* (block_stays), however often the tap stuck for it is sent.                  *)
RefuseTap(id) ==
    /\ "unknown_block" \in Doings
    /\ id \in wire /\ made[Me][id].kind = "tap" /\ asking[Me] = Idle
    /\ IF "block_stays" \in Doings
             /\ \E i \in DOMAIN file.queue : file.queue[i].id = id /\ file.queue[i].stuck
       THEN faults' = faults ELSE Fails
    /\ wire' = wire \ {id}
    /\ Answers(id, Answer("unknown_block", NoSession, "none"))
    /\ UNCHANGED <<vars, file, app, look, turn>>

-----------------------------------------------------------------------------
(* The app killed, and launched: the first time, and again. *)

Crash ==
    /\ "crash" \in Doings /\ Fails /\ app.up
    /\ app' = NoApp /\ call' = NoCall /\ look' = NoLook
    /\ UNCHANGED <<vars, file, wire, turn>>

(* load: where the phone stood and what it queued, each read on its own; the *)
(* file may refuse either.  What it read is kept already, but where an unlock *)
(* of it waits to be filed.                                                   *)
Relaunch ==
    /\ ~app.up
    /\ \E standing \in {StandsIn(file), Unread}, blind \in BOOLEAN :
          LET read == standing = StandsIn(file) /\ ~blind
              unfiled == \E i \in DOMAIN file.queue : IsUnfiled(file.queue[i])
          IN /\ app' = [NoApp EXCEPT !.up = TRUE, !.standing = standing, !.blind = blind,
                                      !.kept = read /\ ~unfiled]
             /\ IF read THEN faults' = faults ELSE "unread" \in Doings /\ Fails
    /\ UNCHANGED <<vars, file, call, wire, look, turn>>

(* refreshQueue, as the engine starts to run, or the student asks it to: the *)
(* queue read again, which the file may refuse again.                        *)
RefreshQueue ==
    /\ app.up /\ (app.blind \/ ~Runs)
    /\ \E blind \in {FALSE, app.blind} :
          /\ app' = [Knows(app, app.standing) EXCEPT !.blind = blind]
          /\ IF blind THEN Fails ELSE faults' = faults
    /\ file' = KeptIn(file, app.standing)
    /\ UNCHANGED <<vars, call, wire, look, turn>>

-----------------------------------------------------------------------------
(* The reads: a wake of the read loop, and what it sends. *)

(* readStanding: where the phone stood, read again; an out an arming was *)
(* carried onto waits.                                                   *)
StoodIn == IF app.standing.at # "unread" THEN app.standing
           ELSE IF app.armed /\ StandsIn(file) = Out THEN Waits ELSE StandsIn(file)
WaitOver(standing) ==
    IF standing = Waits /\ file.waitEnds # 0 /\ file.waitEnds =< now THEN Out ELSE standing

(* Whether the wake asks GET /v1/me, as it was asked to and always out of a *)
(* lesson, or checks in.                                                    *)
AsksMe_Asked(standing) == app.reread
AsksMe(standing) == app.reread \/ standing.at # "in"
Wake(kind) ==
    LET standing == WaitOver(StoodIn)
    IN /\ Runs /\ look = NoLook
       /\ kind = "me" => AsksMe(standing)
       /\ kind = "check_in" => "check_in" \in Doings /\ standing.at = "in"
       /\ file' = KeptIn(file, standing)
       /\ app' = [Knows(app, standing) EXCEPT !.reread = @ /\ kind # "me"]
       /\ look' = [NoLook EXCEPT !.kind = kind, !.fresh = Settled(file'.queue), !.stage = "sent",
                                 !.session = standing.session]
       /\ UNCHANGED <<vars, call, wire, turn, faults>>

(* The wake that reads where the phone stood while it has nothing to send. *)
ReadStanding ==
    /\ app.up /\ app.standing.at = "unread" /\ look = NoLook
    /\ file' = KeptIn(file, StoodIn)
    /\ app' = Knows(app, StoodIn)
    /\ UNCHANGED <<vars, call, wire, look, turn, faults>>

(* What the server says of the student: whether a tap of theirs waits, and the *)
(* lesson they are live in.                                                    *)
TapWaits == \E a \in armed[Me] :
    /\ a.waiting /\ a.expires > now
    /\ \E c \in Classes : /\ <<Me, c>> \in enrolled
                           /\ TeacherOf[c] = made[Me][a.id].teacher
LiveIn == {sid \in SessionIds : Live(parts[Me][sid])}
Truth ==
    IF LiveIn = {} THEN Out
    ELSE LET sid == CHOOSE o \in LiveIn : TRUE
         IN In(sid, parts[Me][sid].state, sessions[sid].endsAt)

(* GET /v1/me reads the waiting tap, and then the lesson, with no lock.  A    *)
(* check-in of a student live there is contact, which closes a silence: there *)
(* is none to close here, where no sweep marks one.                           *)
LookArmed ==
    /\ look.kind = "me" /\ look.stage = "sent"
    /\ look' = [look EXCEPT !.stage = "armed", !.armed = TapWaits]
    /\ UNCHANGED <<vars, file, app, call, wire, turn, faults>>
LookRead ==
    /\ look.stage = IF look.kind = "me" THEN "armed" ELSE "sent"
    /\ look.kind \in {"me", "check_in"}
    /\ look' = [look EXCEPT !.stage = "read",
                 !.truth = IF look.kind = "me" \/ look.session \in LiveIn THEN Truth ELSE Out]
    /\ UNCHANGED <<vars, file, app, call, wire, turn, faults>>

(* standing(me): waiting, while armed and the read does not say no tap waits; *)
(* a lesson over by the phone's clock does not end the wait.                  *)
SaysMe(armedThere, truth) ==
    LET waits == (app.standing = Waits \/ app.armed) /\ armedThere
    IN IF truth.at = "in" /\ (waits => truth.ends > now) THEN truth
       ELSE IF waits THEN Waits ELSE Out

(* reconcile, the unlock guard over it: a read applies while it is fresh,    *)
(* nothing waiting for an answer as it was sent, and no change made or       *)
(* answered since (readMayReconcile).                                        *)
Reconciles_Stale(sent) == TRUE
Reconciles(sent) == sent.fresh
LookAnswered ==
    LET says == IF look.kind = "me" THEN SaysMe(look.armed, look.truth) ELSE look.truth
        gone == look.kind = "check_in" /\ look.truth = Out
        standing == IF Reconciles(look) /\ ~gone
                    THEN Guarded(app.standing, file.queue, says, 0) ELSE app.standing
    IN /\ app.up /\ look.stage = "read"
       /\ file' = KeptIn(file, standing)
       /\ app' = [Knows(app, standing) EXCEPT !.reread = @ \/ gone]
       /\ look' = NoLook
       /\ UNCHANGED <<vars, call, wire, turn, faults>>
LookLost ==
    /\ "lost_read" \in Doings /\ Fails /\ app.up /\ look # NoLook
    /\ app' = [app EXCEPT !.reread = @ \/ look.kind = "me"]
    /\ look' = NoLook
    /\ UNCHANGED <<vars, file, call, wire, turn>>

-----------------------------------------------------------------------------
PhoneInit ==
    /\ Init
    /\ file = EmptyFile /\ call = NoCall /\ wire = {} /\ look = NoLook
    /\ app = NoApp
    /\ turn = NoTurn /\ faults = 0

Student == Scan \/ PressUnlock \/ BackToFocus
Drain == Send \/ Hear \/ Lost \/ Busy \/ KilledHearing \/ Release
           \/ \E i \in DOMAIN file.queue : Due(i)
Reads == Wake("me") \/ Wake("check_in") \/ ReadStanding \/ LookAnswered \/ LookLost
Checks == FindOff \/ FindOn
Server ==
    \/ \E id \in wire : Serve(id) \/ ServeTap(id) \/ RefuseTap(id)
    \/ TapServed \/ LookArmed \/ LookRead
    \/ (Lesson \/ Tick) /\ UNCHANGED phone

PhoneNext ==
    \/ Student \/ Drain \/ Reads \/ Checks \/ Server
    \/ Crash \/ Relaunch \/ RefreshQueue

PhoneSpec == PhoneInit /\ [][PhoneNext]_allVars

(* The app is launched again, and while it runs sends what is due, hears the  *)
(* answers and tries again; what it sends is served in the end (faults are    *)
(* bounded); its read loop goes round.  A stuck record may be tried again for *)
(* good: its backoff lets another record due go before it does.               *)
Works ==
    \/ Relaunch \/ RefreshQueue \/ \E i \in DOMAIN file.queue : Due(i)
    \/ Send \/ ReadStanding \/ \E id \in wire : ServeTap(id) \/ Serve(id)
    \/ TapServed \/ Hear
SendPending ==
    \E i \in DOMAIN file.queue :
        /\ ~file.queue[i].stuck
        /\ Due(i) \/ (Send /\ call'.id = file.queue[i].id)
ReadHeard == LookArmed \/ LookRead \/ LookAnswered

PhoneFairness ==
    /\ WF_allVars(Works) /\ SF_allVars(SendPending)
    /\ SF_allVars(Wake("me")) /\ WF_allVars(ReadHeard)

PhoneLive == PhoneSpec /\ PhoneFairness
=============================================================================
