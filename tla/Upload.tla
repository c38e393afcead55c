------------------------------- MODULE Upload -------------------------------
(***************************************************************************)
(* A page's upload of one PDF (apps/web/src/lib/decks.ts, runUpload and    *)
(* putPdf; app/slides/page.tsx): the create under the upload's own id, the *)
(* file to the bucket by the URL of its answer, the check, and a Try again *)
(* that goes on from where it got to.                                      *)
(***************************************************************************)
EXTENDS Decks

CONSTANTS
    UploadLimit,  \* UPLOAD_LIMIT_MS, from before the create is sent
    MaxCreates    \* bound: creates sent

(* 25 minutes, of the 30 no deck's file is deleted within: the margin is for *)
(* the route's clock, read before its commit.                                *)
ASSUME UploadAssumption ==
    UploadLimit \in Nat /\ UploadLimit + Slow =< Writable /\ MaxCreates \in Nat

VARIABLES
    upload,   \* where the page is: its step, its deck, and if its file is in the bucket
    left,     \* the instants left of its limit
    creates,  \* creates sent that the server has not taken up
    sent,     \* history: creates sent
    wire      \* of each deck, for how long a PUT that was begun may still land

uploadVars == <<upload, left, creates, sent, wire>>

NoUpload == [step |-> "closed", deck |-> NoDeck, uploaded |-> FALSE]
Ids == 1 .. MaxDecks
Longest(a, b) == IF a < b THEN b ELSE a

UploadInit(open) ==
    /\ upload = [NoUpload EXCEPT !.step = IF open THEN "picked" ELSE "closed"]
    /\ left = 0 /\ creates = 0 /\ sent = 0
    /\ wire = [d \in Ids |-> 0]

-----------------------------------------------------------------------------
(* runUpload, from a pick or a Try again. *)

Sends ==
    /\ upload.step \in {"picked", "stopped"} /\ ~upload.uploaded /\ sent < MaxCreates
    /\ sent' = sent + 1 /\ creates' = creates + 1
    /\ left' = UploadLimit
    /\ upload' = [upload EXCEPT !.step = "creating"]
    /\ UNCHANGED <<wire, decksVars>>

(* The deck the create made or found. *)
MadeNow == CHOOSE d \in Made' : TRUE

(* putPdf begins as the answer comes, within what is left of the limit.      *)
PutBegins(d) == wire' = [wire EXCEPT ![d] = Longest(@, left)]

Answered ==
    \/ /\ upload.step = "creating"
       /\ PutBegins(MadeNow)
       /\ upload' = [upload EXCEPT !.step = IF left = 0 THEN "stopped" ELSE "putting",
                                   !.deck = MadeNow]
    \/ UNCHANGED <<upload, wire>>       \* its answer is lost, or no longer waited for

CreateServed ==
    /\ creates > 0
    /\ creates' = creates - 1
    /\ \/ /\ \E late \in 0 .. Slow : createDeck(late)
          /\ Answered
       \/ /\ RefusesCreate
          /\ upload' = IF upload.step = "creating" THEN [upload EXCEPT !.step = "refused"] ELSE upload
          /\ UNCHANGED <<decks, wire>>
    /\ UNCHANGED <<left, sent, bucket, board, faults>>

(* The file lands, whether or not the page still waits for it. *)
PutLands(d) ==
    /\ wire[d] > 0
    /\ stored' = stored \cup {d}
    /\ upload' = IF upload.step = "putting" /\ upload.deck = d
                 THEN [upload EXCEPT !.step = "checking", !.uploaded = TRUE] ELSE upload
    /\ UNCHANGED <<left, creates, sent, wire, decks, checks, drops, board, faults>>

Checks ==
    /\ upload.step = "checking"
    /\ checkDeck(upload.deck)
    /\ UNCHANGED uploadVars

(* The page hears the verdict, or that the deck is gone. *)
Told ==
    /\ upload.step = "checking"
    /\ decks[upload.deck].status # "pending" \/ ~Kept(upload.deck)
    /\ upload' = [upload EXCEPT !.step = "done"]
    /\ UNCHANGED <<left, creates, sent, wire, decksVars>>

(* No answer in time, nothing moving, the limit, or the teacher's Cancel. *)
Stops ==
    /\ upload.step \in {"creating", "putting", "checking"}
    /\ upload' = [upload EXCEPT !.step = "stopped"]
    /\ UNCHANGED <<left, creates, sent, wire, decksVars>>

AsksAgain ==
    /\ upload.step = "stopped" /\ upload.uploaded
    /\ upload' = [upload EXCEPT !.step = "checking"]
    /\ UNCHANGED <<left, creates, sent, wire, decksVars>>

UploadTick ==
    /\ left' = Before(left)
    /\ wire' = [d \in Ids |-> Before(wire[d])]

UploadNext ==
    \/ Sends \/ CreateServed \/ Checks \/ Told \/ Stops \/ AsksAgain
    \/ \E d \in Ids : PutLands(d)
=============================================================================
