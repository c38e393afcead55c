------------------------------- MODULE Slides -------------------------------
(***************************************************************************)
(* A teacher's decks and a session that shows them: the server and its     *)
(* bucket, with either a page uploading a PDF or a window on the running   *)
(* session about it.  The two know of each other through the server alone. *)
(***************************************************************************)
EXTENDS Upload, SlideCard

vars == <<uploadVars, cardVars, decksVars>>

Ready ==
    [create |-> FALSE, status |-> "ready", removed |-> FALSE, writable |-> 0, limit |-> 0,
     wait |-> 0, stamped |-> FALSE]

(* Bound: the faults are kept for the upload. *)
Init ==
    \/ UploadInit(TRUE) /\ CardInit(FALSE) /\ DecksInit(<<>>, {}, 0)
    \/ UploadInit(FALSE) /\ CardInit(TRUE) /\ DecksInit(<<Ready>>, {1}, MaxFaults)

(* Time passes. *)
Tick ==
    /\ DecksTick /\ UploadTick
    /\ UNCHANGED <<upload, creates, sent, cardVars, bucket, board, faults>>

(* A restart answers none of the changes it had begun. *)
Next ==
    \/ Tick
    \/ UploadNext /\ UNCHANGED cardVars
    \/ CardNext /\ UNCHANGED uploadVars
    \/ (Sweeps \/ Serves \/ Fails \/ Bell) /\ UNCHANGED <<uploadVars, cardVars>>
    \/ (\E d \in Rows : removeDeck(d)) /\ Act /\ UNCHANGED <<uploadVars, window, sends, taken>>
    \/ (\E d \in Rows : RemovedAgain(d)) /\ UNCHANGED <<uploadVars, cardVars>>

(* The sweep runs each minute, the server ends what it begins, a window's    *)
(* read is repeated and its stream resumed until they bring what there is.   *)
Sweeping(A(_)) == (\E d \in Rows : A(d)) /\ UNCHANGED <<uploadVars, cardVars>>
Fairness ==
    /\ WF_vars(Tick)
    /\ WF_vars(Sweeping(rejectUnfinishedDecks)) /\ WF_vars(Sweeping(claimDecksToDrop))
    /\ WF_vars(Sweeping(Deleted)) /\ WF_vars(Sweeping(stampObjectDeleted))
    /\ WF_vars(ShowCommits /\ UNCHANGED uploadVars)
    /\ WF_vars(Reads /\ UNCHANGED uploadVars) /\ WF_vars(Hear /\ UNCHANGED uploadVars)

Spec == Init /\ [][Next]_vars /\ Fairness
=============================================================================
