---------------------------- MODULE Lesson_proofs ----------------------------
(***************************************************************************)
(* What a lesson's questions promise, for any number of questions, presses *)
(* and picks and any bell: which is shown, that one press is one question, *)
(* which pick stands, and what a poll that has stopped holds.  Everything  *)
(* rests on what a transaction of the server may do (Grows): no question   *)
(* closed is touched again, nor the answers to it, and the clock of a      *)
(* close is read after the question it closes was the last one asked.      *)
(***************************************************************************)
EXTENDS LessonProps, SequenceTheorems, WellFoundedInduction, TLAPS

Question == [ev : Nat, openedAt : Nat, closedAt : Nat]
ServerOK ==
    /\ now \in Nat /\ now =< MaxTime
    /\ startedAt \in Nat /\ ended \in BOOLEAN
    /\ questions \in Seq(Question) /\ responses \in Seq(Nat)
    /\ Len(responses) = Len(questions)
    /\ \A q \in Asked :
         /\ questions[q].openedAt =< now
         /\ Recorded(q) => questions[q].closedAt =< now

(* Only the question asked last may be open, and each id is one question's. *)
OneOpen == \A q \in Asked : q # Len(questions) => Recorded(q)
HeldOnce == \A p, q \in Asked : questions[p].ev = questions[q].ev /\ questions[p].ev # 0 => p = q

(* The question asked last, once closed, was closed last. *)
ClosedBy(at) == \A q \in Asked : Recorded(q) => questions[q].closedAt =< at
LastClosed ==
    ~ended /\ Asked # {} /\ Recorded(Len(questions))
        => ClosedBy(questions[Len(questions)].closedAt)

ServerInv == ServerOK /\ OneOpen /\ HeldOnce /\ LastClosed

(* What a transaction leaves as it was. *)
Grows ==
    /\ Asked \subseteq Asked'
    /\ \A q \in Asked :
         /\ questions'[q].ev = questions[q].ev
         /\ Recorded(q) => /\ questions'[q].closedAt = questions[q].closedAt
                           /\ responses'[q] = responses[q]
         /\ responses[q] =< responses'[q]
    /\ now =< now' /\ (ended => ended')

-----------------------------------------------------------------------------
(* The rows. *)

LEMMA Constants ==
    Bell \in Nat /\ MaxTime \in Nat /\ Bell =< MaxTime /\ NotClosed \in Nat /\ MaxTime < NotClosed
  BY LessonAssumption DEF NotClosed

LEMMA AskedAre ==
  ASSUME ServerOK
  PROVE  /\ Len(questions) \in Nat /\ Asked = 1 .. Len(questions)
         /\ \A q \in Asked : questions[q] \in Question /\ responses[q] \in Nat
         /\ NoQuestion \notin Asked
<1>1. questions \in Seq(Question) /\ responses \in Seq(Nat) /\ Len(responses) = Len(questions)
  BY DEF ServerOK
<1>2. Len(questions) \in Nat /\ Asked = 1 .. Len(questions)
  BY <1>1, LenProperties DEF Asked
<1>3. \A q \in 1 .. Len(questions) : questions[q] \in Question /\ responses[q] \in Nat
  BY <1>1, ElementOfSeq
<1>4. QED
  BY <1>2, <1>3 DEF NoQuestion

LEMMA ClosingIs ==
  ASSUME ServerOK, NEW at \in Nat
  PROVE  /\ Closing(at) \in Seq(Question) /\ Len(Closing(at)) = Len(questions)
         /\ \A q \in Asked :
              /\ Recorded(q) => Closing(at)[q] = questions[q]
              /\ ~Recorded(q) => Closing(at)[q] = [questions[q] EXCEPT !.closedAt = at]
<1> DEFINE closed == Closing(at)
<1>1. Asked = 1 .. Len(questions) /\ Len(questions) \in Nat
      /\ \A q \in Asked : questions[q] \in Question
  BY AskedAre
<1>2. closed = [q \in 1 .. Len(questions) |-> IF Recorded(q) THEN questions[q]
                                             ELSE [questions[q] EXCEPT !.closedAt = at]]
  BY <1>1 DEF Closing
<1>3. \A q \in Asked : [questions[q] EXCEPT !.closedAt = at] \in Question
  BY <1>1 DEF Question
<1>4. closed \in [1 .. Len(questions) -> Question]
  BY <1>1, <1>2, <1>3
<1>5. closed \in Seq(Question)
  BY <1>1, <1>4, SeqDef
<1>6. Len(closed) = Len(questions)
  <2>1. DOMAIN closed = 1 .. Len(questions) /\ DOMAIN closed = 1 .. Len(closed) /\ Len(closed) \in Nat
    BY <1>4, <1>5, LenProperties
  <2>2. QED
    BY <1>1, <2>1
<1>7. QED
  BY <1>1, <1>2, <1>5, <1>6

-----------------------------------------------------------------------------
(* The server's transactions, without the log: what they write of the       *)
(* questions and of the answers.                                            *)

Stays == UNCHANGED <<now, startedAt, ended, questions, responses>>
OpensNew(ev, at) ==
    /\ HeldAs(ev) = {}
    /\ questions' = Append(Closing(at), Opened(ev, at))
    /\ responses' = Append(responses, NoAnswer)
    /\ UNCHANGED <<now, startedAt, ended>>
ClosesOpen(q, at) ==
    /\ ~Recorded(q)
    /\ questions' = [questions EXCEPT ![q].closedAt = at]
    /\ UNCHANGED <<now, startedAt, ended, responses>>

LEMMA StaysKeeps == ServerInv /\ Stays => ServerInv' /\ Grows
<1> SUFFICES ASSUME ServerInv, Stays PROVE ServerInv' /\ Grows
  OBVIOUS
<1>1. ServerInv'
  BY DEF ServerInv, ServerOK, OneOpen, HeldOnce, LastClosed, ClosedBy, Stays, Asked, Recorded
<1>2. \A q \in Asked : responses[q] \in Nat
  BY AskedAre DEF ServerInv
<1>3. Grows
  BY <1>2 DEF ServerInv, ServerOK, Grows, Stays, Asked
<1>4. QED
  BY <1>1, <1>3

LEMMA TickKeeps == ServerInv /\ Tick => ServerInv' /\ Grows
<1> SUFFICES ASSUME ServerInv, Tick PROVE ServerInv' /\ Grows
  OBVIOUS
<1>1. UNCHANGED <<startedAt, ended, questions, responses>> /\ now' = now + 1 /\ now' =< MaxTime
  BY LessonAssumption DEF Tick, ServerInv, ServerOK
<1>2. Asked' = Asked /\ \A q \in Asked : questions[q] \in Question /\ responses[q] \in Nat
  BY <1>1, AskedAre DEF ServerInv, Asked
<1>3. ServerOK'
  BY <1>1, <1>2 DEF ServerInv, ServerOK, Recorded, Question
<1>4. OneOpen' /\ HeldOnce' /\ LastClosed'
  BY <1>1, <1>2 DEF ServerInv, OneOpen, HeldOnce, LastClosed, ClosedBy, Recorded
<1>5. Grows
  BY <1>1, <1>2 DEF ServerInv, ServerOK, Grows
<1>6. QED
  BY <1>3, <1>4, <1>5 DEF ServerInv

(* A question opened closes the one still open, whenever its clock was read. *)
LEMMA OpensKeeps ==
  ASSUME ServerInv, NEW ev \in Nat, NEW at \in Nat, at =< now, OpensNew(ev, at)
  PROVE  /\ ServerInv' /\ Grows
         /\ Len(questions') = Len(questions) + 1
         /\ questions'[Len(questions) + 1].ev = ev
         /\ \A q \in Asked' : q \in Asked \/ q = Len(questions) + 1
<1> DEFINE n == Len(questions) + 1
<1>1. /\ Asked = 1 .. Len(questions) /\ Len(questions) \in Nat
      /\ \A q \in Asked : questions[q] \in Question /\ responses[q] \in Nat
      /\ questions \in Seq(Question) /\ responses \in Seq(Nat) /\ Len(responses) = Len(questions)
  BY AskedAre DEF ServerInv, ServerOK
<1>2. Opened(ev, at) \in Question /\ Opened(ev, at).closedAt = NotClosed
      /\ Opened(ev, at).openedAt = at /\ Opened(ev, at).ev = ev
  BY Constants DEF Opened, Question
<1>3. /\ Closing(at) \in Seq(Question) /\ Len(Closing(at)) = Len(questions)
      /\ \A q \in Asked :
           /\ Recorded(q) => Closing(at)[q] = questions[q]
           /\ ~Recorded(q) => Closing(at)[q] = [questions[q] EXCEPT !.closedAt = at]
  BY ClosingIs DEF ServerInv
<1>4. /\ questions' \in Seq(Question) /\ Len(questions') = n /\ questions'[n] = Opened(ev, at)
      /\ \A q \in Asked : questions'[q] = Closing(at)[q]
  BY <1>1, <1>2, <1>3, AppendProperties DEF OpensNew
<1>5. /\ responses' \in Seq(Nat) /\ Len(responses') = n
      /\ \A q \in Asked : responses'[q] = responses[q]
  BY <1>1, AppendProperties DEF OpensNew, NoAnswer
<1>6. Asked' = 1 .. n
  BY <1>4, LenProperties DEF Asked
<1>7. \A q \in Asked' : q \in Asked \/ q = n
  BY <1>1, <1>6
<1>8. UNCHANGED <<now, startedAt, ended>>
  BY DEF OpensNew
<1>9. \A q \in Asked :
        /\ questions'[q].ev = questions[q].ev /\ questions'[q].openedAt = questions[q].openedAt
        /\ Recorded(q) => questions'[q].closedAt = questions[q].closedAt
        /\ ~Recorded(q) => questions'[q].closedAt = at
  <2>1. \A q \in Asked :
          /\ Recorded(q) => questions'[q] = questions[q]
          /\ ~Recorded(q) => questions'[q] = [questions[q] EXCEPT !.closedAt = at]
    BY <1>3, <1>4
  <2>2. QED
    BY <1>1, <2>1 DEF Question
<1>10. at < NotClosed /\ now < NotClosed
  BY Constants DEF ServerInv, ServerOK
<1>11. \A q \in Asked : Recorded(q)' /\ questions'[q].closedAt =< now'
  BY <1>8, <1>9, <1>10 DEF ServerInv, ServerOK, Recorded
<1>12. questions'[n].closedAt = NotClosed
  BY <1>2, <1>4
<1>13. ServerOK'
  <2>1. \A q \in Asked' : questions'[q].openedAt =< now' /\ (Recorded(q)' => questions'[q].closedAt =< now')
    <3> SUFFICES ASSUME NEW q \in Asked'
                 PROVE  questions'[q].openedAt =< now' /\ (Recorded(q)' => questions'[q].closedAt =< now')
      OBVIOUS
    <3>1. CASE q \in Asked
      BY <1>8, <1>9, <1>11, <3>1 DEF ServerInv, ServerOK
    <3>2. CASE q = n
      BY <1>2, <1>4, <1>8, <1>12, <3>2 DEF Recorded
    <3>3. QED
      BY <1>7, <3>1, <3>2
  <2>2. QED
    BY <1>4, <1>5, <1>8, <2>1 DEF ServerInv, ServerOK
<1>14. OneOpen'
  BY <1>4, <1>7, <1>11 DEF OneOpen
<1>15. HeldOnce'
  <2> SUFFICES ASSUME NEW p \in Asked', NEW q \in Asked',
                      questions'[p].ev = questions'[q].ev, questions'[p].ev # 0
               PROVE  p = q
    BY DEF HeldOnce
  <2>1. \A c \in Asked : questions[c].ev = ev => ev = 0
    BY DEF OpensNew, HeldAs
  <2>2. questions'[n].ev = ev
    BY <1>2, <1>4
  <2>3. QED
    BY <1>7, <1>9, <2>1, <2>2 DEF ServerInv, HeldOnce
<1>16. LastClosed'
  BY <1>4, <1>12 DEF LastClosed, Recorded
<1>17. Grows
  <2>1. Asked \subseteq Asked'
    BY <1>1, <1>6
  <2>2. \A q \in Asked :
          /\ questions'[q].ev = questions[q].ev
          /\ Recorded(q) => questions'[q].closedAt = questions[q].closedAt
    BY <1>9
  <2>3. \A q \in Asked : responses'[q] = responses[q] /\ responses[q] =< responses'[q]
    BY <1>1, <1>5
  <2>4. now =< now' /\ (ended => ended')
    BY <1>8 DEF ServerInv, ServerOK
  <2>5. QED
    BY <2>1, <2>2, <2>3, <2>4 DEF Grows
<1>18. QED
  BY <1>2, <1>4, <1>7, <1>13, <1>14, <1>15, <1>16, <1>17 DEF ServerInv

LEMMA ClosesKeeps ==
  ASSUME ServerInv, NEW q \in Asked, NEW at \in Nat, at =< now, ClosesOpen(q, at), ClosedBy(at)
  PROVE  ServerInv' /\ Grows
<1>1. /\ Asked = 1 .. Len(questions) /\ Len(questions) \in Nat
      /\ \A c \in Asked : questions[c] \in Question /\ responses[c] \in Nat
      /\ questions \in Seq(Question)
  BY AskedAre DEF ServerInv, ServerOK
<1> DEFINE row == [questions[q] EXCEPT !.closedAt = at]
<1>2. row \in Question /\ questions' = [questions EXCEPT ![q] = row]
  BY <1>1 DEF Question, ClosesOpen
<1>3. /\ questions' \in Seq(Question) /\ Len(questions') = Len(questions)
      /\ \A c \in Asked : questions'[c] = IF c = q THEN row ELSE questions[c]
  BY <1>1, <1>2, ExceptSeq
<1>4. Asked' = Asked
  BY <1>1, <1>3, LenProperties DEF Asked
<1>5. UNCHANGED <<now, startedAt, ended, responses>> /\ ~Recorded(q) /\ q = Len(questions)
  BY DEF ClosesOpen, ServerInv, OneOpen
<1>6. \A c \in Asked :
        /\ questions'[c].ev = questions[c].ev /\ questions'[c].openedAt = questions[c].openedAt
        /\ c # q => questions'[c].closedAt = questions[c].closedAt
        /\ c = q => questions'[c].closedAt = at
  BY <1>1, <1>3 DEF Question
<1>7. at < NotClosed
  BY Constants DEF ServerInv, ServerOK
<1>8. ServerOK'
  BY <1>3, <1>4, <1>5, <1>6 DEF ServerInv, ServerOK, Recorded
<1>9. OneOpen' /\ HeldOnce'
  BY <1>3, <1>4, <1>6, <1>7 DEF ServerInv, OneOpen, HeldOnce, Recorded
<1>10. LastClosed'
  BY <1>3, <1>4, <1>5, <1>6 DEF ServerInv, LastClosed, ClosedBy, Recorded
<1>11. Grows
  BY <1>1, <1>4, <1>5, <1>6 DEF Grows, ServerInv, ServerOK
<1>12. QED
  BY <1>8, <1>9, <1>10, <1>11 DEF ServerInv

LEMMA EndKeeps == ServerInv /\ EndSession => ServerInv' /\ Grows
<1> SUFFICES ASSUME ServerInv, EndSession PROVE ServerInv' /\ Grows
  OBVIOUS
<1> DEFINE at == Smaller(now, Bell)
<1>1. at \in Nat /\ at =< now /\ at < NotClosed
  BY Constants DEF Smaller, ServerInv, ServerOK
<1>2. /\ Asked = 1 .. Len(questions) /\ Len(questions) \in Nat
      /\ \A c \in Asked : questions[c] \in Question /\ responses[c] \in Nat
  BY AskedAre DEF ServerInv
<1>3. questions' = Closing(at) /\ ended' = TRUE /\ UNCHANGED <<now, startedAt, responses>>
  BY DEF EndSession
<1> HIDE DEF at
<1>4. /\ questions' \in Seq(Question) /\ Len(questions') = Len(questions)
      /\ \A c \in Asked :
           /\ Recorded(c) => questions'[c] = questions[c]
           /\ ~Recorded(c) => questions'[c] = [questions[c] EXCEPT !.closedAt = at]
  BY <1>1, <1>3, ClosingIs DEF ServerInv
<1>5. Asked' = Asked
  BY <1>2, <1>4, LenProperties DEF Asked
<1>6. \A c \in Asked :
        /\ questions'[c].ev = questions[c].ev /\ questions'[c].openedAt = questions[c].openedAt
        /\ Recorded(c) => questions'[c].closedAt = questions[c].closedAt
        /\ ~Recorded(c) => questions'[c].closedAt = at
  BY <1>2, <1>4 DEF Question
<1>7. ServerOK'
  BY <1>1, <1>3, <1>4, <1>5, <1>6 DEF ServerInv, ServerOK, Recorded
<1>8. OneOpen' /\ HeldOnce' /\ LastClosed'
  BY <1>1, <1>3, <1>4, <1>5, <1>6 DEF ServerInv, OneOpen, HeldOnce, LastClosed, Recorded
<1>9. Grows
  BY <1>2, <1>3, <1>5, <1>6 DEF Grows, ServerInv, ServerOK
<1>10. QED
  BY <1>7, <1>8, <1>9 DEF ServerInv

LEMMA AnswerKeeps ==
  ASSUME ServerInv, NEW q \in Asked, NEW answer \in Nat, NEW at, answerQuestion(q, answer, at)
  PROVE  /\ ServerInv' /\ Grows
         /\ TakesAnswer(q, answer, at) => answer =< Kept(q, answer) /\ Kept(q, answer) =< responses'[q]
         /\ Kept(q, answer) \in Nat
<1>1. /\ Asked = 1 .. Len(questions) /\ \A c \in Asked : responses[c] \in Nat
      /\ responses \in Seq(Nat) /\ Len(responses) = Len(questions)
  BY AskedAre DEF ServerInv, ServerOK
<1>2. /\ Kept(q, answer) \in Nat /\ answer =< Kept(q, answer) /\ responses[q] =< Kept(q, answer)
      /\ responses[q] = answer => Kept(q, answer) = responses[q]
  BY <1>1 DEF Kept, Larger
<1>3. UNCHANGED <<now, startedAt, ended, questions>> /\ Asked' = Asked
  BY DEF answerQuestion, Asked
<1>4. /\ responses' \in Seq(Nat) /\ Len(responses') = Len(responses)
      /\ \A c \in Asked : c # q => responses'[c] = responses[c]
      /\ TakesAnswer(q, answer, at) => responses'[q] = Kept(q, answer)
      /\ ~TakesAnswer(q, answer, at) => responses'[q] = responses[q]
  <2>1. CASE TakesAnswer(q, answer, at)
    <3>1. responses' = [responses EXCEPT ![q] = Kept(q, answer)]
      BY <2>1 DEF answerQuestion
    <3>2. QED
      BY <1>1, <1>2, <2>1, <3>1, ExceptSeq
  <2>2. CASE ~TakesAnswer(q, answer, at)
    BY <1>1, <2>2 DEF answerQuestion
  <2>3. QED
    BY <2>1, <2>2
<1>5. Recorded(q) => responses'[q] = responses[q]
  BY <1>2, <1>4 DEF TakesAnswer, questionOpen
<1>6. ServerInv'
  BY <1>3, <1>4 DEF ServerInv, ServerOK, OneOpen, HeldOnce, LastClosed, ClosedBy, Recorded
<1>7. Grows
  <2>1. \A c \in Asked : Recorded(c) => responses'[c] = responses[c]
    BY <1>4, <1>5
  <2>2. ASSUME NEW c \in Asked
        PROVE  responses[c] =< responses'[c]
    <3>1. responses[c] \in Nat
      BY <1>1
    <3>2. CASE c = q
      BY <1>2, <1>4, <3>1, <3>2
    <3>3. CASE c # q
      BY <1>4, <3>1, <3>3
    <3>4. QED
      BY <3>2, <3>3
  <2>3. now \in Nat
    BY DEF ServerInv, ServerOK
  <2>4. \A c \in Asked : questions'[c].ev = questions[c].ev
                        /\ questions'[c].closedAt = questions[c].closedAt
    BY <1>3
  <2>5. Asked \subseteq Asked' /\ now =< now' /\ (ended => ended')
    BY <1>3, <2>3
  <2>6. QED
    BY <2>1, <2>2, <2>4, <2>5 DEF Grows
<1>8. QED
  BY <1>2, <1>4, <1>6, <1>7

-----------------------------------------------------------------------------
(* Which question is shown. *)

(* Of a function to numbers under a bound, one value is the greatest. *)
LEMMA GreatestAt ==
  ASSUME NEW S, S # {}, NEW f, \A s \in S : f[s] \in Nat,
         NEW n \in Nat, \A s \in S : f[s] =< n
  PROVE  \E m \in S : \A s \in S : f[s] =< f[m]
<1> DEFINE T == {n - f[s] : s \in S}
           R == OpToRel(<, Nat)
<1>1. T \subseteq Nat /\ T # {}
  BY SMT
<1>2. \A a, b \in Nat : <<a, b>> \in R <=> a < b
  BY DEF OpToRel
<1>3. IsWellFoundedOn(R, Nat)
  BY NatLessThanWellFounded
<1>4. PICK t \in T : \A u \in T : ~(<<u, t>> \in R)
  <2> HIDE DEF R, T
  <2> QED BY <1>1, <1>3, WFMin
<1> HIDE DEF R
<1>5. PICK m \in S : t = n - f[m]
  BY <1>4
<1>6. ASSUME NEW s \in S PROVE f[s] =< f[m]
  <2>1. n - f[s] \in T /\ n - f[s] \in Nat /\ t \in Nat
    BY <1>1, <1>4
  <2>2. ~(n - f[s] < t)
    BY <1>2, <1>4, <2>1
  <2>3. QED
    BY <1>5, <2>2
<1>7. QED
  BY <1>6

(* The order has a last question: by the close, then the open, then the id. *)
LEMMA OneSortsLast ==
  ASSUME ServerOK, Asked # {}
  PROVE  \E q \in Asked : \A p \in Asked \ {q} : SortsAfter(q, p)
<1>1. /\ Asked = 1 .. Len(questions) /\ Len(questions) \in Nat
      /\ \A q \in Asked : questions[q].closedAt \in Nat /\ questions[q].openedAt \in Nat
  BY AskedAre DEF Question
<1> DEFINE closed == [q \in Asked |-> questions[q].closedAt]
           opened == [q \in Asked |-> questions[q].openedAt]
           id == [q \in Asked |-> q]
<1>2. PICK a \in Asked : \A q \in Asked : closed[q] =< closed[a]
  <2>1. \A q \in Asked : closed[q] \in Nat /\ closed[q] =< NotClosed
    <3> SUFFICES ASSUME NEW q \in Asked PROVE questions[q].closedAt \in Nat /\ questions[q].closedAt =< NotClosed
      OBVIOUS
    <3>1. questions[q].closedAt = NotClosed \/ questions[q].closedAt =< now
      BY DEF ServerOK, Recorded
    <3>2. now \in Nat /\ now =< MaxTime /\ questions[q].closedAt \in Nat
      BY <1>1 DEF ServerOK
    <3>3. QED
      BY <3>1, <3>2, Constants
  <2> HIDE DEF closed
  <2>2. QED
    BY <2>1, Constants, GreatestAt
<1> DEFINE A == {q \in Asked : questions[q].closedAt = questions[a].closedAt}
<1>3. PICK b \in A : \A q \in A : opened[q] =< opened[b]
  <2>1. \A q \in A : opened[q] \in Nat /\ opened[q] =< now
    BY <1>1 DEF ServerOK
  <2>2. A # {} /\ now \in Nat
    BY DEF ServerOK
  <2> HIDE DEF opened, A
  <2>3. QED
    BY <2>1, <2>2, GreatestAt
<1> DEFINE B == {q \in A : questions[q].openedAt = questions[b].openedAt}
<1>4. PICK c \in B : \A q \in B : id[q] =< id[c]
  <2>1. \A q \in B : id[q] \in Nat /\ id[q] =< Len(questions)
    BY <1>1
  <2>2. B # {} /\ Len(questions) \in Nat
    BY <1>1
  <2> HIDE DEF id, B
  <2>3. QED
    BY <2>1, <2>2, GreatestAt
<1>5. ASSUME NEW p \in Asked \ {c} PROVE SortsAfter(c, p)
  <2>1. c \in Asked /\ questions[c].closedAt = questions[a].closedAt
        /\ questions[c].openedAt = questions[b].openedAt
    BY <1>4
  <2>2. questions[p].closedAt =< questions[a].closedAt
    BY <1>2
  <2>3. questions[p].closedAt = questions[a].closedAt => questions[p].openedAt =< questions[b].openedAt
    BY <1>3
  <2>4. questions[p].closedAt = questions[a].closedAt /\ questions[p].openedAt = questions[b].openedAt
        => p =< c
    BY <1>4
  <2>5. QED
    BY <1>1, <2>1, <2>2, <2>3, <2>4 DEF SortsAfter
<1>6. QED
  BY <1>4, <1>5

LEMMA ShownIsAsked ==
  ASSUME ServerOK
  PROVE  findShownQuestion \in Asked \cup {NoQuestion} /\ (Asked # {} => findShownQuestion \in Asked)
  BY OneSortsLast DEF findShownQuestion

(* A question that sorts after every other is the one shown. *)
LEMMA SortedLastIsShown ==
  ASSUME ServerOK, NEW last \in Asked, \A p \in Asked \ {last} : questions[last].closedAt > questions[p].closedAt
  PROVE  findShownQuestion = last
<1>1. \A q \in Asked : questions[q].closedAt \in Nat /\ questions[q].openedAt \in Nat
  BY AskedAre DEF Question
<1>2. \A p \in Asked \ {last} : SortsAfter(last, p)
  BY DEF SortsAfter
<1>3. ASSUME NEW q \in Asked, \A p \in Asked \ {q} : SortsAfter(q, p) PROVE q = last
  <2> SUFFICES ASSUME q # last PROVE FALSE
    OBVIOUS
  <2>1. SortsAfter(q, last) /\ questions[last].closedAt > questions[q].closedAt
    BY <1>3
  <2>2. QED
    BY <1>1, <2>1 DEF SortsAfter
<1>4. QED
  BY <1>2, <1>3 DEF findShownQuestion

LEMMA UnclosedSortsLast ==
  ASSUME ServerInv, NEW last \in Asked, ~Recorded(last)
  PROVE  findShownQuestion = last /\ last = Len(questions)
<1>1. \A p \in Asked \ {last} : Recorded(p)
  BY AskedAre DEF ServerInv, OneOpen
<1>2. last = Len(questions)
  BY DEF ServerInv, OneOpen
<1>3. \A p \in Asked \ {last} : questions[last].closedAt > questions[p].closedAt
  <2> SUFFICES ASSUME NEW p \in Asked \ {last} PROVE questions[last].closedAt > questions[p].closedAt
    OBVIOUS
  <2>1. questions[p].closedAt \in Nat
    BY AskedAre DEF ServerInv, Question
  <2>2. questions[p].closedAt =< now /\ now \in Nat /\ now =< MaxTime
    BY <1>1 DEF ServerInv, ServerOK
  <2>3. questions[last].closedAt = NotClosed
    BY DEF Recorded
  <2>4. QED
    BY <2>1, <2>2, <2>3, Constants
<1>4. QED
  BY <1>2, <1>3, SortedLastIsShown DEF ServerInv

LEMMA LastIsShown == ServerInv => ShownIsLastAsked
<1> DEFINE last == Len(questions)
<1> SUFFICES ASSUME ServerInv, ~ended,
                    \A q \in Asked \ {last} : questions[q].closedAt # questions[last].closedAt
             PROVE  findShownQuestion = last
  BY DEF ShownIsLastAsked
<1>1. Asked = 1 .. Len(questions) /\ Len(questions) \in Nat
      /\ \A q \in Asked : questions[q].closedAt \in Nat
  BY AskedAre DEF ServerInv, Question
<1>2. CASE Asked = {}
  BY <1>1, <1>2 DEF findShownQuestion, NoQuestion
<1>3. CASE Asked # {} /\ ~Recorded(last)
  BY <1>1, <1>3, UnclosedSortsLast
<1>4. CASE Asked # {} /\ Recorded(last)
  <2>1. last \in Asked /\ ClosedBy(questions[last].closedAt)
    BY <1>1, <1>4 DEF ServerInv, LastClosed
  <2>2. \A q \in Asked \ {last} : Recorded(q)
    BY DEF ServerInv, OneOpen
  <2>3. \A q \in Asked \ {last} : questions[last].closedAt > questions[q].closedAt
    BY <1>1, <2>1, <2>2 DEF ClosedBy
  <2>4. QED
    BY <2>1, <2>3, SortedLastIsShown DEF ServerInv
<1>5. QED
  BY <1>2, <1>3, <1>4

-----------------------------------------------------------------------------
(* The window: what it holds, its requests, and its poll. *)

Card == [q : Nat, open : BOOLEAN]
Row == [open : BOOLEAN, recorded : BOOLEAN, counted : Nat]
AskState == [state : {"idle", "out", "answered"}, answer : Card]

(* A question held is one of the session's. *)
Names(question) ==
    /\ question \in Card
    /\ question.q \in Asked \cup {NoQuestion} /\ (question.open => question.q \in Asked)
HoldsOK ==
    /\ up \in BOOLEAN
    /\ reading \in [state : {"idle", "out", "served"}, again : BOOLEAN, question : Card]
    /\ asking \in AskState /\ closing \in AskState
    /\ Names(card) /\ Names(reading.question) /\ Names(asking.answer) /\ Names(closing.answer)

(* What a poll read of a question closed on record still stands. *)
PollOK ==
    /\ poll \in [state : {"idle", "out"}, known : BOOLEAN, late : BOOLEAN, row : Row,
                 results : Row, final : BOOLEAN]
    /\ poll.state = "out" =>
         card.q \in Asked /\ (poll.row.recorded => Recorded(card.q))
    /\ poll.results.recorded =>
         card.q \in Asked /\ Recorded(card.q) /\ poll.results.counted = responses[card.q]

(* A close waits with a clock read after every close but its own question's. *)
CloseRequest == [q : Nat, at : Nat, live : BOOLEAN]
CloseOK(r) ==
    /\ r \in CloseRequest /\ r.q \in Asked /\ r.at =< now
    /\ ~Recorded(r.q) => ClosedBy(r.at)
ClosesOK == \A r \in closes : CloseOK(r)

(* The presses: each has an id of its own, or that of the one it sends again. *)
Press == [draft : Drafts, ev : Nat, told : BOOLEAN]
AskRequest == [ev : Nat, at : Nat, live : BOOLEAN]
PressesOK ==
    /\ presses \in Seq(Press) /\ unanswered \in 0 .. Len(presses)
    /\ \A i \in 1 .. Len(presses) : presses[i].ev \in 1 .. i
    /\ \A r \in asks : r \in AskRequest /\ r.ev \in 1 .. Len(presses) /\ r.at =< now
    /\ \A q \in Asked : questions[q].ev =< Len(presses)
    /\ asking.state # "idle" => Len(presses) > 0

(* Past the bell nothing is opened: a press refused so was the last that      *)
(* could be, and one under a fresh id after it opens nothing.                 *)
Over == ended \/ Bell =< now
Dry(ev) ==
    /\ HeldAs(ev) = {} /\ Over
    /\ \A r \in asks : r.ev = ev => ended \/ Bell =< r.at
Refused == asking.state = "answered" /\ asking.answer.q = NoQuestion => Over
Settled ==
    up /\ asking.state = "idle" =>
        \/ unanswered = Len(presses) /\ Len(presses) > 0
        \/ unanswered = NoPress /\ (Len(presses) > 0 => presses[Len(presses)].told \/ Over)
PairsOK ==
    \A i \in 1 .. Len(presses) - 1 :
        presses[i].draft = presses[i + 1].draft /\ ~presses[i].told
        => presses[i].ev = presses[i + 1].ev \/ Dry(presses[i + 1].ev)
AskingOK == PressesOK /\ Refused /\ Settled /\ PairsOK

WindowInv == HoldsOK /\ PollOK /\ ClosesOK /\ AskingOK

-----------------------------------------------------------------------------
(* The page: what it holds, the read on its way, and the picks. *)

View == [running : BOOLEAN, q : Nat, open : BOOLEAN, answer : Nat]
PickRow == [q : Nat, answer : Nat, at : Nat, state : {"out", "served", "told"}, told : Nat,
            waits : BOOLEAN]
ViewOK(view) ==
    /\ view \in View /\ view.q \in Asked \cup {NoQuestion} /\ (view.open => view.q \in Asked)
    /\ view.q = NoQuestion => view.answer = NoAnswer
SeenOK == ViewOK(seen) /\ fetch \in [state : {"idle", "served"}, got : View] /\ ViewOK(fetch.got)

(* What the page shows as open is no question before one it picked for. *)
NoneAfter(view) == view.open => \A i \in 1 .. Len(picks) : picks[i].q =< view.q
FollowsOn ==
    /\ NoneAfter(seen)
    /\ fetch.state = "served" => NoneAfter(fetch.got) /\ (fetch.got.open => seen.q =< fetch.got.q)

(* Its picks for a question go up, and one taken is there or a later one is. *)
PickOK(i) ==
    /\ picks[i].q \in Asked /\ picks[i].at =< now
    /\ picks[i].told # NoAnswer => picks[i].answer =< responses[picks[i].q]
PicksGoUp ==
    \A i, j \in 1 .. Len(picks) :
        i < j => /\ picks[i].q =< picks[j].q
                 /\ picks[i].q = picks[j].q => picks[i].answer < picks[j].answer
PicksOK ==
    picks \in Seq(PickRow) /\ PicksGoUp /\ \A i \in 1 .. Len(picks) : PickOK(i)

PageInv == SeenOK /\ FollowsOn /\ PicksOK

-----------------------------------------------------------------------------
(* What the server's transactions leave true of a window. *)

LEMMA RecordedStays ==
  ASSUME Grows, NEW q \in Asked, Recorded(q)
  PROVE  Recorded(q)' /\ questions'[q].closedAt = questions[q].closedAt /\ responses'[q] = responses[q]
  BY DEF Grows, Recorded

LEMMA NamesStay ==
  ASSUME Grows, NEW question, Names(question)
  PROVE  Names(question)'
  BY DEF Grows, Names

LEMMA HoldsStay ==
  ASSUME HoldsOK, Grows, UNCHANGED <<up, card, reading, asking, closing>>
  PROVE  HoldsOK'
<1>1. Names(card) /\ Names(reading.question) /\ Names(asking.answer) /\ Names(closing.answer)
  BY DEF HoldsOK
<1>2. Names(card)' /\ Names(reading.question)' /\ Names(asking.answer)' /\ Names(closing.answer)'
  BY <1>1 DEF Grows, Names
<1>3. QED
  BY <1>2 DEF HoldsOK

LEMMA PollStays ==
  ASSUME PollOK, Grows, UNCHANGED <<card, poll>>
  PROVE  PollOK'
<1>1. Asked \subseteq Asked'
  BY DEF Grows
<1>2. card.q \in Asked /\ Recorded(card.q) => Recorded(card.q)' /\ responses'[card.q] = responses[card.q]
  BY RecordedStays DEF Grows, Recorded
<1>3. QED
  BY <1>1, <1>2 DEF PollOK

(* A close waiting for the open question: no other is closed meanwhile.      *)
LEMMA CloseStays ==
  ASSUME ServerInv, ServerInv', Grows, NEW r, CloseOK(r)
  PROVE  CloseOK(r)'
<1>1. r.q \in Asked' /\ r.at =< now'
  <2>1. r.at \in Nat /\ now \in Nat /\ now' \in Nat /\ r.at =< now /\ now =< now'
    BY DEF CloseOK, CloseRequest, ServerInv, ServerOK, Grows
  <2>2. QED
    BY <2>1 DEF CloseOK, Grows
<1>2. ASSUME ~Recorded(r.q)' PROVE ClosedBy(r.at)'
  <2>1. r.q \in Asked /\ ~Recorded(r.q)
    BY <1>2 DEF CloseOK, Grows, Recorded
  <2>2. ClosedBy(r.at)
    BY <2>1 DEF CloseOK
  <2>3. r.q = Len(questions) /\ r.q = Len(questions')
    BY <1>1, <1>2, <2>1 DEF ServerInv, OneOpen
  <2>4. Asked' = Asked
    <3>1. Asked = 1 .. Len(questions)
      BY AskedAre DEF ServerInv
    <3>2. questions' \in Seq(Question)
      BY DEF ServerInv, ServerOK
    <3>3. Asked' = 1 .. Len(questions')
      BY <3>2, LenProperties DEF Asked
    <3>4. QED
      BY <2>3, <3>1, <3>3
  <2>5. \A q \in Asked : Recorded(q)' => questions'[q].closedAt = questions[q].closedAt /\ Recorded(q)
    <3> SUFFICES ASSUME NEW q \in Asked, Recorded(q)'
                 PROVE  questions'[q].closedAt = questions[q].closedAt /\ Recorded(q)
      OBVIOUS
    <3>1. q # r.q
      BY <1>2
    <3>2. Recorded(q)
      BY <2>3, <3>1 DEF ServerInv, OneOpen
    <3>3. QED
      BY <3>2, RecordedStays
  <2>6. QED
    BY <2>2, <2>4, <2>5 DEF ClosedBy
<1>3. QED
  BY <1>1, <1>2 DEF CloseOK

LEMMA ClosesStay ==
  ASSUME ServerInv, ServerInv', Grows, ClosesOK,
         \A r \in closes' : r \in closes \/ \E s \in closes : r = [s EXCEPT !.live = FALSE]
  PROVE  ClosesOK'
<1> SUFFICES ASSUME NEW r \in closes' PROVE CloseOK(r)'
  BY DEF ClosesOK
<1>1. CASE r \in closes
  BY <1>1, CloseStays DEF ClosesOK
<1>2. ASSUME NEW s \in closes, r = [s EXCEPT !.live = FALSE] PROVE CloseOK(r)'
  <2>1. CloseOK(s)'
    BY CloseStays DEF ClosesOK
  <2>2. s \in CloseRequest
    BY DEF ClosesOK, CloseOK
  <2>3. r \in CloseRequest /\ r.q = s.q /\ r.at = s.at
    BY <1>2, <2>2 DEF CloseRequest
  <2>4. QED
    BY <2>1, <2>3 DEF CloseOK
<1>3. QED
  BY <1>1, <1>2

LEMMA OverStays == Grows /\ ServerOK /\ ServerOK' /\ Over => Over'
<1> SUFFICES ASSUME Grows, ServerOK, ServerOK', Over PROVE Over'
  OBVIOUS
<1>1. now \in Nat /\ now' \in Nat /\ now =< now' /\ Bell \in Nat
  BY Constants DEF ServerOK, Grows
<1>2. QED
  BY <1>1 DEF Over, Grows

(* Nothing was opened but by a window of the teacher's that is not followed. *)
NoneOpened == \A q \in Asked' \ Asked : questions'[q].ev = 0

LEMMA DryStays ==
  ASSUME ServerInv, ServerInv', Grows, NEW ev \in Nat \ {0}, Dry(ev),
         \A q \in Asked' \ Asked : questions'[q].ev # ev,
         \A r \in asks' : r.ev = ev => r \in asks \/ ended' \/ Bell =< r.at
  PROVE  Dry(ev)'
<1>1. HeldAs(ev)' = {}
  BY DEF Dry, HeldAs, Grows
<1>2. Over'
  BY OverStays DEF Dry, ServerInv
<1>3. \A r \in asks' : r.ev = ev => ended' \/ Bell =< r.at
  BY DEF Dry, Grows
<1>4. QED
  BY <1>1, <1>2, <1>3 DEF Dry

LEMMA PairsStay ==
  ASSUME ServerInv, ServerInv', Grows, PressesOK, PairsOK, presses' = presses,
         \A q \in Asked' \ Asked : \A i \in 1 .. Len(presses) :
            Dry(presses[i].ev) => questions'[q].ev # presses[i].ev,
         \A r \in asks' : r \in asks \/ \E s \in asks : r.ev = s.ev /\ r.at = s.at
  PROVE  PairsOK'
<1> SUFFICES ASSUME NEW i \in 1 .. Len(presses) - 1, presses[i].draft = presses[i + 1].draft,
                    ~presses[i].told, Dry(presses[i + 1].ev)
             PROVE  Dry(presses[i + 1].ev)'
  BY DEF PairsOK
<1> DEFINE ev == presses[i + 1].ev
<1>1. i + 1 \in 1 .. Len(presses) /\ ev \in Nat \ {0}
  <2>1. Len(presses) \in Nat
    BY LenProperties DEF PressesOK
  <2>2. QED
    BY <2>1 DEF PressesOK
<1>2. \A q \in Asked' \ Asked : questions'[q].ev # ev
  BY <1>1
<1>3. \A r \in asks' : r.ev = ev => r \in asks \/ ended' \/ Bell =< r.at
  BY DEF Dry, Grows
<1>4. Dry(presses[i + 1].ev)'
  <2>1. ASSUME NEW e \in Nat \ {0}, e = ev PROVE Dry(e)'
    <3>1. Dry(e)
      BY <2>1
    <3>2. QED
      BY <1>2, <1>3, <2>1, <3>1, DryStays
  <2>2. PICK e \in Nat \ {0} : e = ev
    BY <1>1
  <2>3. presses'[i + 1].ev = e
    BY <2>2
  <2>4. QED
    BY <2>1, <2>2, <2>3 DEF Dry, HeldAs
<1>5. QED
  BY <1>4

LEMMA AskingStays ==
  ASSUME ServerInv, ServerInv', Grows, AskingOK, NoneOpened,
         UNCHANGED <<presses, unanswered, asking, asks>>, up' => up
  PROVE  AskingOK'
<1>1. PressesOK /\ presses \in Seq(Press) /\ Len(presses) \in Nat
  BY LenProperties DEF AskingOK, PressesOK
<1>2. PressesOK'
  <2>1. \A q \in Asked' : questions'[q].ev =< Len(presses)
    BY <1>1 DEF NoneOpened, Grows, PressesOK
  <2>2. \A r \in asks : r.at =< now'
    BY <1>1 DEF PressesOK, AskRequest, Grows, ServerInv, ServerOK
  <2>3. QED
    BY <1>1, <2>1, <2>2 DEF PressesOK
<1>3. Refused' /\ Settled'
  BY OverStays DEF AskingOK, Refused, Settled, ServerInv
<1>4. PairsOK'
  BY <1>1, PairsStay DEF AskingOK, NoneOpened, PressesOK
<1>5. QED
  BY <1>2, <1>3, <1>4 DEF AskingOK

(* A step of the server's alone, or of another window's or device's. *)
LEMMA WindowStays ==
  ASSUME ServerInv, ServerInv', Grows, WindowInv, NoneOpened, UNCHANGED window
  PROVE  WindowInv'
<1>1. UNCHANGED <<up, card, reading, asking, closing, poll, closes, presses, unanswered, asks>>
  BY DEF window
<1>2. HoldsOK' /\ PollOK' /\ AskingOK'
  BY <1>1, HoldsStay, PollStays, AskingStays DEF WindowInv
<1>3. ClosesOK'
  BY <1>1, ClosesStay DEF WindowInv
<1>4. QED
  BY <1>2, <1>3 DEF WindowInv

(* A step that is none of the server's. *)
LEMMA ServerStays ==
  ASSUME ServerInv, UNCHANGED server
  PROVE  /\ ServerInv' /\ Grows /\ NoneOpened
         /\ Asked' = Asked /\ \A q \in Asked : Recorded(q)' <=> Recorded(q)
<1>1. Stays
  BY DEF server, Stays
<1>2. Asked' = Asked /\ \A q \in Asked : Recorded(q)' <=> Recorded(q)
  BY <1>1 DEF Stays, Asked, Recorded
<1>3. QED
  BY <1>1, <1>2, StaysKeeps DEF NoneOpened

-----------------------------------------------------------------------------
(* The window's own steps.  Only put writes what it holds. *)

LEMMA PutKeeps ==
  ASSUME NEW question, Names(question), Names(card), PollOK, ServerInv, Grows,
         put(question)
  PROVE  Names(card)' /\ PollOK'
<1>1. card' = question /\ Names(question)'
  BY NamesStay DEF put
<1>2. Names(card)'
  BY <1>1 DEF Names
<1>3. CASE question.q # card.q
  <2>1. poll' = NewPoll
    BY <1>3 DEF put
  <2>2. poll' \in [state : {"idle", "out"}, known : BOOLEAN, late : BOOLEAN, row : Row,
                  results : Row, final : BOOLEAN]
        /\ poll'.state = "idle" /\ poll'.results.recorded = FALSE
    BY <2>1 DEF NewPoll, NoResults, Row, NoAnswer
  <2>3. QED
    BY <1>2, <2>2 DEF PollOK
<1>4. CASE question.q = card.q
  <2>1. /\ poll' \in [state : {"idle", "out"}, known : BOOLEAN, late : BOOLEAN, row : Row,
                      results : Row, final : BOOLEAN]
        /\ poll'.state = poll.state /\ poll'.row = poll.row /\ poll'.results = poll.results
    BY <1>4 DEF put, PollOK
  <2>2. Asked \subseteq Asked' /\ card'.q = card.q
    BY <1>1, <1>4 DEF Grows
  <2>3. card.q \in Asked /\ Recorded(card.q)
        => questions'[card.q].closedAt # NotClosed /\ responses'[card.q] = responses[card.q]
    BY DEF Grows, Recorded
  <2>4. Recorded(card.q)' <=> questions'[card.q].closedAt # NotClosed
    BY <2>2 DEF Recorded
  <2>5. QED
    BY <1>2, <2>1, <2>2, <2>3, <2>4 DEF PollOK
<1>5. QED
  BY <1>2, <1>3, <1>4

(* A step that leaves the server and the asks: what is asked and closed stays. *)
LEMMA SendsStay ==
  ASSUME ServerInv, UNCHANGED server, WindowInv, UNCHANGED sends, up' => up
  PROVE  ServerInv' /\ Grows /\ ClosesOK' /\ AskingOK'
         /\ Names(asking.answer)' /\ Names(closing.answer)'
<1>1. ServerInv' /\ Grows /\ NoneOpened
  BY ServerStays
<1>2. UNCHANGED <<presses, unanswered, asking, asks, closing, closes>>
  BY DEF sends
<1>3. ClosesOK' /\ AskingOK'
  BY <1>1, <1>2, ClosesStay, AskingStays DEF WindowInv
<1>4. Names(asking.answer)' /\ Names(closing.answer)'
  BY <1>1, <1>2 DEF WindowInv, HoldsOK, Grows, Names
<1>5. QED
  BY <1>1, <1>3, <1>4

LEMMA NoCardNames == Names(NoCard)
  BY DEF Names, NoCard, Card, NoQuestion

LEMMA SnapshotNames == ServerInv => Names(SnapshotQuestion)
<1> SUFFICES ASSUME ServerInv PROVE Names(SnapshotQuestion)
  OBVIOUS
<1> DEFINE open == {q \in Asked : questionOpen(q, now)}
<1>1. CASE open = {}
  BY <1>1, NoCardNames DEF SnapshotQuestion
<1>2. CASE open # {}
  <2>1. PICK q \in open : SnapshotQuestion = teacherQuestion(q, now)
    BY <1>2 DEF SnapshotQuestion
  <2>2. q \in Asked /\ q \in Nat /\ questionOpen(q, now)
    BY AskedAre DEF ServerInv
  <2>3. QED
    BY <2>1, <2>2 DEF teacherQuestion, Names, Card
<1>3. QED
  BY <1>1, <1>2

LEMMA ReadsKeep ==
  ASSUME ServerInv, WindowInv, Reads
  PROVE  ServerInv' /\ Grows /\ WindowInv'
<1>1. UNCHANGED server /\ UNCHANGED sends /\ up' = up
  BY DEF Reads, ReadServed, ReadTaken
<1>2. ServerInv' /\ Grows /\ ClosesOK' /\ AskingOK' /\ Names(asking.answer)' /\ Names(closing.answer)'
  BY <1>1, SendsStay
<1>3. UNCHANGED <<asking, closing>>
  BY <1>1 DEF sends
<1>4. HoldsOK /\ PollOK /\ Names(card) /\ Names(reading.question)
  BY DEF WindowInv, HoldsOK
<1>5. CASE ReadServed
  <2>1. Names(SnapshotQuestion) /\ UNCHANGED <<card, poll>>
        /\ reading' = [reading EXCEPT !.state = "served", !.question = SnapshotQuestion]
    BY <1>5, SnapshotNames DEF ReadServed
  <2>2. reading' \in [state : {"idle", "out", "served"}, again : BOOLEAN, question : Card]
        /\ reading'.question = SnapshotQuestion
    BY <1>4, <2>1 DEF HoldsOK, Names
  <2>3. Names(reading.question)' /\ Names(card)'
    BY <1>2, <1>4, <2>1, <2>2, NamesStay DEF Names
  <2>4. PollOK'
    BY <1>2, <1>4, <2>1, PollStays
  <2>5. QED
    BY <1>1, <1>2, <1>3, <1>4, <2>2, <2>3, <2>4 DEF WindowInv, HoldsOK
<1>6. CASE ReadTaken
  <2>1. reading' = [state |-> IF reading.again THEN "out" ELSE "idle",
                    again |-> FALSE, question |-> NoCard]
    BY <1>6 DEF ReadTaken
  <2>2. reading' \in [state : {"idle", "out", "served"}, again : BOOLEAN, question : Card]
        /\ reading'.question = NoCard
    BY <2>1, NoCardNames DEF Names
  <2>3. Names(reading.question)'
    BY <1>2, <2>2, NoCardNames, NamesStay DEF Names
  <2>4. Names(card)' /\ PollOK'
    <3>1. CASE put(reading.question)
      BY <1>2, <1>4, <3>1, PutKeeps
    <3>2. CASE Keep
      BY <1>2, <1>4, <3>2, PollStays, NamesStay DEF Keep, Names
    <3>3. QED
      BY <1>6, <3>1, <3>2 DEF ReadTaken
  <2>5. QED
    BY <1>1, <1>2, <1>3, <1>4, <2>2, <2>3, <2>4 DEF WindowInv, HoldsOK
<1>7. QED
  BY <1>5, <1>6 DEF Reads

LEMMA PollsKeep ==
  ASSUME ServerInv, WindowInv, Polls
  PROVE  ServerInv' /\ Grows /\ WindowInv'
<1>1. UNCHANGED server /\ UNCHANGED sends /\ UNCHANGED <<up, card, reading>>
  BY DEF Polls, PollReads, PollTaken
<1>2. ServerInv' /\ Grows /\ ClosesOK' /\ AskingOK'
  BY <1>1, SendsStay
<1>3. UNCHANGED <<asking, closing, questions, responses>>
  BY <1>1 DEF sends, server
<1>4. HoldsOK'
  BY <1>1, <1>2, <1>3, HoldsStay DEF WindowInv
<1>5. PollOK /\ Names(card)
  BY DEF WindowInv, HoldsOK
<1>6. Asked' = Asked
  BY <1>3 DEF Asked
<1>7. CASE PollReads
  <2>1. card.q \in Asked
    BY <1>5, <1>7 DEF PollReads, Names
  <2> DEFINE row == [open |-> ~Recorded(card.q) /\ ~ended, recorded |-> Recorded(card.q),
                     counted |-> NoAnswer]
  <2>2. row \in Row
    BY DEF Row, NoAnswer, Recorded
  <2>3. poll' = [poll EXCEPT !.state = "out", !.late = poll.known, !.row = row]
    BY <1>7 DEF PollReads
  <2>4. row.recorded <=> Recorded(card.q)
    OBVIOUS
  <2> HIDE DEF row
  <2>5. /\ poll' \in [state : {"idle", "out"}, known : BOOLEAN, late : BOOLEAN, row : Row,
                      results : Row, final : BOOLEAN]
        /\ poll'.row = row /\ poll'.results = poll.results
    BY <1>5, <2>2, <2>3 DEF PollOK
  <2>6. PollOK'
    BY <1>1, <1>3, <1>5, <1>6, <2>1, <2>4, <2>5 DEF PollOK, Recorded
  <2>7. QED
    BY <1>2, <1>4, <2>6 DEF WindowInv
<1>8. CASE PollTaken
  <2> DEFINE open == poll.row.open /\ now < Bell
             row == [poll.row EXCEPT !.open = open, !.counted = responses[card.q]]
  <2>1. card.q \in Asked /\ (poll.row.recorded => Recorded(card.q)) /\ poll.row \in Row
        /\ responses[card.q] \in Nat
    BY <1>5, <1>8, AskedAre DEF PollTaken, PollOK, ServerInv
  <2>2. row \in Row /\ row.counted = responses[card.q] /\ (row.recorded <=> poll.row.recorded)
    BY <2>1 DEF Row
  <2>3. poll' = [poll EXCEPT !.state = "idle", !.row = NoResults, !.results = row,
                   !.known = poll.known \/ ~open, !.final = ~open /\ poll.late]
    BY <1>8 DEF PollTaken
  <2>4. NoResults \in Row /\ open \in BOOLEAN
    BY <2>1 DEF NoResults, Row, NoAnswer
  <2> HIDE DEF row, open
  <2>5. /\ poll' \in [state : {"idle", "out"}, known : BOOLEAN, late : BOOLEAN, row : Row,
                      results : Row, final : BOOLEAN]
        /\ poll'.state = "idle" /\ poll'.results = row
    BY <1>5, <2>2, <2>3, <2>4 DEF PollOK
  <2>6. PollOK'
    BY <1>1, <1>3, <1>6, <2>1, <2>2, <2>5 DEF PollOK, Recorded
  <2>7. QED
    BY <1>2, <1>4, <2>6 DEF WindowInv
<1>9. QED
  BY <1>7, <1>8 DEF Polls

(* The card put away, and nothing polled. *)
LEMMA AwayKeeps ==
  ASSUME card' = NoCard, poll' = NewPoll
  PROVE  Names(card)' /\ PollOK'
<1>1. Names(card)'
  BY DEF Names, NoCard, Card, NoQuestion
<1>2. /\ poll' \in [state : {"idle", "out"}, known : BOOLEAN, late : BOOLEAN, row : Row,
                    results : Row, final : BOOLEAN]
      /\ poll'.state = "idle" /\ poll'.results.recorded = FALSE
  BY DEF NewPoll, NoResults, Row, NoAnswer
<1>3. QED
  BY <1>1, <1>2 DEF PollOK

LEMMA PutsAwayKeeps ==
  ASSUME ServerInv, WindowInv, PutsAway
  PROVE  ServerInv' /\ Grows /\ WindowInv'
<1>1. UNCHANGED server /\ UNCHANGED sends /\ UNCHANGED <<up, reading>>
  BY DEF PutsAway, Done, HeardDone
<1>2. ServerInv' /\ Grows /\ ClosesOK' /\ AskingOK' /\ Names(asking.answer)' /\ Names(closing.answer)'
  BY <1>1, SendsStay
<1>3. UNCHANGED <<asking, closing>>
  BY <1>1 DEF sends
<1>4. HoldsOK /\ PollOK /\ Names(card) /\ Names(reading.question)
  BY DEF WindowInv, HoldsOK
<1>5. Names(reading.question)'
  BY <1>1, <1>2, <1>4 DEF Names, Grows
<1>6. Names(card)' /\ PollOK'
  <2>1. CASE Done
    BY <1>2, <1>4, <2>1, PutKeeps, NoCardNames DEF Done
  <2>2. ASSUME NEW q \in Asked, HeardDone(q) PROVE Names(card)' /\ PollOK'
    <3>1. CASE card' = NoCard /\ poll' = NewPoll
      BY <3>1, AwayKeeps
    <3>2. CASE UNCHANGED <<card, poll>>
      BY <1>2, <1>4, <3>2, PollStays DEF Names, Grows
    <3>3. QED
      BY <2>2, <3>1, <3>2 DEF HeardDone
  <2>3. QED
    BY <2>1, <2>2 DEF PutsAway
<1>7. QED
  BY <1>1, <1>2, <1>3, <1>4, <1>5, <1>6 DEF WindowInv, HoldsOK

LEMMA PressesStay ==
  ASSUME ServerInv, ServerInv', Grows, PressesOK, presses' = presses,
         unanswered' \in 0 .. Len(presses),
         \A q \in Asked' \ Asked : questions'[q].ev =< Len(presses),
         \A r \in asks' : r \in asks \/ \E s \in asks : r = [s EXCEPT !.live = FALSE],
         asking'.state # "idle" => asking.state # "idle" \/ Len(presses) > 0
  PROVE  PressesOK' /\ \A r \in asks' : r \in asks \/ \E s \in asks : r.ev = s.ev /\ r.at = s.at
<1>1. Len(presses) \in Nat
  BY LenProperties DEF PressesOK
<1>2. \A q \in Asked' : questions'[q].ev =< Len(presses)
  BY DEF Grows, PressesOK
<1>3. \A s \in asks : [s EXCEPT !.live = FALSE] \in AskRequest
        /\ [s EXCEPT !.live = FALSE].ev = s.ev /\ [s EXCEPT !.live = FALSE].at = s.at
  BY DEF PressesOK, AskRequest
<1>4. \A s \in asks : s \in AskRequest /\ s.ev \in 1 .. Len(presses) /\ s.at =< now'
  BY DEF PressesOK, AskRequest, Grows, ServerInv, ServerOK
<1>5. ASSUME NEW r \in asks'
      PROVE  r \in AskRequest /\ r.ev \in 1 .. Len(presses) /\ r.at =< now'
  <2>1. CASE r \in asks
    BY <1>4, <2>1
  <2>2. CASE \E s \in asks : r = [s EXCEPT !.live = FALSE]
    <3>1. PICK s \in asks : r = [s EXCEPT !.live = FALSE]
      BY <2>2
    <3>2. r \in AskRequest /\ r.ev = s.ev /\ r.at = s.at
      BY <1>3, <3>1
    <3>3. QED
      BY <1>4, <3>2
  <2>3. QED
    BY <2>1, <2>2
<1>6. QED
  BY <1>2, <1>3, <1>5 DEF PressesOK

LEMMA HearKeeps ==
  ASSUME ServerInv, WindowInv, Hear
  PROVE  ServerInv' /\ Grows /\ WindowInv'
<1> DEFINE event == log[heard + 1]
<1>1. UNCHANGED server /\ (HearOpened(event) \/ HearClosed(event) \/ HearEnd(event))
  BY DEF Hear
<1> HIDE DEF event
<1>2. HoldsOK /\ PollOK /\ Names(card) /\ Names(reading.question)
  BY DEF WindowInv, HoldsOK
<1>3. ServerInv' /\ Grows /\ NoneOpened
  BY <1>1, ServerStays
<1>4. CASE HearOpened(event) \/ HearClosed(event)
  <2>1. UNCHANGED sends /\ up' = up
    BY <1>4 DEF HearOpened, HearClosed
  <2>2. ClosesOK' /\ AskingOK' /\ Names(asking.answer)' /\ Names(closing.answer)'
    BY <1>1, <2>1, SendsStay
  <2>3. reading' \in [state : {"idle", "out", "served"}, again : BOOLEAN, question : Card]
        /\ reading'.question = reading.question
    BY <1>2, <1>4 DEF HearOpened, HearClosed, read, HoldsOK
  <2>4. Names(reading.question)'
    BY <1>2, <1>3, <2>3 DEF Names, Grows
  <2>5. Names(card)' /\ PollOK'
    <3>1. CASE Keep
      BY <1>2, <1>3, <3>1, PollStays DEF Keep, Names, Grows
    <3>2. CASE put([card EXCEPT !.open = FALSE])
      <4> DEFINE question == [card EXCEPT !.open = FALSE]
      <4>1. Names(question)
        BY <1>2 DEF Names, Card
      <4>2. put(question)
        BY <3>2
      <4> HIDE DEF question
      <4>3. QED
        BY <1>2, <1>3, <4>1, <4>2, PutKeeps
    <3>3. QED
      BY <1>4, <3>1, <3>2 DEF HearOpened, HearClosed
  <2>6. UNCHANGED <<asking, closing>>
    BY <2>1 DEF sends
  <2>7. QED
    BY <1>2, <1>3, <2>1, <2>2, <2>3, <2>4, <2>5, <2>6 DEF WindowInv, HoldsOK
<1>5. CASE HearEnd(event)
  <2>1. /\ up' = FALSE /\ card' = NoCard /\ poll' = NewPoll
        /\ reading' = [reading EXCEPT !.state = "idle", !.again = FALSE, !.question = NoCard]
        /\ asking' = Idle /\ closing' = Idle
        /\ asks' = {[r EXCEPT !.live = FALSE] : r \in asks}
        /\ closes' = {[r EXCEPT !.live = FALSE] : r \in closes}
        /\ UNCHANGED <<presses, unanswered>>
    BY <1>5 DEF HearEnd
  <2>2. Names(card)' /\ PollOK'
    BY <2>1, AwayKeeps
  <2>3. NoCard \in Card /\ NoCard.q = NoQuestion /\ NoCard.open = FALSE
        /\ Idle \in AskState /\ Idle.answer = NoCard /\ Idle.state = "idle"
    BY DEF NoCard, Card, Idle, AskState, NoQuestion
  <2>4. reading' \in [state : {"idle", "out", "served"}, again : BOOLEAN, question : Card]
        /\ reading'.question = NoCard
    BY <1>2, <2>1, <2>3 DEF HoldsOK
  <2>5. HoldsOK'
    BY <2>1, <2>2, <2>3, <2>4 DEF HoldsOK, Names
  <2>6. ClosesOK'
    BY <1>3, <2>1, ClosesStay DEF WindowInv
  <2>7. PressesOK /\ PairsOK
    BY DEF WindowInv, AskingOK
  <2>8. PressesOK' /\ \A r \in asks' : r \in asks \/ \E s \in asks : r.ev = s.ev /\ r.at = s.at
    BY <1>3, <2>1, <2>3, <2>7, PressesStay DEF NoneOpened, PressesOK
  <2>9. PairsOK'
    BY <1>3, <2>1, <2>7, <2>8, PairsStay DEF NoneOpened, PressesOK
  <2>10. Refused' /\ Settled'
    BY <2>1, <2>3 DEF Refused, Settled
  <2>11. QED
    BY <1>3, <2>2, <2>5, <2>6, <2>8, <2>9, <2>10 DEF WindowInv, AskingOK
<1>6. QED
  BY <1>1, <1>4, <1>5

-----------------------------------------------------------------------------
(* Its asks. *)

LEMMA AskKeeps ==
  ASSUME ServerInv, WindowInv, NEW draft \in Drafts, Ask(draft)
  PROVE  ServerInv' /\ Grows /\ WindowInv'
<1> DEFINE ev == openAttemptFor(draft)
           press == [draft |-> draft, ev |-> ev, told |-> FALSE]
           request == [ev |-> ev, at |-> now, live |-> TRUE]
           n == Len(presses)
<1>1. /\ up /\ asking.state = "idle" /\ asking' = [Idle EXCEPT !.state = "out"]
      /\ presses' = Append(presses, press) /\ asks' = asks \cup {request}
      /\ UNCHANGED <<up, card, reading, poll, unanswered, closing, closes>> /\ UNCHANGED server
  BY DEF Ask
<1>2. ServerInv' /\ Grows /\ NoneOpened /\ Asked' = Asked /\ UNCHANGED <<now, ended, questions>>
  BY <1>1, ServerStays DEF server
<1>3. PressesOK /\ Settled /\ PairsOK /\ presses \in Seq(Press) /\ n \in Nat
      /\ \A i \in 1 .. n : presses[i] \in Press
  <2>1. PressesOK /\ Settled /\ PairsOK /\ presses \in Seq(Press)
    BY DEF WindowInv, AskingOK, PressesOK
  <2>2. QED
    BY <2>1, LenProperties, ElementOfSeq
<1>4. ev \in 1 .. n + 1 /\ now \in Nat
  <2>1. unanswered \in 0 .. n /\ (unanswered # 0 => presses[unanswered].ev \in 1 .. n)
    BY <1>3 DEF PressesOK
  <2>2. QED
    BY <1>3, <2>1 DEF openAttemptFor, NoPress, ServerInv, ServerOK
<1>5. press \in Press /\ request \in AskRequest
  BY <1>4 DEF Press, AskRequest
<1>6. request.ev = ev /\ request.at = now /\ press.draft = draft /\ press.ev = ev /\ ~press.told
  OBVIOUS
<1>7. /\ presses' \in Seq(Press) /\ Len(presses') = n + 1 /\ presses'[n + 1] = press
      /\ \A i \in 1 .. n : presses'[i] = presses[i]
  <2> HIDE DEF press
  <2> QED BY <1>1, <1>3, <1>5, AppendProperties
<1>8. ev = presses[n].ev \/ ev = n + 1 \/ unanswered # n
  BY <1>3 DEF openAttemptFor, NoPress
<1>9. n > 0 /\ presses[n].draft = draft /\ ~presses[n].told => presses[n].ev = ev \/ (ev = n + 1 /\ Over)
  <2>1. unanswered = n /\ n > 0 /\ presses[n].draft = draft => ev = presses[n].ev
    BY DEF openAttemptFor, NoPress
  <2>2. unanswered = NoPress => ev = n + 1
    BY DEF openAttemptFor
  <2>3. QED
    BY <1>1, <1>3, <2>1, <2>2 DEF Settled
<1> HIDE DEF ev, press, request
<1>10. PressesOK'
  <2>1. \A i \in 1 .. n + 1 : presses'[i].ev \in 1 .. i
    BY <1>3, <1>4, <1>6, <1>7 DEF PressesOK
  <2>2. \A r \in asks' : r \in AskRequest /\ r.ev \in 1 .. n + 1 /\ r.at =< now
    BY <1>1, <1>3, <1>4, <1>5, <1>6 DEF PressesOK
  <2>3. \A q \in Asked : questions[q].ev =< n + 1
    <3>1. \A q \in Asked : questions[q].ev \in Nat /\ questions[q].ev =< n
      BY <1>3, AskedAre DEF PressesOK, ServerInv, Question
    <3>2. QED
      BY <1>3, <3>1
  <2>4. unanswered \in 0 .. n + 1
    BY <1>3 DEF PressesOK
  <2>5. QED
    BY <1>1, <1>2, <1>3, <1>7, <2>1, <2>2, <2>3, <2>4 DEF PressesOK
<1>11. Refused' /\ Settled'
  <2>1. asking'.state = "out"
    BY <1>1 DEF Idle
  <2>2. QED
    BY <2>1 DEF Refused, Settled
<1>12. PairsOK'
  <2> SUFFICES ASSUME NEW i \in 1 .. n, presses'[i].draft = presses'[i + 1].draft, ~presses'[i].told,
                      presses'[i].ev # presses'[i + 1].ev
               PROVE  /\ {q \in Asked : presses'[i + 1].ev # 0 /\ questions[q].ev = presses'[i + 1].ev} = {}
                      /\ ended \/ Bell =< now
                      /\ \A r \in asks' : r.ev = presses'[i + 1].ev => ended \/ Bell =< r.at
    BY <1>2, <1>3, <1>7 DEF PairsOK, Dry, HeldAs, Over
  <2>1. CASE i < n
    <3>1. i \in 1 .. n - 1 /\ i + 1 \in 1 .. n
      BY <1>3, <2>1
    <3>2. presses[i].draft = presses[i + 1].draft /\ ~presses[i].told
          /\ presses[i].ev # presses[i + 1].ev /\ presses'[i + 1] = presses[i + 1]
      BY <1>7, <3>1
    <3>3. Dry(presses[i + 1].ev)
      BY <1>3, <3>1, <3>2 DEF PairsOK
    <3>4. \A r \in asks' : r.ev = presses[i + 1].ev => ended \/ Bell =< r.at
      BY <1>1, <1>6, <3>3 DEF Dry, Over
    <3>5. QED
      BY <3>2, <3>3, <3>4 DEF Dry, HeldAs, Over
  <2>2. CASE i = n
    <3>1. presses'[i] = presses[n] /\ presses'[i + 1] = press
      BY <1>7, <2>2
    <3>2. ev = n + 1 /\ Over
      BY <1>3, <1>6, <1>9, <2>2, <3>1
    <3>3. \A q \in Asked : questions[q].ev # ev
      <4>1. \A q \in Asked : questions[q].ev \in Nat /\ questions[q].ev =< n
        BY <1>3, AskedAre DEF PressesOK, ServerInv, Question
      <4>2. QED
        BY <1>3, <3>2, <4>1
    <3>4. \A r \in asks : r.ev # ev
      BY <1>3, <3>2 DEF PressesOK
    <3>5. \A r \in asks' : r.ev = ev => ended \/ Bell =< r.at
      BY <1>1, <1>6, <3>2, <3>4 DEF Over
    <3>6. QED
      BY <1>6, <3>1, <3>2, <3>3, <3>5 DEF Over
  <2>3. QED
    BY <1>3, <2>1, <2>2
<1>13. HoldsOK' /\ PollOK' /\ ClosesOK'
  <2>1. HoldsOK /\ PollOK /\ ClosesOK
    BY DEF WindowInv
  <2>2. PollOK' /\ ClosesOK'
    BY <1>1, <1>2, <2>1, PollStays, ClosesStay
  <2>3. asking' \in AskState /\ asking'.answer = NoCard
    BY <1>1 DEF Idle, AskState, NoCard, Card, NoQuestion
  <2>4. Names(NoCard)'
    BY DEF Names, NoCard, Card, NoQuestion
  <2>5. Names(card)' /\ Names(reading.question)' /\ Names(closing.answer)'
    BY <1>1, <1>2, <2>1 DEF HoldsOK, Names
  <2>6. QED
    BY <1>1, <2>1, <2>2, <2>3, <2>4, <2>5 DEF HoldsOK, Names
<1>14. QED
  BY <1>2, <1>10, <1>11, <1>12, <1>13 DEF WindowInv, AskingOK

(* What an ask taken up leaves: no answer, the question held, or a refusal. *)
HeldCard(ev, at) == teacherQuestion(CHOOSE q \in HeldAs(ev) : TRUE, at)
Answers(answer) == asking' = asking \/ asking' = [state |-> "answered", answer |-> answer]

LEMMA AskServedIs ==
  ASSUME NEW r \in asks, AskServed(r)
  PROVE  \E at \in r.at .. now :
           \/ UNCHANGED server /\ HeldAs(r.ev) # {} /\ Answers(HeldCard(r.ev, at)')
           \/ OpensNew(r.ev, at) /\ sessionRunning(at) /\ Answers(HeldCard(r.ev, at)')
           \/ UNCHANGED server /\ ~sessionRunning(at) /\ Answers(NoCard)
  BY DEF AskServed, openQuestion, OpensNew, RefusesOpen, Answers, HeldCard

LEMMA AskServedKeeps ==
  ASSUME ServerInv, WindowInv, NEW r \in asks, AskServed(r)
  PROVE  ServerInv' /\ Grows /\ WindowInv'
<1>1. /\ HoldsOK /\ PollOK /\ ClosesOK /\ PressesOK /\ Refused /\ Settled /\ PairsOK
      /\ asking \in AskState
  BY DEF WindowInv, AskingOK, HoldsOK
<1>2. /\ UNCHANGED <<up, card, reading, poll, presses, unanswered, closing, closes>>
      /\ asks' = asks \ {r}
  BY DEF AskServed
<1>3. Len(presses) \in Nat /\ Len(presses) > 0 /\ r.ev \in Nat \ {0} /\ r.ev =< Len(presses)
      /\ r.at \in Nat /\ r.at =< now /\ now \in Nat
  <2>1. Len(presses) \in Nat
    BY <1>1, LenProperties DEF PressesOK
  <2>2. r \in AskRequest /\ r.ev \in 1 .. Len(presses) /\ r.at =< now
    BY <1>1 DEF PressesOK
  <2>3. QED
    BY <2>1, <2>2 DEF AskRequest, ServerInv, ServerOK
<1>4. PICK at \in r.at .. now :
        \/ UNCHANGED server /\ HeldAs(r.ev) # {} /\ Answers(HeldCard(r.ev, at)')
        \/ OpensNew(r.ev, at) /\ sessionRunning(at) /\ Answers(HeldCard(r.ev, at)')
        \/ UNCHANGED server /\ ~sessionRunning(at) /\ Answers(NoCard)
  BY AskServedIs
<1>5. at \in Nat /\ r.at =< at /\ at =< now
  BY <1>3
<1>6. /\ ServerInv' /\ Grows
      /\ \A q \in Asked' \ Asked : questions'[q].ev = r.ev /\ sessionRunning(at)
  <2>1. CASE UNCHANGED server
    BY <2>1, ServerStays
  <2>2. CASE OpensNew(r.ev, at) /\ sessionRunning(at)
    <3>1. /\ ServerInv' /\ Grows
          /\ questions'[Len(questions) + 1].ev = r.ev
          /\ \A q \in Asked' : q \in Asked \/ q = Len(questions) + 1
      BY <1>3, <1>5, <2>2, OpensKeeps
    <3>2. QED
      BY <2>2, <3>1
  <2>3. QED
    BY <1>4, <2>1, <2>2
<1>7. ASSUME HeldAs(r.ev)' # {}
      PROVE  Names(HeldCard(r.ev, at))' /\ HeldCard(r.ev, at)'.q # NoQuestion
  <2>1. PICK e \in Nat : e = r.ev
    BY <1>3
  <2>2. HeldAs(e)' # {}
    BY <1>7, <2>1 DEF HeldAs
  <2>3. PICK q \in HeldAs(e)' : HeldCard(e, at)' = teacherQuestion(q, at)'
    BY <2>2 DEF HeldCard
  <2>4. questions' \in Seq(Question)
    BY <1>6 DEF ServerInv, ServerOK
  <2>5. q \in Asked' /\ q \in Nat /\ q # NoQuestion
    BY <2>3, <2>4, LenProperties DEF HeldAs, Asked, NoQuestion
  <2>6. questionOpen(q, at)' \in BOOLEAN
    BY DEF questionOpen, sessionRunning
  <2>7. teacherQuestion(q, at)'.q = q /\ teacherQuestion(q, at)' \in Card
    BY <2>5, <2>6 DEF teacherQuestion, Card
  <2>8. HeldCard(e, at)' = HeldCard(r.ev, at)'
    BY <2>1 DEF HeldCard, HeldAs
  <2>9. HeldCard(r.ev, at)' = teacherQuestion(q, at)'
    BY <2>3, <2>8
  <2>10. QED
    BY <2>5, <2>7, <2>9 DEF Names
<1>8. Names(NoCard)' /\ NoCard \in Card /\ NoCard.q = NoQuestion
  BY DEF Names, NoCard, Card, NoQuestion
<1>9. PICK answer \in Card :
        /\ Answers(answer) /\ answer.q \in Asked' \cup {NoQuestion}
        /\ answer.open => answer.q \in Asked'
        /\ answer.q = NoQuestion => Over
  <2>1. ASSUME Answers(HeldCard(r.ev, at)'),
               (UNCHANGED server /\ HeldAs(r.ev) # {}) \/ OpensNew(r.ev, at)
        PROVE  \E answer \in Card :
                 /\ Answers(answer) /\ answer.q \in Asked' \cup {NoQuestion}
                 /\ answer.open => answer.q \in Asked'
                 /\ answer.q = NoQuestion => Over
    <3>1. HeldAs(r.ev)' # {}
      <4>1. CASE UNCHANGED server /\ HeldAs(r.ev) # {}
        BY <1>2, <4>1 DEF server, HeldAs, Asked
      <4>2. CASE OpensNew(r.ev, at)
        <5>1. questions'[Len(questions) + 1].ev = r.ev /\ Len(questions') = Len(questions) + 1
          BY <1>3, <1>5, <4>2, OpensKeeps
        <5>2. questions' \in Seq(Question) /\ questions \in Seq(Question)
          BY <1>6 DEF ServerInv, ServerOK
        <5>3. Len(questions) + 1 \in Asked'
          BY <5>1, <5>2, LenProperties DEF Asked
        <5>4. QED
          BY <1>3, <5>1, <5>3 DEF HeldAs
      <4>3. QED
        BY <2>1, <4>1, <4>2
    <3>2. QED
      BY <1>7, <2>1, <3>1 DEF Names
  <2>2. ASSUME ~sessionRunning(at), Answers(NoCard)
        PROVE  \E answer \in Card :
                 /\ Answers(answer) /\ answer.q \in Asked' \cup {NoQuestion}
                 /\ answer.open => answer.q \in Asked'
                 /\ answer.q = NoQuestion => Over
    <3>1. Over
      BY <1>5, <2>2, Constants, <1>3 DEF sessionRunning, Over
    <3>2. QED
      BY <1>8, <2>2, <3>1 DEF NoCard
  <2>3. QED
    BY <1>4, <2>1, <2>2
<1>10. asking' = asking \/ asking' = [state |-> "answered", answer |-> answer]
  BY <1>9 DEF Answers
<1>11. asking' \in AskState /\ Names(asking.answer)'
  <2>1. CASE asking' = asking
    BY <1>1, <1>6, <2>1 DEF HoldsOK, Names, Grows
  <2>2. CASE asking' = [state |-> "answered", answer |-> answer]
    BY <1>9, <2>2 DEF AskState, Names
  <2>3. QED
    BY <1>10, <2>1, <2>2
<1>12. HoldsOK' /\ PollOK' /\ ClosesOK'
  <2>1. Names(card)' /\ Names(reading.question)' /\ Names(closing.answer)'
    BY <1>1, <1>2, <1>6 DEF HoldsOK, Names, Grows
  <2>2. PollOK' /\ ClosesOK'
    BY <1>1, <1>2, <1>6, PollStays, ClosesStay
  <2>3. QED
    BY <1>1, <1>2, <1>11, <2>1, <2>2 DEF HoldsOK
<1>13. PressesOK' /\ \A s \in asks' : s \in asks \/ \E t \in asks : s.ev = t.ev /\ s.at = t.at
  BY <1>1, <1>2, <1>3, <1>6, PressesStay DEF PressesOK
<1>14. PairsOK'
  <2>1. ASSUME NEW q \in Asked' \ Asked, NEW i \in 1 .. Len(presses), Dry(presses[i].ev)
        PROVE  questions'[q].ev # presses[i].ev
    <3> SUFFICES ASSUME r.ev = presses[i].ev PROVE FALSE
      BY <1>6
    <3>1. ended \/ Bell =< r.at
      BY <2>1 DEF Dry
    <3>2. sessionRunning(at)
      BY <1>6
    <3>3. QED
      BY <1>3, <1>5, <3>1, <3>2, Constants DEF sessionRunning
  <2>2. QED
    BY <1>1, <1>2, <1>6, <1>13, <2>1, PairsStay
<1>15. Over => Over'
  BY <1>6, OverStays DEF ServerInv
<1>16. Refused' /\ Settled'
  BY <1>1, <1>2, <1>9, <1>10, <1>15 DEF Refused, Settled
<1>17. QED
  BY <1>6, <1>12, <1>13, <1>14, <1>16 DEF WindowInv, AskingOK

LEMMA AskAnsweredKeeps ==
  ASSUME ServerInv, WindowInv, AskAnswered
  PROVE  ServerInv' /\ Grows /\ WindowInv'
<1> DEFINE n == Len(presses)
           told == asking.answer.q # NoQuestion
           press == [presses[n] EXCEPT !.told = told]
<1>1. /\ asking.state = "answered" /\ unanswered' = NoPress /\ asking' = Idle
      /\ presses' = [presses EXCEPT ![n].told = told]
      /\ put(asking.answer) \/ Keep
      /\ UNCHANGED <<up, reading, asks, closing, closes>> /\ UNCHANGED server
  BY DEF AskAnswered
<1>2. ServerInv' /\ Grows /\ NoneOpened
  BY <1>1, ServerStays
<1>3. /\ HoldsOK /\ PollOK /\ ClosesOK /\ PressesOK /\ Refused /\ PairsOK
      /\ Names(card) /\ Names(asking.answer) /\ presses \in Seq(Press) /\ n \in Nat /\ n > 0
      /\ \A i \in 1 .. n : presses[i] \in Press
  <2>1. HoldsOK /\ PollOK /\ ClosesOK /\ PressesOK /\ Refused /\ PairsOK
        /\ Names(card) /\ Names(asking.answer) /\ presses \in Seq(Press)
    BY DEF WindowInv, HoldsOK, AskingOK, PressesOK
  <2>2. n > 0
    BY <1>1, <2>1 DEF PressesOK
  <2>3. QED
    BY <2>1, <2>2, LenProperties, ElementOfSeq
<1>4. press \in Press /\ presses' = [presses EXCEPT ![n] = press]
      /\ press.ev = presses[n].ev /\ press.draft = presses[n].draft /\ press.told = told
  <2>1. presses[n] \in Press /\ told \in BOOLEAN /\ n \in 1 .. n
    BY <1>3
  <2>2. presses' = [presses EXCEPT ![n] = press]
    BY <1>1
  <2>3. press \in Press /\ press.ev = presses[n].ev /\ press.draft = presses[n].draft /\ press.told = told
    <3> HIDE DEF told
    <3> QED BY <2>1 DEF Press
  <2>4. QED
    BY <2>2, <2>3
<1> HIDE DEF press
<1>5. /\ presses' \in Seq(Press) /\ Len(presses') = n
      /\ \A i \in 1 .. n : presses'[i] = IF i = n THEN press ELSE presses[i]
  BY <1>3, <1>4, ExceptSeq
<1>6. \A i \in 1 .. n : presses'[i].ev = presses[i].ev /\ presses'[i].draft = presses[i].draft
        /\ (i # n => presses'[i].told = presses[i].told)
  BY <1>4, <1>5
<1>7. UNCHANGED <<now, ended, questions>> /\ Asked' = Asked
  BY <1>1 DEF server, Asked
<1>8. PressesOK'
  <2>1. asking'.state = "idle" /\ unanswered' = 0
    BY <1>1 DEF Idle, NoPress
  <2>2. QED
    BY <1>1, <1>3, <1>5, <1>6, <1>7, <2>1 DEF PressesOK
<1>9. Refused' /\ Settled'
  <2>1. asking'.state = "idle"
    BY <1>1 DEF Idle
  <2>2. told \/ Over
    BY <1>1, <1>3 DEF Refused
  <2>3. presses'[n] = press /\ (Over => Over')
    BY <1>3, <1>5, <1>7 DEF Over
  <2>4. QED
    BY <1>1, <1>4, <1>5, <2>1, <2>2, <2>3 DEF Refused, Settled, NoPress
<1>10. PairsOK'
  <2> SUFFICES ASSUME NEW i \in 1 .. n - 1, presses'[i].draft = presses'[i + 1].draft, ~presses'[i].told,
                      presses'[i].ev # presses'[i + 1].ev
               PROVE  Dry(presses'[i + 1].ev)
    BY <1>1, <1>5, <1>7 DEF PairsOK, Dry, HeldAs, Over
  <2>1. i \in 1 .. n /\ i + 1 \in 1 .. n /\ i # n
    BY <1>3
  <2>2. presses[i].draft = presses[i + 1].draft /\ ~presses[i].told
        /\ presses[i].ev # presses[i + 1].ev /\ presses'[i + 1].ev = presses[i + 1].ev
    BY <1>6, <2>1
  <2>3. QED
    BY <1>3, <2>2 DEF PairsOK
<1>11. Names(card)' /\ PollOK'
  <2>1. CASE put(asking.answer)
    BY <1>2, <1>3, <2>1, PutKeeps
  <2>2. CASE Keep
    BY <1>2, <1>3, <2>2, PollStays DEF Keep, Names, Grows
  <2>3. QED
    BY <1>1, <2>1, <2>2
<1>12. HoldsOK' /\ ClosesOK'
  <2>1. Names(reading.question)' /\ Names(closing.answer)'
    BY <1>1, <1>2, <1>3 DEF HoldsOK, Names, Grows
  <2>2. asking' \in AskState /\ Names(asking.answer)'
    BY <1>1 DEF Idle, AskState, Names, NoCard, Card, NoQuestion
  <2>3. ClosesOK'
    BY <1>1, <1>2, <1>3, ClosesStay
  <2>4. QED
    BY <1>1, <1>3, <1>11, <2>1, <2>2, <2>3 DEF HoldsOK
<1>13. QED
  BY <1>2, <1>8, <1>9, <1>10, <1>11, <1>12 DEF WindowInv, AskingOK

LEMMA AskFailsKeeps ==
  ASSUME ServerInv, WindowInv, AskFails
  PROVE  ServerInv' /\ Grows /\ WindowInv'
<1>1. /\ asking.state # "idle" /\ unanswered' = Len(presses) /\ asking' = Idle
      /\ asks' = {[r EXCEPT !.live = FALSE] : r \in asks}
      /\ UNCHANGED <<up, card, reading, poll, presses, closing, closes>> /\ UNCHANGED server
  BY DEF AskFails
<1>2. ServerInv' /\ Grows /\ NoneOpened
  BY <1>1, ServerStays
<1>3. /\ HoldsOK /\ PollOK /\ ClosesOK /\ PressesOK /\ PairsOK
      /\ Len(presses) \in Nat /\ Len(presses) > 0
  <2>1. HoldsOK /\ PollOK /\ ClosesOK /\ PressesOK /\ PairsOK /\ presses \in Seq(Press)
    BY DEF WindowInv, AskingOK, PressesOK
  <2>2. QED
    BY <1>1, <2>1, LenProperties DEF PressesOK
<1>4. asking' \in AskState /\ Names(asking.answer)' /\ asking'.state = "idle"
  BY <1>1 DEF Idle, AskState, Names, NoCard, Card, NoQuestion
<1>5. PressesOK' /\ \A r \in asks' : r \in asks \/ \E s \in asks : r.ev = s.ev /\ r.at = s.at
  BY <1>1, <1>2, <1>3, <1>4, PressesStay DEF NoneOpened
<1>6. PairsOK'
  BY <1>1, <1>2, <1>3, <1>5, PairsStay DEF NoneOpened, PressesOK
<1>7. Refused' /\ Settled'
  BY <1>1, <1>3, <1>4 DEF Refused, Settled
<1>8. HoldsOK' /\ PollOK' /\ ClosesOK'
  <2>1. Names(card)' /\ Names(reading.question)' /\ Names(closing.answer)'
    BY <1>1, <1>2, <1>3 DEF HoldsOK, Names, Grows
  <2>2. PollOK' /\ ClosesOK'
    BY <1>1, <1>2, <1>3, PollStays, ClosesStay
  <2>3. QED
    BY <1>1, <1>3, <1>4, <2>1, <2>2 DEF HoldsOK
<1>9. QED
  BY <1>2, <1>5, <1>6, <1>7, <1>8 DEF WindowInv, AskingOK

LEMMA AsksKeep ==
  ASSUME ServerInv, WindowInv, Asks
  PROVE  ServerInv' /\ Grows /\ WindowInv'
  BY AskKeeps, AskServedKeeps, AskAnsweredKeeps, AskFailsKeeps DEF Asks

-----------------------------------------------------------------------------
(* Its closes. *)

(* A step of a close's: it leaves the asks, and what the card holds but by put. *)
LEMMA ClosingKeeps ==
  ASSUME ServerInv, WindowInv, ServerInv', Grows, NoneOpened,
         UNCHANGED <<up, reading, presses, unanswered, asking, asks>>,
         Names(card)', PollOK', closing' \in AskState, Names(closing.answer)', ClosesOK'
  PROVE  WindowInv'
<1>1. AskingOK'
  BY AskingStays DEF WindowInv
<1>2. Names(reading.question)' /\ Names(asking.answer)'
  BY DEF WindowInv, HoldsOK, Names, Grows
<1>3. QED
  BY <1>1, <1>2 DEF WindowInv, HoldsOK

LEMMA CloseKeeps ==
  ASSUME ServerInv, WindowInv, Close
  PROVE  ServerInv' /\ Grows /\ WindowInv'
<1> DEFINE request == [q |-> card.q, at |-> now, live |-> TRUE]
<1>1. /\ card.open /\ closes' = closes \cup {request}
      /\ closing' = [state |-> "out", answer |-> card]
      /\ UNCHANGED <<up, card, reading, poll, presses, unanswered, asking, asks>> /\ UNCHANGED server
  BY DEF Close, isOpen
<1>2. ServerInv' /\ Grows /\ NoneOpened /\ Asked' = Asked /\ UNCHANGED <<now, questions>>
  BY <1>1, ServerStays DEF server
<1>3. /\ PollOK /\ ClosesOK /\ Names(card) /\ card \in Card /\ card.q \in Asked
  BY <1>1 DEF WindowInv, HoldsOK, Names
<1>4. request \in CloseRequest /\ request.q = card.q /\ request.at = now
  BY <1>3 DEF CloseRequest, Card, ServerInv, ServerOK
<1> HIDE DEF request
<1>5. now \in Nat /\ ClosedBy(now)
  BY DEF ServerInv, ServerOK, ClosedBy
<1>6. ASSUME NEW r, r = request PROVE CloseOK(r)'
  BY <1>2, <1>3, <1>4, <1>5, <1>6 DEF CloseOK, ClosedBy, Recorded
<1>7. ASSUME NEW r \in closes' PROVE CloseOK(r)'
  <2>1. CASE r \in closes
    BY <1>2, <1>3, <2>1, CloseStays DEF ClosesOK
  <2>2. QED
    BY <1>1, <1>6, <2>1
<1>8. Names(card)' /\ PollOK' /\ closing' \in AskState /\ Names(closing.answer)'
  BY <1>1, <1>2, <1>3, PollStays DEF Names, Grows, AskState
<1>9. QED
  BY <1>1, <1>2, <1>7, <1>8, ClosingKeeps DEF ClosesOK

LEMMA CloseServedKeeps ==
  ASSUME ServerInv, WindowInv, NEW r \in closes, CloseServed(r)
  PROVE  ServerInv' /\ Grows /\ WindowInv'
<1>1. /\ closes' = closes \ {r}
      /\ UNCHANGED <<up, card, reading, poll, presses, unanswered, asking, asks>>
  BY DEF CloseServed
<1>2. /\ PollOK /\ ClosesOK /\ Names(card) /\ closing \in AskState /\ Names(closing.answer)
      /\ CloseOK(r) /\ r.q \in Asked /\ r.at \in Nat /\ r.at =< now /\ now \in Nat
  BY DEF WindowInv, HoldsOK, ClosesOK, CloseOK, CloseRequest, ServerInv, ServerOK
<1>3. PICK at \in r.at .. now :
        /\ closeQuestion(r.q, at)
        /\ \/ closing' = closing
           \/ closing' = [state |-> "answered", answer |-> teacherQuestion(r.q, at)']
  BY DEF CloseServed
<1>4. at \in Nat /\ r.at =< at /\ at =< now
  BY <1>2
<1>5. UNCHANGED server \/ ClosesOpen(r.q, at)
  BY <1>3 DEF closeQuestion, ClosesOpen, questionOpen
<1>6. ServerInv' /\ Grows /\ NoneOpened
  <2>1. CASE UNCHANGED server
    BY <2>1, ServerStays
  <2>2. CASE ClosesOpen(r.q, at)
    <3>1. ClosedBy(r.at)
      BY <1>2, <2>2 DEF CloseOK, ClosesOpen
    <3>2. ClosedBy(at)
      <4>1. \A q \in Asked : questions[q].closedAt \in Nat
        BY AskedAre DEF ServerInv, Question
      <4>2. QED
        BY <1>2, <1>4, <3>1, <4>1 DEF ClosedBy
    <3>3. ServerInv' /\ Grows
      BY <1>2, <1>4, <2>2, <3>2, ClosesKeeps
    <3>4. Asked' = Asked
      BY <2>2 DEF ClosesOpen, Asked
    <3>5. QED
      BY <3>3, <3>4 DEF NoneOpened
  <2>3. QED
    BY <1>5, <2>1, <2>2
<1>7. closing' \in AskState /\ Names(closing.answer)'
  <2>1. CASE closing' = closing
    BY <1>2, <1>6, <2>1 DEF Names, Grows
  <2>2. CASE closing' = [state |-> "answered", answer |-> teacherQuestion(r.q, at)']
    <3>1. r.q \in Asked' /\ r.q \in Nat
      BY <1>2, <1>6, AskedAre DEF Grows, ServerInv
    <3>2. closing' = [state |-> "answered", answer |-> [q |-> r.q, open |-> questionOpen(r.q, at)']]
      BY <2>2 DEF teacherQuestion
    <3>3. questionOpen(r.q, at)' \in BOOLEAN
      BY DEF questionOpen, sessionRunning
    <3>4. QED
      BY <3>1, <3>2, <3>3 DEF AskState, Names, Card
  <2>3. QED
    BY <1>3, <2>1, <2>2
<1>8. ClosesOK'
  BY <1>1, <1>2, <1>6, ClosesStay
<1>9. Names(card)' /\ PollOK'
  BY <1>1, <1>2, <1>6, PollStays DEF Names, Grows
<1>10. QED
  BY <1>1, <1>6, <1>7, <1>8, <1>9, ClosingKeeps

LEMMA CloseEndsKeep ==
  ASSUME ServerInv, WindowInv, CloseAnswered \/ CloseFails
  PROVE  ServerInv' /\ Grows /\ WindowInv'
<1>1. /\ closing' = Idle /\ UNCHANGED server
      /\ UNCHANGED <<up, reading, presses, unanswered, asking, asks>>
      /\ put(closing.answer) \/ UNCHANGED <<card, poll>>
      /\ closes' = closes \/ closes' = {[r EXCEPT !.live = FALSE] : r \in closes}
  BY DEF CloseAnswered, CloseFails, Keep
<1>2. ServerInv' /\ Grows /\ NoneOpened
  BY <1>1, ServerStays
<1>3. PollOK /\ ClosesOK /\ Names(card) /\ Names(closing.answer)
  BY DEF WindowInv, HoldsOK
<1>4. Names(card)' /\ PollOK'
  <2>1. CASE put(closing.answer)
    BY <1>2, <1>3, <2>1, PutKeeps
  <2>2. CASE UNCHANGED <<card, poll>>
    BY <1>2, <1>3, <2>2, PollStays DEF Names, Grows
  <2>3. QED
    BY <1>1, <2>1, <2>2
<1>5. closing' \in AskState /\ Names(closing.answer)'
  BY <1>1 DEF Idle, AskState, Names, NoCard, Card, NoQuestion
<1>6. ClosesOK'
  BY <1>1, <1>2, <1>3, ClosesStay
<1>7. QED
  BY <1>1, <1>2, <1>4, <1>5, <1>6, ClosingKeeps

LEMMA ClosingsKeep ==
  ASSUME ServerInv, WindowInv, Closings
  PROVE  ServerInv' /\ Grows /\ WindowInv'
  BY CloseKeeps, CloseServedKeeps, CloseEndsKeep DEF Closings

-----------------------------------------------------------------------------
(* What is done about the window. *)

LEMMA OthersKeep ==
  ASSUME ServerInv, WindowInv, Others
  PROVE  ServerInv' /\ Grows /\ WindowInv'
<1>1. UNCHANGED window
  BY DEF Others, OthersOpen, OthersClose, Ends
<1>2. now \in Nat /\ startedAt \in Nat
  BY DEF ServerInv, ServerOK
<1>3. ServerInv' /\ Grows /\ NoneOpened
  <2>1. CASE OthersOpen
    <3>1. PICK at \in startedAt .. now : openQuestion(0, at)
      BY <2>1 DEF OthersOpen
    <3>2. at \in Nat /\ at =< now
      BY <1>2
    <3>3. OpensNew(0, at)
      BY <3>1 DEF openQuestion, OpensNew, HeldAs
    <3>4. QED
      BY <3>2, <3>3, OpensKeeps DEF NoneOpened
  <2>2. ASSUME NEW q \in Asked, OthersClose(q) PROVE ServerInv' /\ Grows /\ NoneOpened
    <3>1. ClosesOpen(q, now)
      BY <2>2 DEF OthersClose, closeQuestion, ClosesOpen, questionOpen
    <3>2. ClosedBy(now)
      BY DEF ServerInv, ServerOK, ClosedBy
    <3>3. ServerInv' /\ Grows
      BY <1>2, <3>1, <3>2, ClosesKeeps
    <3>4. Asked' = Asked
      BY <3>1 DEF ClosesOpen, Asked
    <3>5. QED
      BY <3>3, <3>4 DEF NoneOpened
  <2>3. CASE Ends
    <3>1. EndSession
      BY <2>3 DEF Ends
    <3>2. Asked' = Asked
      BY <3>1 DEF EndSession, Closing, Asked
    <3>3. QED
      BY <3>1, <3>2, EndKeeps DEF NoneOpened
  <2>4. CASE Tick
    <3>1. Asked' = Asked
      BY <2>4 DEF Tick, Asked
    <3>2. QED
      BY <2>4, <3>1, TickKeeps DEF NoneOpened
  <2>5. QED
    BY <2>1, <2>2, <2>3, <2>4 DEF Others
<1>4. QED
  BY <1>1, <1>3, WindowStays

LEMMA CardStepKeeps == ServerInv /\ WindowInv /\ CardNext => ServerInv' /\ Grows /\ WindowInv'
  BY ReadsKeep, PollsKeep, HearKeeps, AsksKeep, ClosingsKeep, PutsAwayKeeps, OthersKeep DEF CardNext

-----------------------------------------------------------------------------
(* The page. *)

LEMMA PicksAre ==
  ASSUME PicksOK
  PROVE  /\ picks \in Seq(PickRow) /\ Len(picks) \in Nat /\ DOMAIN picks = 1 .. Len(picks)
         /\ \A i \in 1 .. Len(picks) : picks[i] \in PickRow
  BY LenProperties, ElementOfSeq DEF PicksOK

LEMMA PageStays ==
  ASSUME ServerInv, ServerInv', Grows, PageInv, UNCHANGED page
  PROVE  PageInv'
<1>1. UNCHANGED <<seen, fetch, picks>>
  BY DEF page
<1>2. SeenOK' /\ FollowsOn'
  BY <1>1 DEF PageInv, SeenOK, ViewOK, FollowsOn, NoneAfter, Grows
<1>3. PicksOK'
  <2>1. \A i \in 1 .. Len(picks) : picks[i] \in PickRow
    BY PicksAre DEF PageInv
  <2>2. \A q \in Asked : responses[q] \in Nat /\ responses'[q] \in Nat /\ responses[q] =< responses'[q]
    <3>1. responses' \in Seq(Nat) /\ questions' \in Seq(Question) /\ Len(responses') = Len(questions')
      BY DEF ServerInv, ServerOK
    <3>2. \A q \in Asked' : responses'[q] \in Nat
      BY <3>1, LenProperties, ElementOfSeq DEF Asked
    <3>3. QED
      BY <3>2, AskedAre DEF Grows, ServerInv
  <2>3. now \in Nat /\ now' \in Nat /\ now =< now'
    BY DEF ServerInv, ServerOK, Grows
  <2>4. \A i \in 1 .. Len(picks) :
          /\ picks[i].q \in Asked' /\ picks[i].at =< now'
          /\ picks[i].told # NoAnswer => picks[i].answer =< responses'[picks[i].q]
    <3> SUFFICES ASSUME NEW i \in 1 .. Len(picks)
                 PROVE  /\ picks[i].q \in Asked' /\ picks[i].at =< now'
                        /\ picks[i].told # NoAnswer => picks[i].answer =< responses'[picks[i].q]
      OBVIOUS
    <3>1. PickOK(i) /\ picks[i].q \in Nat /\ picks[i].at \in Nat /\ picks[i].answer \in Nat
      BY <2>1 DEF PageInv, PicksOK, PickRow
    <3>2. /\ picks[i].q \in Asked /\ picks[i].at =< now
          /\ picks[i].told # NoAnswer => picks[i].answer =< responses[picks[i].q]
      BY <3>1 DEF PickOK
    <3>3. picks[i].q \in Asked' /\ picks[i].at =< now'
      BY <2>3, <3>1, <3>2 DEF Grows
    <3>4. picks[i].told # NoAnswer => picks[i].answer =< responses'[picks[i].q]
      BY <2>2, <3>1, <3>2
    <3>5. QED
      BY <3>3, <3>4
  <2>5. QED
    BY <1>1, <2>4 DEF PageInv, PicksOK, PicksGoUp, PickOK
<1>4. QED
  BY <1>2, <1>3 DEF PageInv

(* What a read brings as open is the question asked last. *)
LEMMA PresentationIs ==
  ASSUME ServerInv
  PROVE  ViewOK(Presentation) /\ (Presentation.open => Presentation.q = Len(questions))
<1> DEFINE q == findShownQuestion
<1>1. q \in Asked \cup {NoQuestion} /\ NoQuestion \notin Asked
      /\ \A c \in Asked : c \in Nat /\ responses[c] \in Nat
  BY ShownIsAsked, AskedAre DEF ServerInv
<1>2. CASE ~sessionRunning(now)
  BY <1>2 DEF Presentation, NoPresentation, ViewOK, View, NoQuestion, NoAnswer
<1>3. CASE sessionRunning(now) /\ q = NoQuestion
  BY <1>3 DEF Presentation, NoPresentation, ViewOK, View, NoQuestion, NoAnswer
<1>4. CASE sessionRunning(now) /\ q # NoQuestion
  <2>1. Presentation = [running |-> TRUE, q |-> q, open |-> questionOpen(q, now), answer |-> responses[q]]
    BY <1>4 DEF Presentation
  <2>2. questionOpen(q, now) \in BOOLEAN /\ q \in Asked
    BY <1>1, <1>4 DEF questionOpen, sessionRunning
  <2>3. questionOpen(q, now) => q = Len(questions)
    BY <2>2 DEF questionOpen, ServerInv, OneOpen
  <2> HIDE DEF q
  <2>4. QED
    BY <1>1, <1>4, <2>1, <2>2, <2>3 DEF ViewOK, View
<1>5. QED
  BY <1>2, <1>3, <1>4

LEMMA KeepLaterIs ==
  ASSUME NEW view, ViewOK(view), NEW q \in Nat, NEW answer \in Nat
  PROVE  LET kept == keepLater(view, q, answer)
         IN  /\ ViewOK(kept) /\ kept.q = view.q /\ kept.open = view.open
             /\ kept.answer \in Nat /\ view.answer \in Nat /\ kept.answer >= view.answer
             /\ view.q = q /\ q # NoQuestion => kept.answer >= answer
<1>1. view \in View
  BY DEF ViewOK
<1>2. later(view.answer, answer) \in Nat /\ later(view.answer, answer) >= view.answer
      /\ later(view.answer, answer) >= answer
  BY <1>1 DEF later, Larger, View
<1>3. CASE view.q = q /\ q # NoQuestion
  BY <1>1, <1>2, <1>3 DEF keepLater, ViewOK, View
<1>4. CASE ~(view.q = q /\ q # NoQuestion)
  BY <1>1, <1>4 DEF keepLater, ViewOK, View
<1>5. QED
  BY <1>3, <1>4

LEMMA FetchKeeps ==
  ASSUME ServerInv, PageInv, Fetch
  PROVE  ServerInv' /\ Grows /\ Asked' = Asked /\ PageInv'
<1>1. /\ fetch' = [state |-> "served", got |-> Presentation]
      /\ UNCHANGED <<seen, picks>> /\ UNCHANGED server
  BY DEF Fetch
<1>2. ServerInv' /\ Grows /\ Asked' = Asked /\ UNCHANGED <<now, questions, responses>>
  BY <1>1, ServerStays DEF server
<1>3. ViewOK(Presentation) /\ (Presentation.open => Presentation.q = Len(questions))
      /\ Presentation \in View
  BY PresentationIs DEF ViewOK
<1>4. \A q \in Asked : q \in Nat /\ q =< Len(questions) /\ Len(questions) \in Nat
  BY AskedAre DEF ServerInv
<1>5. Len(questions) \in Nat
  BY AskedAre DEF ServerInv
<1>6. seen.q =< Len(questions) /\ \A i \in 1 .. Len(picks) : picks[i].q =< Len(questions)
  BY <1>4, <1>5 DEF PageInv, SeenOK, ViewOK, PicksOK, PickOK, NoQuestion
<1>7. fetch'.got = Presentation /\ fetch'.state = "served"
      /\ fetch' \in [state : {"idle", "served"}, got : View]
  BY <1>1, <1>3
<1>8. SeenOK'
  BY <1>1, <1>2, <1>3, <1>7 DEF PageInv, SeenOK, ViewOK
<1>9. FollowsOn'
  BY <1>1, <1>3, <1>6, <1>7 DEF PageInv, FollowsOn, NoneAfter
<1>10. PicksOK'
  BY <1>1, <1>2 DEF PageInv, PicksOK, PicksGoUp, PickOK
<1>11. QED
  BY <1>2, <1>8, <1>9, <1>10 DEF PageInv

LEMMA FetchTakenKeeps ==
  ASSUME ServerInv, PageInv, FetchTaken
  PROVE  /\ ServerInv' /\ Grows /\ Asked' = Asked /\ PageInv'
         /\ seen'.q = seen.q => seen'.answer >= seen.answer
<1>1. /\ fetch.state = "served" /\ seen' = keepLater(fetch.got, seen.q, seen.answer)
      /\ fetch' = [state |-> "idle", got |-> NoPresentation]
      /\ UNCHANGED picks /\ UNCHANGED server
  BY DEF FetchTaken
<1>2. ServerInv' /\ Grows /\ Asked' = Asked /\ UNCHANGED <<now, questions, responses>>
  BY <1>1, ServerStays DEF server
<1>3. /\ ViewOK(seen) /\ seen \in View /\ ViewOK(fetch.got) /\ seen.q \in Nat /\ seen.answer \in Nat
      /\ seen.q = NoQuestion => seen.answer = NoAnswer
  BY DEF PageInv, SeenOK, ViewOK, View
<1>4. /\ ViewOK(seen') /\ seen'.q = fetch.got.q /\ seen'.open = fetch.got.open
      /\ seen'.answer \in Nat
      /\ fetch.got.q = seen.q /\ seen.q # NoQuestion => seen'.answer >= seen.answer
  BY <1>1, <1>3, KeepLaterIs
<1>5. SeenOK'
  BY <1>1, <1>2, <1>4 DEF SeenOK, ViewOK, NoPresentation, View, NoQuestion, NoAnswer
<1>6. FollowsOn'
  BY <1>1, <1>4 DEF PageInv, FollowsOn, NoneAfter
<1>7. PicksOK'
  BY <1>1, <1>2 DEF PageInv, PicksOK, PicksGoUp, PickOK
<1>8. seen'.q = seen.q => seen'.answer >= seen.answer
  BY <1>3, <1>4 DEF NoAnswer
<1>9. QED
  BY <1>2, <1>5, <1>6, <1>7, <1>8 DEF PageInv

(* What a step of one pick's leaves of the others. *)
LEMMA PickWritten ==
  ASSUME PicksOK, NEW i \in 1 .. Len(picks), NEW row \in PickRow,
         row.q = picks[i].q, row.answer = picks[i].answer, row.at = picks[i].at,
         picks' = [picks EXCEPT ![i] = row]
  PROVE  /\ picks' \in Seq(PickRow) /\ Len(picks') = Len(picks)
         /\ \A k \in 1 .. Len(picks) :
              /\ picks'[k].q = picks[k].q /\ picks'[k].answer = picks[k].answer /\ picks'[k].at = picks[k].at
              /\ picks'[k].told = IF k = i THEN row.told ELSE picks[k].told
<1>1. picks' \in Seq(PickRow) /\ Len(picks') = Len(picks)
      /\ \A k \in 1 .. Len(picks) : picks'[k] = IF k = i THEN row ELSE picks[k]
  BY PicksAre, ExceptSeq
<1>2. QED
  BY <1>1

(* Where picks keep their question, id and instant, they still go up. *)
LEMMA PicksFollow ==
  ASSUME ServerInv, ServerInv', Grows, PageInv,
         picks' \in Seq(PickRow), Len(picks') = Len(picks),
         \A k \in 1 .. Len(picks) :
            picks'[k].q = picks[k].q /\ picks'[k].answer = picks[k].answer /\ picks'[k].at = picks[k].at,
         \A k \in 1 .. Len(picks) : picks'[k].told # NoAnswer =>
            picks'[k].told = picks[k].told \/ picks[k].answer =< responses'[picks[k].q]
  PROVE  PicksOK' /\ (seen'.q = seen.q /\ seen'.open = seen.open /\ fetch' = fetch => FollowsOn')
<1>1. PicksOK /\ FollowsOn /\ \A k \in 1 .. Len(picks) : picks[k] \in PickRow /\ PickOK(k)
  BY PicksAre DEF PageInv, PicksOK
<1>2. \A q \in Asked : responses[q] \in Nat /\ responses'[q] \in Nat /\ responses[q] =< responses'[q]
  <2>1. responses' \in Seq(Nat) /\ questions' \in Seq(Question) /\ Len(responses') = Len(questions')
    BY DEF ServerInv, ServerOK
  <2>2. \A q \in Asked' : responses'[q] \in Nat
    BY <2>1, LenProperties, ElementOfSeq DEF Asked
  <2>3. QED
    BY <2>2, AskedAre DEF Grows, ServerInv
<1>3. now \in Nat /\ now' \in Nat /\ now =< now'
  BY DEF ServerInv, ServerOK, Grows
<1>4. ASSUME NEW k \in 1 .. Len(picks)
      PROVE  /\ picks'[k].q \in Asked' /\ picks'[k].at =< now'
             /\ picks'[k].told # NoAnswer => picks'[k].answer =< responses'[picks'[k].q]
  <2>1. picks[k].q \in Asked /\ picks[k].at \in Nat /\ picks[k].at =< now /\ picks[k].answer \in Nat
        /\ (picks[k].told # NoAnswer => picks[k].answer =< responses[picks[k].q])
    BY <1>1 DEF PickOK, PickRow
  <2>2. /\ picks'[k].q = picks[k].q /\ picks'[k].at = picks[k].at
        /\ picks'[k].answer = picks[k].answer
        /\ picks'[k].told # NoAnswer =>
              picks'[k].told = picks[k].told \/ picks[k].answer =< responses'[picks[k].q]
    OBVIOUS
  <2>3. picks[k].q \in Asked' /\ picks[k].at =< now'
    BY <1>3, <2>1 DEF Grows
  <2>4. picks[k].told # NoAnswer => picks[k].answer =< responses'[picks[k].q]
    BY <1>2, <2>1
  <2>5. QED
    BY <2>2, <2>3, <2>4
<1>5. PicksGoUp'
  BY <1>1 DEF PicksOK, PicksGoUp
<1>6. PicksOK'
  BY <1>4, <1>5 DEF PicksOK, PickOK
<1>7. ASSUME seen'.q = seen.q, seen'.open = seen.open, fetch' = fetch PROVE FollowsOn'
  BY <1>1, <1>7 DEF FollowsOn, NoneAfter
<1>8. QED
  BY <1>6, <1>7

LEMMA AnswerServedKeeps ==
  ASSUME ServerInv, PageInv, NEW i \in DOMAIN picks, AnswerServed(i)
  PROVE  ServerInv' /\ Grows /\ Asked' = Asked /\ PageInv' /\ UNCHANGED seen
<1> DEFINE pick == picks[i]
<1>1. i \in 1 .. Len(picks) /\ pick \in PickRow /\ PicksOK /\ pick.q \in Asked
      /\ pick.q \in Nat /\ pick.answer \in Nat /\ pick.at \in Nat
  BY PicksAre DEF PageInv, PicksOK, PickOK, PickRow
<1>2. PICK at \in pick.at .. now :
        /\ answerQuestion(pick.q, pick.answer, at)
        /\ picks' = [picks EXCEPT ![i].state = "served",
                       ![i].told = IF TakesAnswer(pick.q, pick.answer, at)
                                   THEN Kept(pick.q, pick.answer) ELSE NoAnswer]
  BY DEF AnswerServed
<1>3. UNCHANGED <<seen, fetch>>
  BY DEF AnswerServed
<1> DEFINE told == IF TakesAnswer(pick.q, pick.answer, at) THEN Kept(pick.q, pick.answer) ELSE NoAnswer
<1>4. /\ ServerInv' /\ Grows /\ told \in Nat
      /\ TakesAnswer(pick.q, pick.answer, at) => pick.answer =< responses'[pick.q]
  <2> DEFINE q == pick.q
             answer == pick.answer
  <2>1. q \in Asked /\ answer \in Nat /\ answerQuestion(q, answer, at)
    BY <1>1, <1>2
  <2> HIDE DEF q, answer
  <2>2. /\ ServerInv' /\ Grows /\ Kept(q, answer) \in Nat
        /\ TakesAnswer(q, answer, at) => answer =< Kept(q, answer) /\ Kept(q, answer) =< responses'[q]
    BY <2>1, AnswerKeeps
  <2>3. responses'[q] \in Nat
    <3>1. responses' \in Seq(Nat) /\ questions' \in Seq(Question) /\ Len(responses') = Len(questions')
      BY <2>2 DEF ServerInv, ServerOK
    <3>2. q \in 1 .. Len(responses')
      BY <2>1, <2>2, <3>1, LenProperties DEF Asked, Grows
    <3>3. QED
      BY <3>1, <3>2, ElementOfSeq
  <2>4. TakesAnswer(q, answer, at) => answer =< responses'[q]
    BY <2>1, <2>2, <2>3
  <2>5. (IF TakesAnswer(q, answer, at) THEN Kept(q, answer) ELSE NoAnswer) \in Nat
    BY <2>2 DEF NoAnswer
  <2>6. QED
    BY <2>2, <2>4, <2>5 DEF q, answer
<1>5. UNCHANGED questions
  BY <1>2 DEF answerQuestion
<1>6. Asked' = Asked
  BY <1>5 DEF Asked
<1>7. PICK row \in PickRow :
        /\ picks' = [picks EXCEPT ![i] = row]
        /\ row.q = picks[i].q /\ row.answer = picks[i].answer /\ row.at = picks[i].at /\ row.told = told
  <2>1. picks' = [picks EXCEPT ![i].state = "served", ![i].told = told]
    BY <1>2
  <2> HIDE DEF told
  <2> DEFINE row == [picks[i] EXCEPT !.state = "served", !.told = told]
  <2>2. row \in PickRow /\ row.q = picks[i].q /\ row.answer = picks[i].answer
        /\ row.at = picks[i].at /\ row.told = told
    BY <1>1, <1>4 DEF PickRow
  <2>3. picks' = [picks EXCEPT ![i] = row]
    BY <1>1, <2>1, PicksAre
  <2>4. QED
    BY <2>2, <2>3
<1>8. /\ picks' \in Seq(PickRow) /\ Len(picks') = Len(picks)
      /\ \A k \in 1 .. Len(picks) :
           /\ picks'[k].q = picks[k].q /\ picks'[k].answer = picks[k].answer /\ picks'[k].at = picks[k].at
           /\ picks'[k].told = IF k = i THEN told ELSE picks[k].told
  <2> HIDE DEF told
  <2>1. PicksOK /\ i \in 1 .. Len(picks) /\ row \in PickRow
    BY <1>1, <1>7
  <2>2. /\ picks' \in Seq(PickRow) /\ Len(picks') = Len(picks)
        /\ \A k \in 1 .. Len(picks) :
             /\ picks'[k].q = picks[k].q /\ picks'[k].answer = picks[k].answer /\ picks'[k].at = picks[k].at
             /\ picks'[k].told = IF k = i THEN row.told ELSE picks[k].told
    BY <1>7, <2>1, PickWritten
  <2>3. QED
    BY <1>7, <2>2
<1>9. \A k \in 1 .. Len(picks) : picks'[k].told # NoAnswer =>
        picks'[k].told = picks[k].told \/ picks[k].answer =< responses'[picks[k].q]
  BY <1>4, <1>8
<1>10. PicksOK' /\ FollowsOn'
  BY <1>3, <1>4, <1>8, <1>9, PicksFollow
<1>11. SeenOK'
  BY <1>3, <1>6 DEF PageInv, SeenOK, ViewOK
<1>12. QED
  BY <1>3, <1>4, <1>6, <1>10, <1>11 DEF PageInv

LEMMA AnswerHeardKeeps ==
  ASSUME ServerInv, PageInv, NEW i \in DOMAIN picks, AnswerTold(i) \/ AnswerFails(i)
  PROVE  /\ ServerInv' /\ Grows /\ Asked' = Asked /\ PageInv'
         /\ seen'.q = seen.q => seen'.answer >= seen.answer
<1> DEFINE pick == picks[i]
<1>1. /\ i \in 1 .. Len(picks) /\ pick \in PickRow /\ PicksOK /\ pick.q \in Nat /\ pick.told \in Nat
      /\ ViewOK(seen) /\ seen.answer \in Nat
  BY PicksAre DEF PageInv, PickRow, SeenOK, ViewOK, View
<1>2. UNCHANGED server /\ fetch' = fetch
  BY DEF AnswerTold, AnswerFails
<1>3. ServerInv' /\ Grows /\ Asked' = Asked /\ UNCHANGED responses
  BY <1>2, ServerStays DEF server
<1>4. /\ ViewOK(seen') /\ seen'.q = seen.q /\ seen'.open = seen.open /\ seen'.answer >= seen.answer
  <2>1. CASE seen' = seen
    BY <1>1, <2>1
  <2>2. CASE seen' = keepLater(seen, pick.q, pick.told)
    BY <1>1, <2>2, KeepLaterIs
  <2>3. QED
    BY <2>1, <2>2 DEF AnswerTold, AnswerFails
<1>5. /\ picks' \in Seq(PickRow) /\ Len(picks') = Len(picks)
      /\ \A k \in 1 .. Len(picks) :
           /\ picks'[k].q = picks[k].q /\ picks'[k].answer = picks[k].answer /\ picks'[k].at = picks[k].at
           /\ picks'[k].told = picks[k].told
  <2>1. PICK row \in PickRow :
          /\ picks' = [picks EXCEPT ![i] = row]
          /\ row.q = picks[i].q /\ row.answer = picks[i].answer /\ row.at = picks[i].at
          /\ row.told = picks[i].told
    <3>1. CASE AnswerTold(i)
      <4> DEFINE row == [picks[i] EXCEPT !.waits = FALSE, !.state = "told"]
      <4>1. picks' = [picks EXCEPT ![i].waits = FALSE, ![i].state = "told"]
        BY <3>1 DEF AnswerTold
      <4>2. picks' = [picks EXCEPT ![i] = row]
        BY <1>1, <4>1, PicksAre
      <4>3. row \in PickRow /\ row.q = picks[i].q /\ row.answer = picks[i].answer
            /\ row.at = picks[i].at /\ row.told = picks[i].told
        BY <1>1 DEF PickRow
      <4>4. QED
        BY <4>2, <4>3
    <3>2. CASE AnswerFails(i)
      <4> DEFINE row == [picks[i] EXCEPT !.waits = FALSE]
      <4>1. picks' = [picks EXCEPT ![i] = row]
        BY <3>2 DEF AnswerFails
      <4>2. row \in PickRow /\ row.q = picks[i].q /\ row.answer = picks[i].answer
            /\ row.at = picks[i].at /\ row.told = picks[i].told
        BY <1>1 DEF PickRow
      <4>3. QED
        BY <4>1, <4>2
    <3>3. QED
      BY <3>1, <3>2
  <2>2. PicksOK /\ i \in 1 .. Len(picks) /\ row \in PickRow
    BY <1>1, <2>1
  <2>3. /\ picks' \in Seq(PickRow) /\ Len(picks') = Len(picks)
        /\ \A k \in 1 .. Len(picks) :
             /\ picks'[k].q = picks[k].q /\ picks'[k].answer = picks[k].answer /\ picks'[k].at = picks[k].at
             /\ picks'[k].told = IF k = i THEN row.told ELSE picks[k].told
    BY <2>1, <2>2, PickWritten
  <2>4. QED
    BY <2>1, <2>3
<1>6. PicksOK' /\ FollowsOn'
  BY <1>2, <1>3, <1>4, <1>5, PicksFollow
<1>7. SeenOK'
  BY <1>2, <1>3, <1>4 DEF PageInv, SeenOK, ViewOK
<1>8. QED
  BY <1>3, <1>4, <1>6, <1>7 DEF PageInv

LEMMA PickKeeps ==
  ASSUME ServerInv, PageInv, NEW id \in Ids, Pick(id)
  PROVE  ServerInv' /\ Grows /\ Asked' = Asked /\ PageInv' /\ UNCHANGED seen
<1> DEFINE n == Len(picks)
           row == [q |-> seen.q, answer |-> id, at |-> now,
                   state |-> "out", told |-> NoAnswer, waits |-> TRUE]
<1>1. /\ seen.open /\ id > MintsAfter /\ picks' = Append(picks, row)
      /\ UNCHANGED <<seen, fetch>> /\ UNCHANGED server
  BY DEF Pick
<1>2. ServerInv' /\ Grows /\ Asked' = Asked /\ UNCHANGED <<now, responses>>
  BY <1>1, ServerStays DEF server
<1>3. /\ picks \in Seq(PickRow) /\ n \in Nat /\ PicksGoUp
      /\ \A k \in 1 .. n : picks[k] \in PickRow /\ PickOK(k)
      /\ \A k \in 1 .. n : picks[k].q \in Nat /\ picks[k].answer \in Nat
      /\ seen.q \in Asked /\ seen.q \in Nat /\ seen.answer \in Nat /\ id \in Nat /\ now \in Nat
  <2>1. /\ picks \in Seq(PickRow) /\ n \in Nat /\ PicksGoUp
        /\ \A k \in 1 .. n : picks[k] \in PickRow /\ PickOK(k)
    BY PicksAre DEF PageInv, PicksOK
  <2>2. \A k \in 1 .. n : picks[k].q \in Nat /\ picks[k].answer \in Nat
    BY <2>1 DEF PickRow
  <2>3. seen.q \in Asked /\ seen \in View
    BY <1>1 DEF PageInv, SeenOK, ViewOK
  <2>4. id \in Nat /\ now \in Nat
    BY DEF Ids, ServerInv, ServerOK
  <2>5. QED
    BY <2>1, <2>2, <2>3, <2>4 DEF View
<1>4. row \in PickRow
  BY <1>3 DEF PickRow, NoAnswer
<1>5. row.q = seen.q /\ row.answer = id /\ row.at = now /\ row.told = NoAnswer
  OBVIOUS
<1> HIDE DEF row
<1>6. /\ picks' \in Seq(PickRow) /\ Len(picks') = n + 1 /\ picks'[n + 1] = row
      /\ \A k \in 1 .. n : picks'[k] = picks[k]
  BY <1>1, <1>3, <1>4, AppendProperties
<1>7. \A k \in 1 .. n : picks[k].q =< seen.q /\ (picks[k].q = seen.q => picks[k].answer < id)
  <2> SUFFICES ASSUME NEW k \in 1 .. n
               PROVE  picks[k].q =< seen.q /\ (picks[k].q = seen.q => picks[k].answer < id)
    OBVIOUS
  <2>1. picks[k].q =< seen.q /\ picks[n].q =< seen.q
    BY <1>1, <1>3 DEF PageInv, FollowsOn, NoneAfter
  <2>2. picks # <<>>
    BY <1>3
  <2>3. picks[n].q = seen.q => id > picks[n].answer
    <3>1. picks[n].q = seen.q => Minted = picks[n].answer
      BY <2>2 DEF Minted
    <3>2. n \in 1 .. n
      BY <1>3
    <3>3. QED
      BY <1>1, <1>3, <3>1, <3>2 DEF MintsAfter, Larger
  <2>4. k # n => picks[k].q =< picks[n].q /\ (picks[k].q = picks[n].q => picks[k].answer < picks[n].answer)
    BY <1>3 DEF PicksGoUp
  <2>5. n \in 1 .. n
    BY <1>3
  <2>6. QED
    BY <1>3, <2>1, <2>3, <2>4, <2>5
<1>8. PicksGoUp'
  <2> SUFFICES ASSUME NEW i \in 1 .. n + 1, NEW j \in 1 .. n + 1, i < j
               PROVE  /\ picks'[i].q =< picks'[j].q
                      /\ picks'[i].q = picks'[j].q => picks'[i].answer < picks'[j].answer
    BY <1>6 DEF PicksGoUp
  <2>1. CASE j = n + 1
    <3>1. i \in 1 .. n
      BY <1>3, <2>1
    <3>2. QED
      BY <1>5, <1>6, <1>7, <2>1, <3>1
  <2>2. CASE j # n + 1
    <3>1. i \in 1 .. n /\ j \in 1 .. n
      BY <1>3, <2>2
    <3>2. QED
      BY <1>3, <1>6, <3>1 DEF PicksGoUp
  <2>3. QED
    BY <2>1, <2>2
<1>9. \A k \in 1 .. n + 1 :
        /\ picks'[k].q \in Asked /\ picks'[k].at =< now
        /\ picks'[k].told # NoAnswer => picks'[k].answer =< responses[picks'[k].q]
  <2> SUFFICES ASSUME NEW k \in 1 .. n + 1
               PROVE  /\ picks'[k].q \in Asked /\ picks'[k].at =< now
                      /\ picks'[k].told # NoAnswer => picks'[k].answer =< responses[picks'[k].q]
    OBVIOUS
  <2>1. CASE k = n + 1
    BY <1>3, <1>5, <1>6, <2>1
  <2>2. CASE k # n + 1
    <3>1. k \in 1 .. n
      BY <1>3, <2>2
    <3>2. QED
      BY <1>3, <1>6, <3>1 DEF PickOK
  <2>3. QED
    BY <2>1, <2>2
<1>10. PicksOK'
  BY <1>2, <1>6, <1>8, <1>9 DEF PicksOK, PickOK
<1>11. FollowsOn'
  <2>1. NoneAfter(seen)'
    <3>1. \A k \in 1 .. n + 1 : picks'[k].q =< seen.q
      <4> SUFFICES ASSUME NEW k \in 1 .. n + 1 PROVE picks'[k].q =< seen.q
        OBVIOUS
      <4>1. CASE k = n + 1
        BY <1>3, <1>5, <1>6, <4>1
      <4>2. CASE k \in 1 .. n
        BY <1>6, <1>7, <4>2
      <4>3. QED
        BY <1>3, <4>1, <4>2
    <3>2. QED
      BY <1>1, <1>6, <3>1 DEF NoneAfter
  <2>2. ASSUME fetch.state = "served", fetch.got.open
        PROVE  \A k \in 1 .. n + 1 : picks'[k].q =< fetch.got.q
    <3>1. seen.q =< fetch.got.q /\ \A k \in 1 .. n : picks[k].q =< fetch.got.q
      BY <2>2 DEF PageInv, FollowsOn, NoneAfter
    <3> SUFFICES ASSUME NEW k \in 1 .. n + 1 PROVE picks'[k].q =< fetch.got.q
      OBVIOUS
    <3>2. CASE k = n + 1
      BY <1>5, <1>6, <3>1, <3>2
    <3>3. CASE k \in 1 .. n
      BY <1>6, <3>1, <3>3
    <3>4. QED
      BY <1>3, <3>2, <3>3
  <2>3. fetch.state = "served" /\ fetch.got.open => seen.q =< fetch.got.q
    BY DEF PageInv, FollowsOn
  <2>4. QED
    BY <1>1, <1>6, <2>1, <2>2, <2>3 DEF FollowsOn, NoneAfter
<1>12. SeenOK'
  BY <1>1, <1>2 DEF PageInv, SeenOK, ViewOK
<1>13. QED
  BY <1>1, <1>2, <1>10, <1>11, <1>12 DEF PageInv

LEMMA OtherAnswersKeeps ==
  ASSUME ServerInv, PageInv, NEW q \in Asked, NEW id \in Ids, OtherAnswers(q, id)
  PROVE  ServerInv' /\ Grows /\ Asked' = Asked /\ PageInv' /\ UNCHANGED seen
<1>1. PICK at \in startedAt .. now : answerQuestion(q, id, at)
  BY DEF OtherAnswers
<1>2. UNCHANGED <<seen, fetch, picks>> /\ UNCHANGED questions
  BY <1>1 DEF OtherAnswers, answerQuestion
<1>3. ServerInv' /\ Grows /\ Asked' = Asked
  <2>1. id \in Nat
    BY DEF Ids
  <2>2. QED
    BY <1>1, <1>2, <2>1, AnswerKeeps DEF Asked
<1>4. PicksOK' /\ FollowsOn'
  <2>1. picks \in Seq(PickRow)
    BY PicksAre DEF PageInv
  <2>2. QED
    BY <1>2, <1>3, <2>1, PicksFollow
<1>5. SeenOK'
  BY <1>2, <1>3 DEF PageInv, SeenOK, ViewOK
<1>6. QED
  BY <1>2, <1>3, <1>4, <1>5 DEF PageInv

-----------------------------------------------------------------------------
(* All of it, from the start and at every step. *)

LessonInv == ServerInv /\ WindowInv /\ PageInv

LEMMA PageStepKeeps ==
  ASSUME ServerInv, PageInv, PageNext
  PROVE  /\ ServerInv' /\ Grows /\ Asked' = Asked /\ PageInv' /\ UNCHANGED window
         /\ seen'.q = seen.q => seen'.answer >= seen.answer
<1>1. seen.answer \in Nat
  BY DEF PageInv, SeenOK, ViewOK, View
<1>2. UNCHANGED window
  BY DEF PageNext
<1>3. ASSUME PageReads \/ PageHears
      PROVE  /\ ServerInv' /\ Grows /\ Asked' = Asked /\ PageInv'
             /\ seen'.q = seen.q => seen'.answer >= seen.answer
  <2>1. CASE Fetch
    <3>1. UNCHANGED seen
      BY <2>1 DEF Fetch
    <3>2. QED
      BY <1>1, <2>1, <3>1, FetchKeeps
  <2>2. CASE FetchTaken
    BY <2>2, FetchTakenKeeps
  <2>3. CASE PageHears
    <3>1. PICK i \in DOMAIN picks : AnswerServed(i) \/ AnswerTold(i) \/ AnswerFails(i)
      BY <2>3 DEF PageHears
    <3>2. CASE AnswerServed(i)
      BY <1>1, <3>2, AnswerServedKeeps
    <3>3. CASE AnswerTold(i) \/ AnswerFails(i)
      BY <3>3, AnswerHeardKeeps
    <3>4. QED
      BY <3>1, <3>2, <3>3
  <2>4. QED
    BY <1>3, <2>1, <2>2, <2>3 DEF PageReads
<1>4. ASSUME StudentActs
      PROVE  ServerInv' /\ Grows /\ Asked' = Asked /\ PageInv' /\ UNCHANGED seen
  BY <1>4, PickKeeps, OtherAnswersKeeps DEF StudentActs
<1>5. QED
  BY <1>1, <1>2, <1>3, <1>4 DEF PageNext

LEMMA ServerStarts ==
  ASSUME NEW start \in Nat, start =< MaxTime, ServerInit(start)
  PROVE  ServerInv /\ Asked = {} /\ now = start /\ ~ended
<1>1. questions = <<>> /\ responses = <<>> /\ now = start /\ startedAt = start /\ ended = FALSE
  BY DEF ServerInit
<1>2. Asked = {} /\ Len(questions) = 0 /\ Len(responses) = 0
  BY <1>1 DEF Asked
<1>3. questions \in Seq(Question) /\ responses \in Seq(Nat)
  BY <1>1
<1>4. QED
  BY <1>1, <1>2, <1>3 DEF ServerInv, ServerOK, OneOpen, HeldOnce, LastClosed

LEMMA WindowStarts ==
  ASSUME NEW open \in BOOLEAN, CardInit(open), Asked = {}
  PROVE  WindowInv
<1>1. /\ up = open /\ card = NoCard /\ poll = NewPoll /\ presses = <<>> /\ unanswered = 0
      /\ reading = [state |-> IF open THEN "out" ELSE "idle", again |-> FALSE, question |-> NoCard]
      /\ asking = Idle /\ asks = {} /\ closing = Idle /\ closes = {}
  BY DEF CardInit, NoPress
<1>2. NoCard \in Card /\ Names(NoCard)
  BY DEF NoCard, Card, NoQuestion, Names
<1>3. Idle \in AskState /\ Idle.answer = NoCard /\ Idle.state = "idle"
  BY <1>2 DEF Idle, AskState
<1>4. HoldsOK
  BY <1>1, <1>2, <1>3 DEF HoldsOK
<1>5. PollOK
  BY <1>1 DEF PollOK, NewPoll, NoResults, Row, NoAnswer
<1>6. presses \in Seq(Press) /\ Len(presses) = 0
  BY <1>1
<1>7. PressesOK
  BY <1>1, <1>3, <1>6 DEF PressesOK
<1>8. Refused /\ Settled /\ PairsOK
  BY <1>1, <1>3, <1>6 DEF Refused, Settled, PairsOK, NoPress
<1>9. ClosesOK
  BY <1>1 DEF ClosesOK
<1>10. QED
  BY <1>4, <1>5, <1>7, <1>8, <1>9 DEF WindowInv, AskingOK

LEMMA PageStarts ==
  ASSUME NEW open \in BOOLEAN, PageInit(open)
  PROVE  PageInv
<1>1. /\ seen = [NoPresentation EXCEPT !.running = open] /\ picks = <<>>
      /\ fetch = [state |-> "idle", got |-> NoPresentation]
  BY DEF PageInit
<1>2. NoPresentation \in View /\ seen \in View /\ seen.q = NoQuestion /\ seen.open = FALSE
      /\ seen.answer = NoAnswer /\ NoPresentation.q = NoQuestion /\ NoPresentation.open = FALSE
      /\ NoPresentation.answer = NoAnswer
  BY <1>1 DEF NoPresentation, View, NoQuestion, NoAnswer
<1>3. SeenOK /\ FollowsOn
  BY <1>1, <1>2 DEF SeenOK, ViewOK, FollowsOn, NoneAfter
<1>4. picks \in Seq(PickRow) /\ Len(picks) = 0
  BY <1>1
<1>5. PicksOK
  BY <1>4 DEF PicksOK, PicksGoUp
<1>6. QED
  BY <1>3, <1>5 DEF PageInv

LEMMA InvStarts == Init => LessonInv
<1>1. 0 \in Nat /\ 0 =< MaxTime /\ Bell - 1 \in Nat /\ Bell - 1 =< MaxTime
  BY LessonAssumption
<1>2. ASSUME CardInit(TRUE), PageInit(FALSE), ServerInit(Bell - 1) PROVE LessonInv
  BY <1>1, <1>2, ServerStarts, WindowStarts, PageStarts DEF LessonInv
<1>3. ASSUME CardInit(FALSE), PageInit(TRUE), ServerInit(0) PROVE LessonInv
  BY <1>1, <1>3, ServerStarts, WindowStarts, PageStarts DEF LessonInv
<1>4. QED
  BY <1>2, <1>3 DEF Init

LEMMA InvStep ==
  LessonInv /\ [Next]_vars => LessonInv' /\ (seen'.q = seen.q => seen'.answer >= seen.answer)
<1> SUFFICES ASSUME LessonInv, [Next]_vars
             PROVE  LessonInv' /\ (seen'.q = seen.q => seen'.answer >= seen.answer)
  OBVIOUS
<1>1. ServerInv /\ WindowInv /\ PageInv /\ seen.answer \in Nat
  BY DEF LessonInv, PageInv, SeenOK, ViewOK, View
<1>2. CASE CardNext /\ UNCHANGED page
  <2>1. ServerInv' /\ Grows /\ WindowInv' /\ UNCHANGED seen
    BY <1>1, <1>2, CardStepKeeps DEF page
  <2>2. PageInv'
    BY <1>1, <1>2, <2>1, PageStays
  <2>3. QED
    BY <1>1, <2>1, <2>2 DEF LessonInv
<1>3. CASE PageNext
  <2>1. /\ ServerInv' /\ Grows /\ Asked' = Asked /\ PageInv' /\ UNCHANGED window
        /\ seen'.q = seen.q => seen'.answer >= seen.answer
    BY <1>1, <1>3, PageStepKeeps
  <2>2. WindowInv'
    BY <1>1, <2>1, WindowStays DEF NoneOpened
  <2>3. QED
    BY <2>1, <2>2 DEF LessonInv
<1>4. CASE UNCHANGED vars
  <2>1. UNCHANGED <<window, page, seen>> /\ UNCHANGED server
    BY <1>4 DEF vars, page
  <2>2. ServerInv' /\ Grows /\ NoneOpened
    BY <1>1, <2>1, ServerStays
  <2>3. WindowInv' /\ PageInv'
    BY <1>1, <2>1, <2>2, WindowStays, PageStays
  <2>4. QED
    BY <1>1, <2>1, <2>2, <2>3 DEF LessonInv
<1>5. QED
  BY <1>2, <1>3, <1>4 DEF Next

LEMMA LessonStays == Spec => []LessonInv
<1>1. Init => LessonInv
  BY InvStarts
<1>2. LessonInv /\ [Next]_vars => LessonInv'
  BY InvStep
<1>3. QED
  BY <1>1, <1>2, PTL DEF Spec

-----------------------------------------------------------------------------
(* What is promised. *)

(* Students are shown the question asked last (findShownQuestion), whatever  *)
(* instants the racing opens and closes of the teacher's windows carried,    *)
(* but where two were closed at one instant.                                 *)
THEOREM LastShown == Spec => []ShownIsLastAsked
<1>1. LessonInv => ShownIsLastAsked
  BY LastIsShown DEF LessonInv
<1>2. QED
  BY <1>1, LessonStays, PTL

(* Words asked again while no answer came are one question (openAttemptFor), *)
(* whenever the server takes up each of the requests.                        *)
THEOREM AskedAgainIsOne == Spec => []AskedOnce
<1>1. LessonInv => AskedOnce
  <2> SUFFICES ASSUME LessonInv, NEW i \in 1 .. Len(presses) - 1,
                      presses[i].draft = presses[i + 1].draft, ~presses[i].told,
                      NEW p \in HeldAs(presses[i].ev) \cup HeldAs(presses[i + 1].ev),
                      NEW q \in HeldAs(presses[i].ev) \cup HeldAs(presses[i + 1].ev)
               PROVE  p = q
    BY DEF AskedOnce
  <2>1. presses[i].ev = presses[i + 1].ev \/ HeldAs(presses[i + 1].ev) = {}
    BY DEF LessonInv, WindowInv, AskingOK, PairsOK, Dry
  <2>2. p \in Asked /\ q \in Asked /\ questions[p].ev = questions[q].ev /\ questions[p].ev # 0
    BY <2>1 DEF HeldAs
  <2>3. QED
    BY <2>2 DEF LessonInv, ServerInv, HeldOnce
<1>2. QED
  BY <1>1, LessonStays, PTL

(* A poll that has stopped, of a question closed on record, holds the counts *)
(* that stand (routes/questions.ts, results).                                *)
THEOREM CountsAreFinal == Spec => []FinalCounts
<1>1. LessonInv => FinalCounts
  BY DEF LessonInv, WindowInv, PollOK, FinalCounts
<1>2. QED
  BY <1>1, LessonStays, PTL

(* Of a student's picks the newest stands (answerQuestion, eventIdAfter), in *)
(* whatever order they land.                                                 *)
THEOREM NewestStands == Spec => []NewestPickStands
<1>1. LessonInv => NewestPickStands
  <2> SUFFICES ASSUME LessonInv, NEW i \in DOMAIN picks, NEW j \in DOMAIN picks, i < j,
                      picks[i].q = picks[j].q, picks[j].told # NoAnswer
               PROVE  responses[picks[i].q] # picks[i].answer
    BY DEF NewestPickStands
  <2>1. i \in 1 .. Len(picks) /\ j \in 1 .. Len(picks) /\ PicksOK
        /\ picks[i] \in PickRow /\ picks[j] \in PickRow
    BY PicksAre DEF LessonInv, PageInv
  <2>2. picks[i].answer < picks[j].answer /\ picks[j].answer =< responses[picks[j].q]
        /\ picks[j].q \in Asked
    BY <2>1 DEF PicksOK, PicksGoUp, PickOK
  <2>3. responses[picks[j].q] \in Nat /\ picks[i].answer \in Nat /\ picks[j].answer \in Nat
    BY <2>1, <2>2, AskedAre DEF LessonInv, ServerInv, PickRow
  <2>4. QED
    BY <2>2, <2>3
<1>2. QED
  BY <1>1, LessonStays, PTL

(* A page that holds an answer never goes back to an earlier one             *)
(* (followLesson's keepLater), whatever read was on its way.                 *)
THEOREM NeverGoesBack == Spec => AnswerNeverGoesBack
<1>1. LessonInv /\ [Next]_vars => [seen'.q = seen.q => seen'.answer >= seen.answer]_vars
  BY InvStep
<1>2. QED
  BY <1>1, LessonStays, PTL DEF Spec, AnswerNeverGoesBack
=============================================================================
