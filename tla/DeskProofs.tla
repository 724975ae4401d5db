----------------------------- MODULE DeskProofs ------------------------------
(* Final examinations, CV images and live session summaries: requests and cron *)
(* ticks that read rows, think, and save. For each component, the inductive    *)
(* invariant that says what a request still knows of the rows it read, that it *)
(* implies what the component promises, and that every step preserves it.      *)
EXTENDS FinalExams, CvGenerations, LiveSummaries, FiniteSetTheorems, SequenceTheorems,
        WellFoundedInduction, TLAPS

-----------------------------------------------------------------------------
(* Final examinations *)

\* What requests are doing, and what they rely on.
ExamPcs == {"idle", "start", "delete", "answer", "submit", "reopen", "find", "create", "update",
            "verdict", "issue", "check", "certify", "url", "pdf", "issued", "regenerate", "revoke"}
ExamRequestStates ==
  [pc : ExamPcs, on : ExamAttempts \union {NoAttempt},
   about : ExamQuestions \union Verdicts \union {"none"}, issue : BOOLEAN]

Judgeable == {"UNDER_REVIEW", "EVALUATED", "RETAKE_REQUESTED"}
SubmittedStatuses == {"SUBMITTED", "CERTIFICATE_ISSUED"} \union Judgeable
AttemptStatuses == {"NONE", "IN_PROGRESS"} \union SubmittedStatuses

\* Between the two rows that a verdict or a certificate changes.
Midway == {"verdict", "url", "pdf", "issued"}

\* What holds of a request's attempt whatever others have done to it.
Sound(q) ==
  LET s == examiner[q]
  IN /\ s.pc \notin {"idle", "start"} => s.on \in ExamAttempts /\ attempt[s.on] # "NONE"
     /\ s.pc = "start" => s.on = NoAttempt \/ s.on \in approved
     /\ s.pc \in {"delete", "answer"} => s.about \in ExamQuestions
     /\ s.pc \in {"reopen", "find", "create", "update", "verdict"} => attempt[s.on] \in SubmittedStatuses
     /\ s.pc \in {"find", "create", "update", "verdict"} =>
          s.about \in Verdicts /\ (s.issue => s.about = "PASSED")
     /\ s.pc \in {"verdict", "certify", "url", "pdf", "issued", "regenerate", "revoke"} =>
          review[s.on] # "NONE"
     /\ s.pc = "issued" => s.issue

\* What it still knows of the attempt's rows if no other request has saved any.
Knows(q) ==
  LET s == examiner[q]
  IN /\ s.pc = "submit" => attempt[s.on] = "IN_PROGRESS"
     /\ s.pc = "answer" => answerRows[s.on][s.about] = 0
     /\ s.pc = "reopen" => attempt[s.on] \in Reopenable
     /\ s.pc \in {"find", "create", "update"} => attempt[s.on] \in Judgeable
     /\ s.pc = "verdict" =>
          /\ review[s.on] = s.about
          /\ certificate[s.on] # "NONE" => s.on \in issuedDirectly
     /\ s.pc = "certify" => certificate[s.on] = "NONE" /\ review[s.on] = "PASSED"
     /\ s.pc \in {"url", "pdf", "issued"} =>
          /\ review[s.on] = "PASSED" /\ certificate[s.on] # "NONE"
          /\ attempt[s.on] \notin {"RETAKE_REQUESTED", "CERTIFICATE_ISSUED"}
          /\ s.issue <=> s.on \notin issuedDirectly
     /\ s.pc \in {"regenerate", "revoke"} => certificate[s.on] # "NONE"

\* Status, verdict and certificate of an attempt agree.
Agree(a) ==
  /\ attempt[a] = "RETAKE_REQUESTED" => review[a] = "RETAKE_REQUIRED"
  /\ attempt[a] = "EVALUATED" => review[a] # "RETAKE_REQUIRED"
  /\ attempt[a] = "CERTIFICATE_ISSUED" => certificate[a] # "NONE"
  /\ certificate[a] # "NONE" /\ a \notin issuedDirectly =>
       attempt[a] = "CERTIFICATE_ISSUED" /\ review[a] = "PASSED"

\* The order in which an attempt's rows come about.
InOrder(a) ==
  /\ review[a] # "NONE" => attempt[a] \in SubmittedStatuses
  /\ certificate[a] # "NONE" => review[a] # "NONE"
  /\ a > 1 /\ attempt[a] # "NONE" => attempt[a - 1] \in SubmittedStatuses
  /\ attempt[a] = "RETAKE_REQUESTED" => a \in approved
  /\ a \in approved => attempt[a] # "NONE"

\* An attempt that nobody disturbed.
Orderly(a) ==
  /\ \A q \in ExamQuestions : answerRows[a][q] <= 1
  /\ a > 1 /\ attempt[a] # "NONE" => a - 1 \in approved
  /\ \A r \in Examiners : WorksOn(r, a) => Knows(r)
  /\ (\A r \in Examiners : WorksOn(r, a) => examiner[r].pc \notin Midway) => Agree(a)

ExamRowsTyped ==
  /\ attempt \in [ExamAttempts -> AttemptStatuses]
  /\ answerRows \in [ExamAttempts -> [ExamQuestions -> Nat]]
  /\ review \in [ExamAttempts -> Verdicts \union {"NONE"}]
  /\ certificate \in [ExamAttempts -> {"NONE", "ISSUED", "REVOKED"}]
  /\ manualReview \in BOOLEAN
  /\ examRequests \in 0..MaxExamRequests /\ examFaults \in 0..MaxExamFaults
  /\ disturbed \subseteq ExamAttempts /\ approved \subseteq ExamAttempts
  /\ issuedDirectly \subseteq ExamAttempts

ExamInv ==
  /\ ExamRowsTyped
  /\ examiner \in [Examiners -> ExamRequestStates]
  /\ \A a \in ExamAttempts : InOrder(a)
  /\ \A r \in Examiners : Sound(r)
  /\ \A a \in ExamAttempts \ disturbed : Orderly(a)

LEMMA OffTyped ==
  /\ Off \in ExamRequestStates /\ Off.pc = "idle" /\ Off.on = NoAttempt
  /\ Off.about = "none" /\ Off.issue = FALSE
  BY DEF Off, ExamRequestStates, ExamPcs

LEMMA AttemptsAreNumbers == ExamAttempts \subseteq Nat /\ NoAttempt \notin ExamAttempts
  BY ExamsAssumption DEF ExamAttempts, NoAttempt

\* The latest attempt exists.
LEMMA LatestIs ==
  ASSUME attempt \in [ExamAttempts -> AttemptStatuses]
  PROVE  /\ Latest \in 0..MaxExamAttempts
         /\ Latest = 0 \/ attempt[Latest] # "NONE"
         /\ \A a \in ExamAttempts : attempt[a] # "NONE" => a <= Latest
<1> USE ExamsAssumption
<1> DEFINE Above == {n \in 0..MaxExamAttempts : \A a \in ExamAttempts : attempt[a] # "NONE" => a <= n}
<1>1. Above \subseteq Nat /\ MaxExamAttempts \in Above
  BY DEF ExamAttempts
<1>2. PICK n \in Above : \A m \in Above : ~ (<<m, n>> \in OpToRel(<, Nat))
  <2>1. Above # {}
    BY <1>1
  <2> HIDE DEF Above
  <2> QED
    BY <1>1, <2>1, NatLessThanWellFounded, WFMin, Zenon
<1>3. \A m \in Above : ~ (m < n)
  BY <1>1, <1>2 DEF OpToRel
<1>4. n = 0 \/ attempt[n] # "NONE"
  <2> SUFFICES ASSUME n # 0, attempt[n] = "NONE" PROVE FALSE
    OBVIOUS
  <2>1. n \in 1..MaxExamAttempts /\ n - 1 \in 0..MaxExamAttempts
    OBVIOUS
  <2>2. \A a \in ExamAttempts : attempt[a] # "NONE" => a <= n - 1
    BY <2>1 DEF ExamAttempts
  <2> QED
    BY <1>3, <2>1, <2>2
<1>5. \E l \in 0..MaxExamAttempts :
        /\ l = 0 \/ attempt[l] # "NONE"
        /\ \A a \in ExamAttempts : attempt[a] # "NONE" => a <= l
  BY <1>4
<1> QED
  BY <1>5 DEF Latest

LEMMA ExamConsistent == ExamInv => ExamsConsistent
<1> SUFFICES ASSUME ExamInv PROVE ExamsConsistent
  OBVIOUS
<1>1. ExamTypeOK
  BY DEF ExamInv, ExamRowsTyped, ExamTypeOK, AttemptStatuses, SubmittedStatuses, Judgeable, ActiveStatuses,
     ExamRequestStates
<1>2. \A a \in ExamAttempts : InOrder(a)
  BY DEF ExamInv
<1>3. ASSUME NEW a \in ExamAttempts, Untouched(a)
      PROVE  Agree(a) /\ Orderly(a)
  <2>1. Orderly(a)
    BY <1>3 DEF ExamInv, Untouched
  <2> QED
    BY <2>1, <1>3 DEF Orderly, Untouched
<1> QED
  BY <1>1, <1>2, <1>3 DEF ExamsConsistent, InOrder, Orderly, Agree, SubmittedStatuses, Judgeable

LEMMA ExamInitInv == ExamInit => ExamInv
<1> SUFFICES ASSUME ExamInit PROVE ExamInv
  OBVIOUS
<1>1. ExamRowsTyped
  BY ExamsAssumption DEF ExamInit, ExamRowsTyped, AttemptStatuses
<1>2. examiner \in [Examiners -> ExamRequestStates] /\ \A r \in Examiners : examiner[r].pc = "idle"
  BY OffTyped DEF ExamInit
<1>3. \A a \in ExamAttempts : InOrder(a) /\ Orderly(a)
  BY <1>2 DEF ExamInit, InOrder, Orderly, WorksOn, Agree
<1>4. \A r \in Examiners : Sound(r)
  BY <1>2 DEF Sound
<1> QED
  BY <1>1, <1>2, <1>3, <1>4 DEF ExamInv

\* A request goes on without a save: what it is told is true.
LEMMA RequestReads ==
  ASSUME ExamInv, NEW r \in Examiners, NEW s \in ExamRequestStates,
         examiner' = [examiner EXCEPT ![r] = s],
         UNCHANGED <<examRows, manualReview, disturbed, approved, issuedDirectly>>,
         examRequests' \in 0..MaxExamRequests, examFaults' \in 0..MaxExamFaults,
         examiner[r].pc \notin Midway, s.pc \notin Midway, Sound(r)', s.on \notin disturbed => Knows(r)'
  PROVE  ExamInv'
<1>1. \A q \in Examiners : examiner'[q] = IF q = r THEN s ELSE examiner[q]
  BY DEF ExamInv
<1>2. \A q \in Examiners \ {r} : (Sound(q) => Sound(q)') /\ (Knows(q) => Knows(q)')
  BY <1>1 DEF Sound, Knows, examRows
<1>3. ExamRowsTyped' /\ examiner' \in [Examiners -> ExamRequestStates]
  BY DEF ExamInv, ExamRowsTyped, examRows
<1>4. \A a \in ExamAttempts : InOrder(a)'
  BY DEF ExamInv, InOrder, examRows
<1>5. \A q \in Examiners : Sound(q)'
  BY <1>2 DEF ExamInv
<1>6. ASSUME NEW a \in ExamAttempts \ disturbed PROVE Orderly(a)'
  <2>1. Orderly(a)
    BY <1>6 DEF ExamInv
  <2>2. ASSUME NEW q \in Examiners, examiner'[q].pc # "idle", examiner'[q].on = a PROVE Knows(q)'
    <3>1. CASE q = r
      BY <3>1, <1>1, <1>6, <2>2
    <3>2. CASE q # r
      BY <3>2, <1>1, <1>2, <2>1, <2>2 DEF Orderly, WorksOn, ExamInv
    <3> QED
      BY <3>1, <3>2
  <2>3. ASSUME \A q \in Examiners : examiner'[q].pc # "idle" /\ examiner'[q].on = a => examiner'[q].pc \notin Midway
        PROVE  Agree(a)'
    <3>1. \A q \in Examiners : WorksOn(q, a) => examiner[q].pc \notin Midway
      BY <1>1, <2>3 DEF WorksOn
    <3> QED
      BY <3>1, <2>1 DEF Orderly, Agree, examRows
  <2> QED
    BY <2>1, <2>2, <2>3 DEF Orderly, WorksOn, examRows
<1> QED
  BY <1>3, <1>4, <1>5, <1>6 DEF ExamInv

\* A request saves a row of its attempt.
LEMMA RequestSaves ==
  ASSUME ExamInv, NEW r \in Examiners, NEW s \in ExamRequestStates, NEW a \in ExamAttempts,
         examiner[r].on = a, examiner[r].pc # "idle",
         examiner' = [examiner EXCEPT ![r] = s], s.pc = "idle" \/ s.on = a,
         Disturbs(r, a), ExamRowsTyped', UNCHANGED <<examRequests, examFaults>>,
         \A b \in ExamAttempts \ {a} :
           /\ attempt'[b] = attempt[b] /\ answerRows'[b] = answerRows[b]
           /\ review'[b] = review[b] /\ certificate'[b] = certificate[b]
           /\ b \in issuedDirectly' <=> b \in issuedDirectly,
         approved \subseteq approved', approved' \subseteq approved \union {a},
         attempt'[a] = attempt[a] \/ attempt'[a] \in SubmittedStatuses,
         review[a] # "NONE" => review'[a] # "NONE",
         review'[a] # "NONE" => attempt'[a] \in SubmittedStatuses,
         certificate'[a] # "NONE" => review'[a] # "NONE",
         attempt'[a] = "RETAKE_REQUESTED" => a \in approved',
         attempt[a] # "NONE",
         Sound(r)',
         a \notin disturbed /\ Orderly(a) /\ (\A q \in Examiners \ {r} : ~WorksOn(q, a)) =>
           /\ \A q \in ExamQuestions : answerRows'[a][q] <= 1
           /\ Knows(r)'
           /\ s.pc \notin Midway => Agree(a)'
  PROVE  ExamInv'
<1> USE AttemptsAreNumbers
<1>1. \A q \in Examiners : examiner'[q] = IF q = r THEN s ELSE examiner[q]
  BY DEF ExamInv
<1>2. examiner' \in [Examiners -> ExamRequestStates]
  BY DEF ExamInv
<1>3. \A b \in ExamAttempts :
        /\ attempt[b] \in SubmittedStatuses => attempt'[b] \in SubmittedStatuses
        /\ attempt[b] # "NONE" => attempt'[b] # "NONE"
        /\ review[b] # "NONE" => review'[b] # "NONE"
  BY DEF SubmittedStatuses, Judgeable
<1>4. ASSUME NEW b \in ExamAttempts PROVE InOrder(b)'
  <2>0. InOrder(b)
    BY DEF ExamInv
  <2>1. b > 1 => b - 1 \in ExamAttempts
    BY ExamsAssumption DEF ExamAttempts
  <2>2. b > 1 /\ attempt'[b] # "NONE" => attempt'[b - 1] \in SubmittedStatuses
    BY <2>0, <2>1, <1>3 DEF InOrder
  <2>3. CASE b = a
    BY <1>3, <2>2, <2>3 DEF InOrder
  <2>4. CASE b # a
    BY <2>0, <2>2, <2>4 DEF InOrder
  <2> QED
    BY <2>3, <2>4
<1>5. ASSUME NEW q \in Examiners \ {r}, Sound(q) PROVE Sound(q)'
  <2>1. examiner'[q] = examiner[q]
    BY <1>1
  <2>2. examiner[q].pc \notin {"idle", "start"} =>
          examiner[q].on \in ExamAttempts /\ attempt[examiner[q].on] # "NONE"
    BY <1>5 DEF Sound
  <2>3. /\ examiner[q].pc \notin {"idle", "start"} => attempt'[examiner[q].on] # "NONE"
        /\ examiner[q].pc \in {"reopen", "find", "create", "update", "verdict"} =>
             attempt'[examiner[q].on] \in SubmittedStatuses
        /\ examiner[q].pc \in {"verdict", "certify", "url", "pdf", "issued", "regenerate", "revoke"} =>
             review'[examiner[q].on] # "NONE"
    BY <2>2, <1>3, <1>5 DEF Sound
  <2>4. approved \subseteq approved'
    OBVIOUS
  <2> QED
    BY <2>1, <2>2, <2>3, <2>4, <1>5 DEF Sound
<1>6. \A q \in Examiners : Sound(q)'
  BY <1>5 DEF ExamInv
<1>7. ASSUME NEW b \in ExamAttempts, b \notin disturbed', b # a PROVE Orderly(b)'
  <2>1. b \notin disturbed
    BY <1>7 DEF Disturbs
  <2>2. Orderly(b)
    BY <2>1, <1>7 DEF ExamInv
  <2>3. /\ attempt'[b] = attempt[b] /\ answerRows'[b] = answerRows[b]
        /\ review'[b] = review[b] /\ certificate'[b] = certificate[b]
        /\ b \in issuedDirectly' <=> b \in issuedDirectly
    BY <1>7
  <2>4. \A q \in Examiners \ {r} : examiner[q].on = b /\ Knows(q) => Knows(q)'
    BY <2>3, <1>1 DEF Knows
  <2>5. \A q \in Examiners : WorksOn(q, b)' => q # r /\ WorksOn(q, b) /\ examiner'[q] = examiner[q]
    BY <1>1, <1>7 DEF WorksOn
  <2>6. \A q \in Examiners : WorksOn(q, b) => WorksOn(q, b)' /\ examiner'[q] = examiner[q]
    BY <1>1, <1>7 DEF WorksOn
  <2>7. \A q \in Examiners : WorksOn(q, b)' => Knows(q)'
    BY <2>2, <2>4, <2>5 DEF Orderly, WorksOn, ExamInv
  <2>8. (\A q \in Examiners : WorksOn(q, b)' => examiner'[q].pc \notin Midway) => Agree(b)'
    BY <2>2, <2>3, <2>6 DEF Orderly, Agree
  <2> QED
    BY <2>2, <2>3, <2>7, <2>8 DEF Orderly
<1>8. ASSUME a \notin disturbed' PROVE Orderly(a)'
  <2>1. a \notin disturbed /\ \A q \in Examiners \ {r} : ~WorksOn(q, a)
    BY <1>8 DEF Disturbs
  <2>2. Orderly(a)
    BY <2>1 DEF ExamInv
  <2>3. /\ \A q \in ExamQuestions : answerRows'[a][q] <= 1
        /\ Knows(r)'
        /\ s.pc \notin Midway => Agree(a)'
    BY <2>1, <2>2
  <2>4. \A q \in Examiners : WorksOn(q, a)' => q = r
    BY <1>1, <2>1 DEF WorksOn
  <2>5. \A q \in Examiners : WorksOn(q, a)' => Knows(q)'
    BY <1>1, <2>3, <2>4
  <2>6. (\A q \in Examiners : WorksOn(q, a)' => examiner'[q].pc \notin Midway) => Agree(a)'
    <3>1. CASE s.pc = "idle"
      BY <3>1, <2>3 DEF Midway
    <3>2. CASE s.pc # "idle"
      BY <3>2, <1>1, <2>3 DEF WorksOn
    <3> QED
      BY <3>1, <3>2
  <2>7. a > 1 /\ attempt'[a] # "NONE" => a - 1 \in approved'
    BY <2>2 DEF Orderly
  <2> QED
    BY <2>3, <2>5, <2>6, <2>7 DEF Orderly
<1>9. \A b \in ExamAttempts \ disturbed' : Orderly(b)'
  BY <1>7, <1>8
<1> QED
  BY <1>2, <1>4, <1>6, <1>9 DEF ExamInv

\* What a request that is at work on an attempt knows.
LEMMA AtWork ==
  ASSUME ExamInv, NEW r \in Examiners, examiner[r].pc \notin {"idle", "start"}
  PROVE  /\ examiner[r] \in ExamRequestStates /\ Sound(r)
         /\ examiner[r].on \in ExamAttempts /\ attempt[examiner[r].on] # "NONE"
         /\ InOrder(examiner[r].on)
         /\ examiner[r].on \notin disturbed => Orderly(examiner[r].on) /\ Knows(r)
<1>1. examiner[r] \in ExamRequestStates /\ Sound(r)
  BY DEF ExamInv
<1>2. examiner[r].on \in ExamAttempts /\ attempt[examiner[r].on] # "NONE"
  BY <1>1 DEF Sound
<1>3. InOrder(examiner[r].on)
  BY <1>2 DEF ExamInv
<1>4. examiner[r].on \notin disturbed => Orderly(examiner[r].on)
  BY <1>2 DEF ExamInv
<1> QED
  BY <1>1, <1>2, <1>3, <1>4 DEF Orderly, WorksOn

\* What a request is doing after it went on.
LEMMA ContinuesIs ==
  ASSUME examiner \in [Examiners -> ExamRequestStates], NEW r \in Examiners,
         NEW pc \in ExamPcs, Continues(r, pc)
  PROVE  \E s \in ExamRequestStates :
           /\ examiner' = [examiner EXCEPT ![r] = s] /\ examiner'[r] = s
           /\ s.pc = pc /\ s.on = examiner[r].on /\ s.about = examiner[r].about
           /\ s.issue = examiner[r].issue
<1> DEFINE s == [examiner[r] EXCEPT !.pc = pc]
<1>1. examiner[r] \in ExamRequestStates
  OBVIOUS
<1>2. s \in ExamRequestStates
  BY <1>1 DEF ExamRequestStates
<1>3. s.pc = pc /\ s.on = examiner[r].on /\ s.about = examiner[r].about /\ s.issue = examiner[r].issue
  BY <1>1 DEF ExamRequestStates
<1>4. examiner' = [examiner EXCEPT ![r] = s] /\ examiner'[r] = s
  BY <1>1 DEF Continues
<1> QED
  BY <1>2, <1>3, <1>4

\* A request that arrives for an attempt.
LEMMA RequestAsks ==
  ASSUME ExamInv, NEW r \in Examiners, NEW s \in ExamRequestStates, Asks(r, s), s.pc \notin Midway,
         Sound(r)', s.on \notin disturbed => Knows(r)'
  PROVE  ExamInv'
<1>1. /\ examiner' = [examiner EXCEPT ![r] = s] /\ examiner[r].pc = "idle"
      /\ UNCHANGED <<examRows, manualReview, disturbed, approved, issuedDirectly>>
      /\ examRequests' = examRequests + 1 /\ examRequests < MaxExamRequests /\ examFaults' = examFaults
  BY DEF Asks, Turns, examHistory
<1>2. examRequests' \in 0..MaxExamRequests /\ examFaults' \in 0..MaxExamFaults
  BY <1>1, ExamsAssumption DEF ExamInv, ExamRowsTyped
<1> QED
  BY <1>1, <1>2, RequestReads DEF Midway

LEMMA LearnersRequests ==
  ASSUME ExamInv, NEW r \in Examiners,
         \/ StartAttempt(r)
         \/ \E a \in ExamAttempts, q \in ExamQuestions : SubmitAnswer(r, a, q)
         \/ \E a \in ExamAttempts : SubmitAttempt(r, a)
  PROVE  ExamInv'
<1> USE AttemptsAreNumbers
<1>0. examiner \in [Examiners -> ExamRequestStates]
  BY DEF ExamInv
<1>1. CASE StartAttempt(r)
  <2> DEFINE s == [Off EXCEPT !.pc = "start", !.on = Latest]
  <2>1. /\ Latest \in 0..MaxExamAttempts /\ (Latest = 0 \/ attempt[Latest] # "NONE")
    BY LatestIs DEF ExamInv, ExamRowsTyped
  <2>2. Latest \in ExamAttempts \union {NoAttempt}
    BY <2>1, ExamsAssumption DEF ExamAttempts, NoAttempt
  <2>3. s \in ExamRequestStates /\ s.pc = "start" /\ s.on = Latest
    BY <2>2 DEF Off, ExamRequestStates, ExamPcs
  <2>4. Asks(r, s) /\ examiner'[r] = s /\ UNCHANGED <<attempt, approved>>
    BY <1>0, <1>1 DEF StartAttempt, Asks, Turns, examRows, examHistory
  <2>5. Latest \in ExamAttempts => Latest \in approved
    BY <1>1 DEF StartAttempt, MayStart, ExamInv, InOrder
  <2>6. Sound(r)'
    BY <2>2, <2>3, <2>4, <2>5 DEF Sound
  <2>7. Knows(r)'
    BY <2>3, <2>4 DEF Knows
  <2> HIDE DEF s
  <2> QED
    BY <2>3, <2>4, <2>6, <2>7, RequestAsks DEF Midway
<1>2. CASE \E a \in ExamAttempts, q \in ExamQuestions : SubmitAnswer(r, a, q)
  <2>1. PICK a \in ExamAttempts, q \in ExamQuestions : SubmitAnswer(r, a, q)
    BY <1>2
  <2> DEFINE s == [Off EXCEPT !.pc = "delete", !.on = a, !.about = q]
  <2>3. s \in ExamRequestStates /\ s.pc = "delete" /\ s.on = a /\ s.about = q
    BY DEF Off, ExamRequestStates, ExamPcs
  <2>4. Asks(r, s) /\ examiner'[r] = s /\ attempt[a] = "IN_PROGRESS" /\ UNCHANGED <<attempt, approved>>
    BY <1>0, <2>1 DEF SubmitAnswer, Asks, Turns, examRows, examHistory
  <2> HIDE DEF s
  <2>6. Sound(r)'
    BY <2>3, <2>4 DEF Sound
  <2>7. Knows(r)'
    BY <2>3, <2>4 DEF Knows
  <2> QED
    BY <2>3, <2>4, <2>6, <2>7, RequestAsks DEF Midway
<1>3. CASE \E a \in ExamAttempts : SubmitAttempt(r, a)
  <2>1. PICK a \in ExamAttempts : SubmitAttempt(r, a)
    BY <1>3
  <2> DEFINE s == [Off EXCEPT !.pc = "submit", !.on = a]
  <2>3. s \in ExamRequestStates /\ s.pc = "submit" /\ s.on = a
    BY DEF Off, ExamRequestStates, ExamPcs
  <2>4. Asks(r, s) /\ examiner'[r] = s /\ attempt[a] = "IN_PROGRESS" /\ UNCHANGED <<attempt, approved>>
    BY <1>0, <2>1 DEF SubmitAttempt, Asks, Turns, examRows, examHistory
  <2> HIDE DEF s
  <2>6. Sound(r)'
    BY <2>3, <2>4 DEF Sound
  <2>7. Knows(r)'
    BY <2>3, <2>4 DEF Knows
  <2> QED
    BY <2>3, <2>4, <2>6, <2>7, RequestAsks DEF Midway
<1> QED
  BY <1>1, <1>2, <1>3

LEMMA AdministratorsRequests ==
  ASSUME ExamInv, NEW r \in Examiners, NEW a \in ExamAttempts,
         \/ ReopenEvaluation(r, a)
         \/ \E v \in Verdicts, issue \in BOOLEAN : GiveFinalVerdict(r, a, v, issue)
         \/ IssueCertificate(r, a) \/ IssueDirectly(r, a)
         \/ RegenerateCertificatePdf(r, a) \/ RevokeCertificate(r, a)
  PROVE  ExamInv'
<1>0. examiner \in [Examiners -> ExamRequestStates] /\ InOrder(a) /\ attempt[a] \in AttemptStatuses
  BY DEF ExamInv, ExamRowsTyped
<1>1. CASE ReopenEvaluation(r, a)
  <2> DEFINE s == [Off EXCEPT !.pc = "reopen", !.on = a]
  <2>3. s \in ExamRequestStates /\ s.pc = "reopen" /\ s.on = a
    BY DEF Off, ExamRequestStates, ExamPcs
  <2>4. Asks(r, s) /\ examiner'[r] = s /\ attempt[a] \in Reopenable /\ UNCHANGED attempt
    BY <1>0, <1>1 DEF ReopenEvaluation, Asks, Turns, examRows
  <2> HIDE DEF s
  <2>6. Sound(r)'
    BY <2>3, <2>4 DEF Sound, Reopenable, SubmittedStatuses, Judgeable
  <2>7. Knows(r)'
    BY <2>3, <2>4 DEF Knows
  <2> QED
    BY <2>3, <2>4, <2>6, <2>7, RequestAsks DEF Midway
<1>2. CASE \E v \in Verdicts, issue \in BOOLEAN : GiveFinalVerdict(r, a, v, issue)
  <2>1. PICK v \in Verdicts, issue \in BOOLEAN : GiveFinalVerdict(r, a, v, issue)
    BY <1>2
  <2> DEFINE s == [pc |-> "find", on |-> a, about |-> v, issue |-> issue]
  <2>3. s \in ExamRequestStates /\ s.pc = "find" /\ s.on = a /\ s.about = v /\ s.issue = issue
    BY DEF ExamRequestStates, ExamPcs
  <2>4. /\ Asks(r, s) /\ examiner'[r] = s /\ attempt[a] \in Judgeable /\ UNCHANGED attempt
        /\ issue => v = "PASSED"
    BY <1>0, <2>1 DEF GiveFinalVerdict, Asks, Turns, examRows, Judgeable
  <2> HIDE DEF s
  <2>6. Sound(r)'
    BY <2>3, <2>4 DEF Sound, SubmittedStatuses, Judgeable
  <2>7. Knows(r)'
    BY <2>3, <2>4 DEF Knows
  <2> QED
    BY <2>3, <2>4, <2>6, <2>7, RequestAsks DEF Midway
<1>3. CASE IssueCertificate(r, a)
  <2> DEFINE s == [Off EXCEPT !.pc = "issue", !.on = a, !.issue = TRUE]
  <2>3. s \in ExamRequestStates /\ s.pc = "issue" /\ s.on = a
    BY DEF Off, ExamRequestStates, ExamPcs
  <2>4. Asks(r, s) /\ examiner'[r] = s /\ attempt[a] # "NONE" /\ UNCHANGED attempt
    BY <1>0, <1>3 DEF IssueCertificate, Asks, Turns, examRows
  <2> HIDE DEF s
  <2>6. Sound(r)' /\ Knows(r)'
    BY <2>3, <2>4 DEF Sound, Knows
  <2> QED
    BY <2>3, <2>4, <2>6, RequestAsks DEF Midway
<1>4. CASE IssueDirectly(r, a)
  <2> DEFINE s == [Off EXCEPT !.pc = "check", !.on = a]
  <2>3. s \in ExamRequestStates /\ s.pc = "check" /\ s.on = a
    BY DEF Off, ExamRequestStates, ExamPcs
  <2>4. Asks(r, s) /\ examiner'[r] = s /\ attempt[a] # "NONE" /\ UNCHANGED attempt
    BY <1>0, <1>4 DEF IssueDirectly, Asks, Turns, examRows
  <2> HIDE DEF s
  <2>6. Sound(r)' /\ Knows(r)'
    BY <2>3, <2>4 DEF Sound, Knows
  <2> QED
    BY <2>3, <2>4, <2>6, RequestAsks DEF Midway
<1>5. CASE RegenerateCertificatePdf(r, a)
  <2> DEFINE s == [Off EXCEPT !.pc = "regenerate", !.on = a]
  <2>3. s \in ExamRequestStates /\ s.pc = "regenerate" /\ s.on = a
    BY DEF Off, ExamRequestStates, ExamPcs
  <2>4. Asks(r, s) /\ examiner'[r] = s /\ certificate[a] = "ISSUED" /\ UNCHANGED <<attempt, review, certificate>>
    BY <1>0, <1>5 DEF RegenerateCertificatePdf, Asks, Turns, examRows
  <2> HIDE DEF s
  <2>5. review[a] # "NONE" /\ attempt[a] # "NONE"
    BY <1>0, <2>4 DEF InOrder, SubmittedStatuses, Judgeable
  <2>6. Sound(r)' /\ Knows(r)'
    BY <2>3, <2>4, <2>5 DEF Sound, Knows
  <2> QED
    BY <2>3, <2>4, <2>6, RequestAsks DEF Midway
<1>6. CASE RevokeCertificate(r, a)
  <2> DEFINE s == [Off EXCEPT !.pc = "revoke", !.on = a]
  <2>3. s \in ExamRequestStates /\ s.pc = "revoke" /\ s.on = a
    BY DEF Off, ExamRequestStates, ExamPcs
  <2>4. Asks(r, s) /\ examiner'[r] = s /\ certificate[a] = "ISSUED" /\ UNCHANGED <<attempt, review, certificate>>
    BY <1>0, <1>6 DEF RevokeCertificate, Asks, Turns, examRows
  <2> HIDE DEF s
  <2>5. review[a] # "NONE" /\ attempt[a] # "NONE"
    BY <1>0, <2>4 DEF InOrder, SubmittedStatuses, Judgeable
  <2>6. Sound(r)' /\ Knows(r)'
    BY <2>3, <2>4, <2>5 DEF Sound, Knows
  <2> QED
    BY <2>3, <2>4, <2>6, RequestAsks DEF Midway
<1> QED
  BY <1>1, <1>2, <1>3, <1>4, <1>5, <1>6

\* The reads between two saves.
LEMMA RequestsReads ==
  ASSUME ExamInv, NEW r \in Examiners, FindReview(r) \/ CheckReview(r) \/ CheckCertificate(r)
  PROVE  ExamInv'
<1>0. /\ examiner \in [Examiners -> ExamRequestStates] /\ examiner[r].pc \in {"find", "issue", "check"}
      /\ UNCHANGED <<examRows, manualReview, disturbed, approved, issuedDirectly>>
      /\ examRequests' \in 0..MaxExamRequests /\ examFaults' \in 0..MaxExamFaults
      /\ examiner[r].pc \notin Midway
  BY DEF ExamInv, ExamRowsTyped, FindReview, CheckReview, CheckCertificate, examHistory, Midway
<1>1. /\ Sound(r) /\ examiner[r].on \in ExamAttempts /\ attempt[examiner[r].on] # "NONE"
      /\ examiner[r].on \notin disturbed => Knows(r)
  BY <1>0, AtWork
<1>2. CASE Turns(r, Off)
  <2>1. examiner' = [examiner EXCEPT ![r] = Off] /\ examiner'[r] = Off
    BY <1>0, <1>2 DEF Turns
  <2>2. Sound(r)' /\ Knows(r)'
    BY <2>1, OffTyped DEF Sound, Knows
  <2> QED
    BY <1>0, <2>1, <2>2, OffTyped, RequestReads DEF Midway
<1>3. CASE FindReview(r)
  <2> DEFINE pc == IF review[examiner[r].on] = "NONE" THEN "create" ELSE "update"
  <2>1. pc \in ExamPcs /\ Continues(r, pc)
    BY <1>3 DEF FindReview, ExamPcs
  <2>2. pc \in {"create", "update"}
    OBVIOUS
  <2> HIDE DEF pc
  <2>3. PICK s \in ExamRequestStates :
           /\ examiner' = [examiner EXCEPT ![r] = s] /\ examiner'[r] = s
           /\ s.pc = pc /\ s.on = examiner[r].on /\ s.about = examiner[r].about
           /\ s.issue = examiner[r].issue
    BY <1>0, <2>1, ContinuesIs
  <2>4. Sound(r)'
    BY <1>0, <1>1, <1>3, <2>2, <2>3 DEF Sound, FindReview, examRows
  <2>5. s.on \notin disturbed => Knows(r)'
    BY <1>0, <1>1, <1>3, <2>2, <2>3 DEF Knows, FindReview, examRows
  <2>6. s.pc \notin Midway
    BY <2>2, <2>3 DEF Midway
  <2> QED
    BY <1>0, <2>3, <2>4, <2>5, <2>6, RequestReads
<1>4. CASE Continues(r, "check") /\ examiner[r].pc = "issue"
  <2>3. PICK s \in ExamRequestStates :
           /\ examiner' = [examiner EXCEPT ![r] = s] /\ examiner'[r] = s
           /\ s.pc = "check" /\ s.on = examiner[r].on
    BY <1>0, <1>4, ContinuesIs DEF ExamPcs
  <2>4. Sound(r)' /\ Knows(r)'
    BY <1>0, <1>1, <2>3 DEF Sound, Knows, examRows
  <2> QED
    BY <1>0, <2>3, <2>4, RequestReads DEF Midway
<1>5. CASE Continues(r, "certify") /\ CheckCertificate(r)
           /\ certificate[examiner[r].on] = "NONE" /\ review[examiner[r].on] = "PASSED"
  <2>3. PICK s \in ExamRequestStates :
           /\ examiner' = [examiner EXCEPT ![r] = s] /\ examiner'[r] = s
           /\ s.pc = "certify" /\ s.on = examiner[r].on
    BY <1>0, <1>5, ContinuesIs DEF ExamPcs
  <2>4. Sound(r)' /\ Knows(r)'
    BY <1>0, <1>1, <1>5, <2>3 DEF Sound, Knows, examRows
  <2> QED
    BY <1>0, <2>3, <2>4, RequestReads DEF Midway
<1> QED
  BY <1>2, <1>3, <1>4, <1>5 DEF CheckReview, CheckCertificate

\* A request saves the status of its attempt; the row it had read was its own if
\* nobody disturbed it.
LEMMA AttemptSaved ==
  ASSUME ExamInv, NEW r \in Examiners, NEW a \in ExamAttempts, NEW standing \in SubmittedStatuses,
         NEW s \in ExamRequestStates, s.pc = "idle" \/ (s.pc = "issue" /\ s.on = a),
         examiner[r].pc \notin {"idle", "start"}, examiner[r].on = a,
         SavesAttempt(r, a, standing, s),
         examiner[r].pc \in Midway => standing \notin ActiveStatuses,
         a \notin disturbed /\ (\A q \in Examiners \ {r} : ~WorksOn(q, a)) =>
           /\ standing = "RETAKE_REQUESTED" => review[a] = "RETAKE_REQUIRED"
           /\ standing = "EVALUATED" => review[a] # "RETAKE_REQUIRED"
           /\ standing = "CERTIFICATE_ISSUED" => certificate[a] # "NONE"
           /\ certificate[a] # "NONE" /\ a \notin issuedDirectly =>
                standing = "CERTIFICATE_ISSUED" /\ review[a] = "PASSED"
  PROVE  ExamInv'
<1> DEFINE saved == IndexAllows(a, standing)
<1>0. /\ examiner \in [Examiners -> ExamRequestStates] /\ attempt \in [ExamAttempts -> AttemptStatuses]
      /\ ExamRowsTyped /\ InOrder(a) /\ attempt[a] # "NONE"
      /\ standing \in AttemptStatuses /\ standing # "NONE"
      /\ UNCHANGED <<answerRows, review, certificate, manualReview, examRequests, examFaults, issuedDirectly>>
      /\ Disturbs(r, a)
  BY AtWork DEF ExamInv, ExamRowsTyped, SavesAttempt, AttemptStatuses, SubmittedStatuses, Judgeable
<1>1. \E next \in ExamRequestStates :
        /\ examiner' = [examiner EXCEPT ![r] = next] /\ examiner'[r] = next
        /\ next.pc = "idle" \/ (next.pc = "issue" /\ next.on = a)
  BY <1>0, OffTyped DEF SavesAttempt, Turns
<1>2. PICK next \in ExamRequestStates :
        /\ examiner' = [examiner EXCEPT ![r] = next] /\ examiner'[r] = next
        /\ next.pc = "idle" \/ (next.pc = "issue" /\ next.on = a)
  BY <1>1
<1>3. attempt' \in [ExamAttempts -> AttemptStatuses] /\ \A b \in ExamAttempts \ {a} : attempt'[b] = attempt[b]
  BY <1>0 DEF SavesAttempt
<1>4. /\ approved \subseteq approved' /\ approved' \subseteq approved \union {a}
      /\ approved' \subseteq ExamAttempts
  BY <1>0 DEF SavesAttempt, ExamRowsTyped
<1>5. saved => attempt'[a] = standing
  BY <1>0 DEF SavesAttempt
<1>6. ~saved => attempt' = attempt /\ standing \in ActiveStatuses
  BY DEF SavesAttempt, IndexAllows
<1>7. attempt'[a] = "RETAKE_REQUESTED" => a \in approved'
  BY <1>0, <1>4, <1>5, <1>6 DEF SavesAttempt, InOrder
<1> HIDE DEF saved
<1>8. ExamRowsTyped'
  BY <1>0, <1>3, <1>4 DEF ExamRowsTyped, Disturbs
<1>9. Sound(r)' /\ Knows(r)'
  BY <1>0, <1>2, <1>5, <1>6 DEF Sound, Knows
<1>10. ASSUME Orderly(a), \A q \in Examiners \ {r} : ~WorksOn(q, a), a \notin disturbed
       PROVE  Agree(a)'
  <2>1. CASE saved
    BY <2>1, <1>0, <1>5, <1>10 DEF Agree
  <2>2. CASE ~saved
    <3>1. examiner[r].pc \notin Midway
      BY <2>2, <1>6
    <3>2. Agree(a)
      BY <3>1, <1>10 DEF Orderly
    <3> QED
      BY <3>2, <2>2, <1>0, <1>6 DEF Agree
  <2> QED
    BY <2>1, <2>2
<1>11. next.pc \notin Midway /\ attempt'[a] \in SubmittedStatuses \union {attempt[a]}
  BY <1>2, <1>5, <1>6 DEF Midway
<1>12. review[a] # "NONE" => attempt'[a] \in SubmittedStatuses
  BY <1>0, <1>11 DEF InOrder
<1>13. certificate[a] # "NONE" => review[a] # "NONE"
  BY <1>0 DEF InOrder
<1>14. a \notin disturbed /\ Orderly(a) /\ (\A q \in Examiners \ {r} : ~WorksOn(q, a)) =>
         /\ \A q \in ExamQuestions : answerRows'[a][q] <= 1
         /\ Knows(r)'
         /\ next.pc \notin Midway => Agree(a)'
  <2>1. UNCHANGED answerRows
    BY <1>0
  <2> QED
    BY <2>1, <1>9, <1>10 DEF Orderly
<1>15. \A b \in ExamAttempts \ {a} :
         /\ attempt'[b] = attempt[b] /\ answerRows'[b] = answerRows[b]
         /\ review'[b] = review[b] /\ certificate'[b] = certificate[b]
         /\ b \in issuedDirectly' <=> b \in issuedDirectly
  BY <1>0, <1>3
<1>16. /\ next.pc = "idle" \/ next.on = a
       /\ attempt'[a] = attempt[a] \/ attempt'[a] \in SubmittedStatuses
       /\ review[a] # "NONE" => review'[a] # "NONE"
       /\ review'[a] # "NONE" => attempt'[a] \in SubmittedStatuses
       /\ certificate'[a] # "NONE" => review'[a] # "NONE"
  BY <1>0, <1>2, <1>11, <1>12, <1>13
<1>17. Disturbs(r, a) /\ attempt[a] # "NONE" /\ UNCHANGED <<examRequests, examFaults>> /\ examiner[r].pc # "idle"
  BY <1>0
<1> QED
  BY <1>2, <1>4, <1>7, <1>8, <1>9, <1>14, <1>15, <1>16, <1>17, RequestSaves

\* A request that is alone with an undisturbed attempt finds its rows in agreement.
LEMMA AloneAgrees ==
  ASSUME ExamInv, NEW r \in Examiners, examiner[r].pc \notin {"idle", "start"} \union Midway,
         examiner[r].on \notin disturbed, \A q \in Examiners \ {r} : ~WorksOn(q, examiner[r].on)
  PROVE  Agree(examiner[r].on)
<1>1. Orderly(examiner[r].on)
  BY AtWork
<1>2. \A q \in Examiners : WorksOn(q, examiner[r].on) => examiner[q].pc \notin Midway
  OBVIOUS
<1> QED
  BY <1>1, <1>2 DEF Orderly

LEMMA StatusSaves ==
  ASSUME ExamInv, NEW r \in Examiners,
         SaveSubmitted(r) \/ SaveReopened(r) \/ SaveVerdict(r) \/ MarkIssued(r)
  PROVE  ExamInv'
<1> DEFINE a == examiner[r].on
           alone == a \notin disturbed /\ \A q \in Examiners \ {r} : ~WorksOn(q, a)
<1>0. examiner[r].pc \in {"submit", "reopen", "verdict", "issued"}
  BY DEF SaveSubmitted, SaveReopened, SaveVerdict, MarkIssued
<1>1. /\ examiner[r] \in ExamRequestStates /\ Sound(r) /\ a \in ExamAttempts /\ InOrder(a)
      /\ alone => Knows(r)
      /\ alone /\ examiner[r].pc \notin Midway => Agree(a)
  BY <1>0, AtWork, AloneAgrees
<1>2. CASE SaveSubmitted(r)
  <2> DEFINE standing == IF manualReview THEN "UNDER_REVIEW" ELSE "EVALUATED"
  <2>1. /\ SavesAttempt(r, a, standing, Off) /\ standing \in {"UNDER_REVIEW", "EVALUATED"}
        /\ examiner[r].pc = "submit"
    BY <1>2 DEF SaveSubmitted
  <2> HIDE DEF standing
  <2>2. alone => review[a] = "NONE" /\ certificate[a] = "NONE"
    BY <1>1, <2>1 DEF Knows, InOrder, SubmittedStatuses, Judgeable
  <2>3. standing \in SubmittedStatuses /\ examiner[r].pc \notin Midway
    BY <2>1 DEF SubmittedStatuses, Judgeable, Midway
  <2> QED
    BY <1>0, <1>1, <2>1, <2>2, <2>3, OffTyped, AttemptSaved
<1>3. CASE SaveReopened(r)
  <2>1. SavesAttempt(r, a, "UNDER_REVIEW", Off) /\ examiner[r].pc = "reopen"
    BY <1>3 DEF SaveReopened
  <2>2. alone => certificate[a] = "NONE" \/ a \in issuedDirectly
    BY <1>1, <2>1 DEF Knows, Agree, Reopenable, Midway
  <2>3. "UNDER_REVIEW" \in SubmittedStatuses /\ examiner[r].pc \notin Midway
    BY <2>1 DEF SubmittedStatuses, Judgeable, Midway
  <2> HIDE DEF a
  <2> QED
    BY <1>0, <1>1, <2>1, <2>2, <2>3, OffTyped, AttemptSaved DEF a
<1>4. CASE SaveVerdict(r)
  <2> DEFINE standing == StatusAfter(examiner[r].about)
             next == IF examiner[r].issue THEN [examiner[r] EXCEPT !.pc = "issue"] ELSE Off
  <2>1. SavesAttempt(r, a, standing, next) /\ examiner[r].pc = "verdict"
    BY <1>4 DEF SaveVerdict
  <2>2. next \in ExamRequestStates /\ (next.pc = "idle" \/ (next.pc = "issue" /\ next.on = a))
    BY <1>1, OffTyped DEF ExamRequestStates, ExamPcs
  <2>3. /\ examiner[r].about \in Verdicts
        /\ alone => review[a] = examiner[r].about /\ (certificate[a] # "NONE" => a \in issuedDirectly)
    BY <1>1, <2>1 DEF Sound, Knows
  <2>4. /\ examiner[r].about = "PASSED" => standing = "EVALUATED"
        /\ examiner[r].about = "RETAKE_REQUIRED" => standing = "RETAKE_REQUESTED"
        /\ standing \in {"EVALUATED", "RETAKE_REQUESTED"}
    BY DEF StatusAfter
  <2> HIDE DEF standing, next
  <2>5. standing \in SubmittedStatuses /\ standing \notin ActiveStatuses
    BY <2>4 DEF SubmittedStatuses, Judgeable, ActiveStatuses
  <2>6. alone =>
          /\ standing = "RETAKE_REQUESTED" => review[a] = "RETAKE_REQUIRED"
          /\ standing = "EVALUATED" => review[a] # "RETAKE_REQUIRED"
          /\ standing # "CERTIFICATE_ISSUED"
          /\ certificate[a] # "NONE" => a \in issuedDirectly
    BY <2>3, <2>4 DEF Verdicts
  <2> QED
    BY <1>0, <1>1, <2>1, <2>2, <2>5, <2>6, AttemptSaved
<1>5. CASE MarkIssued(r)
  <2>1. SavesAttempt(r, a, "CERTIFICATE_ISSUED", Off) /\ examiner[r].pc = "issued"
    BY <1>5 DEF MarkIssued
  <2>2. alone => certificate[a] # "NONE" /\ review[a] = "PASSED"
    BY <1>1, <2>1 DEF Knows
  <2>3. "CERTIFICATE_ISSUED" \in SubmittedStatuses /\ "CERTIFICATE_ISSUED" \notin ActiveStatuses
    BY DEF SubmittedStatuses, ActiveStatuses
  <2> QED
    BY <1>0, <1>1, <2>1, <2>2, <2>3, OffTyped, AttemptSaved
<1> QED
  BY <1>2, <1>3, <1>4, <1>5

\* A request saves another row of its attempt: the attempt's own row stays.
LEMMA OtherRowSaved ==
  ASSUME ExamInv, NEW r \in Examiners, NEW s \in ExamRequestStates, NEW a \in ExamAttempts, examiner[r].on = a,
         examiner[r].pc \notin {"idle", "start"},
         examiner' = [examiner EXCEPT ![r] = s], s.pc = "idle" \/ s.on = a,
         Disturbs(r, a), UNCHANGED <<attempt, manualReview, examRequests, examFaults, approved>>,
         ExamRowsTyped',
         \A b \in ExamAttempts \ {a} :
           /\ answerRows'[b] = answerRows[b] /\ review'[b] = review[b] /\ certificate'[b] = certificate[b]
           /\ b \in issuedDirectly' <=> b \in issuedDirectly,
         review[a] # "NONE" => review'[a] # "NONE",
         review'[a] # "NONE" => attempt[a] \in SubmittedStatuses,
         certificate'[a] # "NONE" => review'[a] # "NONE",
         Sound(r)',
         /\ a \notin disturbed /\ Orderly(a) /\ Knows(r)
         /\ \A q \in Examiners \ {r} : ~WorksOn(q, a)
         => /\ \A q \in ExamQuestions : answerRows'[a][q] <= 1
            /\ Knows(r)'
            /\ s.pc \notin Midway => Agree(a)'
  PROVE  ExamInv'
<1>1. attempt[a] # "NONE" /\ InOrder(a) /\ (a \notin disturbed => Knows(r))
  BY AtWork
<1>2. /\ attempt'[a] = attempt[a] /\ (attempt'[a] = "RETAKE_REQUESTED" => a \in approved')
      /\ approved \subseteq approved'
      /\ review'[a] # "NONE" => attempt'[a] \in SubmittedStatuses
  BY <1>1 DEF InOrder
<1>3. \A b \in ExamAttempts \ {a} :
        /\ attempt'[b] = attempt[b] /\ answerRows'[b] = answerRows[b]
        /\ review'[b] = review[b] /\ certificate'[b] = certificate[b]
        /\ b \in issuedDirectly' <=> b \in issuedDirectly
  OBVIOUS
<1>4. a \notin disturbed /\ Orderly(a) /\ (\A q \in Examiners \ {r} : ~WorksOn(q, a)) =>
        /\ \A q \in ExamQuestions : answerRows'[a][q] <= 1
        /\ Knows(r)'
        /\ s.pc \notin Midway => Agree(a)'
  BY <1>1
<1>5. /\ s.pc = "idle" \/ s.on = a
      /\ Disturbs(r, a)
      /\ review[a] # "NONE" => review'[a] # "NONE"
      /\ certificate'[a] # "NONE" => review'[a] # "NONE"
      /\ UNCHANGED <<examRequests, examFaults>>
      /\ examiner[r].pc # "idle"
  OBVIOUS
<1> QED
  BY <1>1, <1>2, <1>3, <1>4, <1>5, RequestSaves

LEMMA AnswerSaves ==
  ASSUME ExamInv, NEW r \in Examiners, NEW a \in ExamAttempts, examiner[r].on = a,
         DeleteAnswer(r) \/ InsertAnswer(r)
  PROVE  ExamInv'
<1> DEFINE alone == a \notin disturbed /\ \A o \in Examiners \ {r} : ~WorksOn(o, a)
<1>0. /\ examiner[r].pc \in {"delete", "answer"} /\ Disturbs(r, a)
      /\ UNCHANGED <<attempt, review, certificate, manualReview, examRequests, examFaults, approved, issuedDirectly>>
  BY DEF DeleteAnswer, InsertAnswer
<1>1. /\ examiner \in [Examiners -> ExamRequestStates] /\ Sound(r)
      /\ attempt[a] # "NONE" /\ InOrder(a) /\ ExamRowsTyped
      /\ alone => Knows(r) /\ Agree(a)
  BY <1>0, AtWork, AloneAgrees DEF ExamInv, Midway
<1>2. PICK q \in ExamQuestions : examiner[r].about = q
  BY <1>0, <1>1 DEF Sound
<1>2a. answerRows \in [ExamAttempts -> [ExamQuestions -> Nat]]
  BY <1>1 DEF ExamRowsTyped
<1>3. PICK n \in Nat : /\ answerRows' = [answerRows EXCEPT ![a][q] = n]
                       /\ DeleteAnswer(r) => n = 0
                       /\ InsertAnswer(r) => n = answerRows[a][q] + 1
  <2>1. CASE DeleteAnswer(r)
    BY <2>1, <1>2 DEF DeleteAnswer, InsertAnswer
  <2>2. CASE InsertAnswer(r)
    <3>1. answerRows' = [answerRows EXCEPT ![a][q] = answerRows[a][q] + 1] /\ ~DeleteAnswer(r)
      BY <2>2, <1>2 DEF DeleteAnswer, InsertAnswer
    <3>2. answerRows[a][q] + 1 \in Nat
      BY <1>1, <1>2, <1>2a
    <3> QED
      BY <3>1, <3>2
  <2> QED
    BY <2>1, <2>2
<1>4. /\ answerRows' \in [ExamAttempts -> [ExamQuestions -> Nat]]
      /\ \A b \in ExamAttempts \ {a} : answerRows'[b] = answerRows[b]
      /\ \A p \in ExamQuestions \ {q} : answerRows'[a][p] = answerRows[a][p]
      /\ answerRows'[a][q] = n
  BY <1>1, <1>2, <1>2a, <1>3
<1>5. ExamRowsTyped'
  BY <1>0, <1>1, <1>4 DEF ExamRowsTyped, Disturbs
<1> DEFINE Goes(s) == /\ examiner' = [examiner EXCEPT ![r] = s] /\ examiner'[r] = s
                      /\ DeleteAnswer(r) => s.pc = "answer" /\ s.on = a /\ s.about = q
                      /\ InsertAnswer(r) => s.pc = "idle"
<1>6. \E s \in ExamRequestStates : Goes(s)
  <2>1. CASE DeleteAnswer(r)
    <3>1. Continues(r, "answer") /\ examiner[r].pc = "delete"
      BY <2>1 DEF DeleteAnswer
    <3>2. ~InsertAnswer(r)
      BY <3>1 DEF InsertAnswer
    <3>3. \E s \in ExamRequestStates :
             /\ examiner' = [examiner EXCEPT ![r] = s] /\ examiner'[r] = s
             /\ s.pc = "answer" /\ s.on = examiner[r].on /\ s.about = examiner[r].about
             /\ s.issue = examiner[r].issue
      BY <3>1, <1>1, ContinuesIs DEF ExamPcs
    <3> QED
      BY <1>2, <3>2, <3>3
  <2>2. CASE InsertAnswer(r)
    <3>1. /\ examiner' = [examiner EXCEPT ![r] = Off] /\ examiner'[r] = Off /\ ~DeleteAnswer(r)
      BY <2>2, <1>1 DEF InsertAnswer, Turns, DeleteAnswer
    <3> QED
      BY <3>1, OffTyped
  <2> QED
    BY <2>1, <2>2
<1>7. PICK s \in ExamRequestStates : Goes(s)
  BY <1>6
<1>8. s.pc \in {"answer", "idle"} /\ (s.pc = "idle" \/ s.on = a)
  BY <1>7
<1>9. Sound(r)'
  BY <1>0, <1>1, <1>2, <1>7 DEF Sound
<1>10. ASSUME Orderly(a), Knows(r), alone
       PROVE  /\ \A p \in ExamQuestions : answerRows'[a][p] <= 1
              /\ Knows(r)' /\ Agree(a)'
  <2>1. n <= 1 /\ (s.pc = "answer" => n = 0)
    BY <1>0, <1>2, <1>3, <1>7, <1>10 DEF Knows, InsertAnswer
  <2>2. \A p \in ExamQuestions : answerRows'[a][p] <= 1
    BY <2>1, <1>4, <1>10 DEF Orderly
  <2>3. Knows(r)'
    BY <2>1, <1>4, <1>7, <1>8 DEF Knows
  <2>4. Agree(a)'
    <3>1. Agree(a)
      BY <1>1, <1>10
    <3> QED
      BY <3>1, <1>0 DEF Agree
  <2> QED
    BY <2>2, <2>3, <2>4
<1>11. /\ review'[a] # "NONE" => attempt[a] \in SubmittedStatuses
       /\ certificate'[a] # "NONE" => review'[a] # "NONE"
       /\ review' = review /\ certificate' = certificate /\ issuedDirectly' = issuedDirectly
       /\ examiner[r].pc \notin {"idle", "start"}
  BY <1>0, <1>1 DEF InOrder
<1>12. examiner' = [examiner EXCEPT ![r] = s]
  BY <1>7
<1> HIDE DEF Next
<1> QED
  BY <1>0, <1>4, <1>5, <1>8, <1>9, <1>10, <1>11, <1>12, OtherRowSaved

\* What the saves of reviews and certificates share: the rows' types.
LEMMA ReviewAndCertificateTyped ==
  ASSUME ExamInv, NEW r \in Examiners, NEW a \in ExamAttempts, Disturbs(r, a),
         UNCHANGED <<attempt, answerRows, manualReview, examRequests, examFaults, approved>>,
         NEW v \in Verdicts \union {"NONE"}, review' = [review EXCEPT ![a] = v],
         NEW c \in {"NONE", "ISSUED", "REVOKED"}, certificate' = [certificate EXCEPT ![a] = c],
         issuedDirectly' \subseteq ExamAttempts
  PROVE  /\ ExamRowsTyped' /\ review'[a] = v /\ certificate'[a] = c
         /\ \A b \in ExamAttempts \ {a} :
              answerRows'[b] = answerRows[b] /\ review'[b] = review[b] /\ certificate'[b] = certificate[b]
  BY DEF ExamInv, ExamRowsTyped, Disturbs

LEMMA ReviewSaves ==
  ASSUME ExamInv, NEW r \in Examiners, NEW a \in ExamAttempts, examiner[r].on = a, SaveReview(r)
  PROVE  ExamInv'
<1> DEFINE alone == a \notin disturbed /\ \A o \in Examiners \ {r} : ~WorksOn(o, a)
<1>0. /\ examiner[r].pc \in {"create", "update"} /\ Disturbs(r, a)
      /\ UNCHANGED <<attempt, answerRows, certificate, manualReview, examRequests, examFaults,
                     approved, issuedDirectly>>
      /\ examiner[r].pc \notin {"idle", "start"} \union Midway
  BY DEF SaveReview, Midway
<1>1. /\ examiner \in [Examiners -> ExamRequestStates] /\ Sound(r) /\ InOrder(a)
      /\ certificate[a] \in {"NONE", "ISSUED", "REVOKED"} /\ certificate = [certificate EXCEPT ![a] = certificate[a]]
      /\ review[a] \in Verdicts \union {"NONE"} /\ review = [review EXCEPT ![a] = review[a]]
      /\ issuedDirectly \subseteq ExamAttempts
      /\ alone => Knows(r) /\ Agree(a)
  BY <1>0, AtWork, AloneAgrees DEF ExamInv, ExamRowsTyped
<1>2. /\ examiner[r].about \in Verdicts /\ attempt[a] \in SubmittedStatuses
      /\ examiner[r].issue => examiner[r].about = "PASSED"
  BY <1>0, <1>1 DEF Sound
<1>3. CASE examiner[r].pc = "create" /\ review[a] # "NONE"
  <2>1. examiner' = [examiner EXCEPT ![r] = Off] /\ examiner'[r] = Off /\ review' = review
    BY <1>1, <1>3 DEF SaveReview, Turns
  <2>2. ExamRowsTyped' /\ \A b \in ExamAttempts \ {a} :
           answerRows'[b] = answerRows[b] /\ review'[b] = review[b] /\ certificate'[b] = certificate[b]
    BY <1>0, <1>1, <2>1, ReviewAndCertificateTyped
  <2>3. Sound(r)' /\ Knows(r)'
    BY <2>1, OffTyped DEF Sound, Knows
  <2>4. Orderly(a) /\ alone => (\A q \in ExamQuestions : answerRows'[a][q] <= 1) /\ Agree(a)'
    BY <1>0, <1>1, <2>1 DEF Agree, Orderly
  <2>5. certificate'[a] # "NONE" => review'[a] # "NONE"
    BY <1>0, <1>1, <2>1 DEF InOrder
  <2> QED
    BY <1>0, <1>2, <2>1, <2>2, <2>3, <2>4, <2>5, OffTyped, OtherRowSaved
<1>4. CASE ~(examiner[r].pc = "create" /\ review[a] # "NONE")
  <2>1. Continues(r, "verdict") /\ review' = [review EXCEPT ![a] = examiner[r].about]
    BY <1>4 DEF SaveReview
  <2>2. PICK s \in ExamRequestStates :
           /\ examiner' = [examiner EXCEPT ![r] = s] /\ examiner'[r] = s
           /\ s.pc = "verdict" /\ s.on = a /\ s.about = examiner[r].about
           /\ s.issue = examiner[r].issue
    BY <1>1, <2>1, ContinuesIs DEF ExamPcs
  <2>3. /\ ExamRowsTyped' /\ review'[a] = examiner[r].about
        /\ \A b \in ExamAttempts \ {a} :
             answerRows'[b] = answerRows[b] /\ review'[b] = review[b] /\ certificate'[b] = certificate[b]
    <3>1. PICK c \in {"NONE", "ISSUED", "REVOKED"} : certificate' = [certificate EXCEPT ![a] = c]
      BY <1>0, <1>1
    <3>2. PICK v \in Verdicts \union {"NONE"} : examiner[r].about = v
      BY <1>2
    <3>3. review' = [review EXCEPT ![a] = v] /\ issuedDirectly' \subseteq ExamAttempts
      BY <1>0, <1>1, <2>1, <3>2
    <3>4. /\ ExamRowsTyped' /\ review'[a] = v /\ certificate'[a] = c
          /\ \A b \in ExamAttempts \ {a} :
               answerRows'[b] = answerRows[b] /\ review'[b] = review[b] /\ certificate'[b] = certificate[b]
      <4>1. UNCHANGED <<attempt, answerRows, manualReview, examRequests, examFaults, approved>> /\ Disturbs(r, a)
        BY <1>0
      <4> QED
        BY <4>1, <3>1, <3>3 DEF ExamInv, ExamRowsTyped, Disturbs
    <3> QED
      BY <3>2, <3>4
  <2>4. review'[a] # "NONE" /\ attempt'[a] \in SubmittedStatuses /\ attempt'[a] # "NONE"
    BY <1>0, <1>2, <2>3 DEF Verdicts, SubmittedStatuses, Judgeable
  <2>5. Sound(r)'
    BY <1>2, <2>2, <2>4 DEF Sound
  <2>6. alone /\ Knows(r) => (certificate[a] # "NONE" => a \in issuedDirectly)
    BY <1>0, <1>1 DEF Knows, Agree, Judgeable
  <2>7. alone /\ Knows(r) => Knows(r)'
    BY <1>0, <2>2, <2>3, <2>6 DEF Knows
  <2>8. Orderly(a) => \A q \in ExamQuestions : answerRows'[a][q] <= 1
    BY <1>0 DEF Orderly
  <2>9. s.pc \in Midway
    BY <2>2 DEF Midway
  <2> QED
    BY <1>0, <1>2, <2>2, <2>3, <2>4, <2>5, <2>7, <2>8, <2>9, OtherRowSaved
<1> QED
  BY <1>3, <1>4

\* A save of an attempt's certificate. Midway the status and the verdict are
\* known; otherwise the certificate was there before.
LEMMA CertificateSaved ==
  ASSUME ExamInv, NEW r \in Examiners, NEW a \in ExamAttempts, examiner[r].on = a,
         examiner[r].pc \in {"certify", "url", "pdf", "regenerate", "revoke"},
         NEW c \in {"NONE", "ISSUED", "REVOKED"}, certificate' = [certificate EXCEPT ![a] = c],
         Disturbs(r, a),
         UNCHANGED <<attempt, answerRows, review, manualReview, examRequests, examFaults, approved>>,
         NEW s \in ExamRequestStates, examiner' = [examiner EXCEPT ![r] = s],
         s.pc \in {"idle", "url", "pdf", "issued"}, s.pc # "idle" => s.on = a,
         s.pc = "issued" => s.issue,
         issuedDirectly' \subseteq ExamAttempts,
         \A b \in ExamAttempts \ {a} : b \in issuedDirectly' <=> b \in issuedDirectly,
         /\ a \notin disturbed /\ Knows(r)
         /\ \A o \in Examiners \ {r} : ~WorksOn(o, a)
         /\ examiner[r].pc \notin Midway => Agree(a)
         => Knows(r)' /\ (s.pc \notin Midway => Agree(a)')
  PROVE  ExamInv'
<1> DEFINE alone == a \notin disturbed /\ \A o \in Examiners \ {r} : ~WorksOn(o, a)
<1>0. examiner[r].pc \notin {"idle", "start"}
  OBVIOUS
<1>1. /\ examiner \in [Examiners -> ExamRequestStates] /\ Sound(r) /\ InOrder(a) /\ attempt[a] # "NONE"
      /\ review[a] \in Verdicts \union {"NONE"} /\ review = [review EXCEPT ![a] = review[a]]
      /\ alone /\ examiner[r].pc \notin Midway => Agree(a)
  BY <1>0, AtWork, AloneAgrees DEF ExamInv, ExamRowsTyped
<1>2. review[a] # "NONE"
  BY <1>1 DEF Sound
<1>3. review' = [review EXCEPT ![a] = review[a]]
  BY <1>1
<1>4. ExamRowsTyped' /\ \A b \in ExamAttempts \ {a} :
         answerRows'[b] = answerRows[b] /\ review'[b] = review[b] /\ certificate'[b] = certificate[b]
  BY <1>1, <1>3, ReviewAndCertificateTyped
<1>5. examiner'[r] = s
  BY <1>1
<1>6. Sound(r)'
  BY <1>1, <1>2, <1>5 DEF Sound
<1>7. Orderly(a) => \A q \in ExamQuestions : answerRows'[a][q] <= 1
  BY DEF Orderly
<1>8. alone /\ Knows(r) => Knows(r)' /\ (s.pc \notin Midway => Agree(a)')
  BY <1>1
<1>9. review' = review /\ (review'[a] # "NONE" => attempt[a] \in SubmittedStatuses)
  BY <1>1 DEF InOrder
<1>10. \A b \in ExamAttempts \ {a} :
           /\ answerRows'[b] = answerRows[b] /\ review'[b] = review[b] /\ certificate'[b] = certificate[b]
           /\ b \in issuedDirectly' <=> b \in issuedDirectly
  BY <1>4
<1> QED
  BY <1>0, <1>2, <1>4, <1>6, <1>7, <1>8, <1>9, <1>10, OtherRowSaved

LEMMA CertificateSaves ==
  ASSUME ExamInv, NEW r \in Examiners, NEW a \in ExamAttempts, examiner[r].on = a,
         SaveCertificate(r) \/ GenerationFails(r) \/ SaveRegenerated(r) \/ SaveRevoked(r)
  PROVE  ExamInv'
<1>0. /\ examiner[r].pc \in {"url", "pdf", "regenerate", "revoke"}
      /\ UNCHANGED <<attempt, answerRows, review, manualReview, examRequests, examFaults, approved,
                     issuedDirectly>>
      /\ Disturbs(r, a)
  BY DEF SaveCertificate, GenerationFails, SaveRegenerated, SaveRevoked, SavesCertificate
<1>1. /\ examiner \in [Examiners -> ExamRequestStates] /\ certificate \in [ExamAttempts -> {"NONE", "ISSUED", "REVOKED"}]
      /\ issuedDirectly' \subseteq ExamAttempts
  BY <1>0 DEF ExamInv, ExamRowsTyped
<1>2. CASE SaveCertificate(r)
  <2>1. /\ certificate' = [certificate EXCEPT ![a] = "ISSUED"] /\ certificate'[a] = "ISSUED"
        /\ examiner[r].pc \in {"url", "pdf"}
    BY <1>1, <1>2 DEF SaveCertificate, SavesCertificate
  <2>2. PICK s \in ExamRequestStates :
           /\ examiner' = [examiner EXCEPT ![r] = s] /\ examiner'[r] = s
           /\ \/ s.pc = "pdf" /\ s.on = a /\ s.issue = examiner[r].issue
              \/ s.pc = "issued" /\ s.on = a /\ s.issue /\ examiner[r].issue
              \/ s.pc = "idle" /\ ~examiner[r].issue
    <3>1. CASE Continues(r, "pdf")
      BY <3>1, <1>1, ContinuesIs DEF ExamPcs
    <3>2. CASE Continues(r, "issued") /\ examiner[r].issue
      BY <3>2, <1>1, ContinuesIs, ZenonT(60) DEF ExamPcs
    <3>3. CASE Turns(r, Off) /\ ~examiner[r].issue
      BY <3>3, <1>1, OffTyped DEF Turns
    <3> QED
      BY <1>2, <3>1, <3>2, <3>3 DEF SaveCertificate
  <2>3. Knows(r) => /\ review[a] = "PASSED" /\ attempt[a] \notin {"RETAKE_REQUESTED", "CERTIFICATE_ISSUED"}
                    /\ examiner[r].issue <=> a \notin issuedDirectly
    BY <2>1 DEF Knows
  <2>4. Knows(r) => Knows(r)'
    BY <1>0, <2>1, <2>2, <2>3 DEF Knows
  <2>5. Knows(r) /\ s.pc \notin Midway => Agree(a)'
    BY <1>0, <2>1, <2>2, <2>3 DEF Agree, Midway
  <2>6. s.pc \in {"idle", "url", "pdf", "issued"} /\ (s.pc # "idle" => s.on = a) /\ (s.pc = "issued" => s.issue)
    BY <2>2
  <2>7. \A b \in ExamAttempts \ {a} : b \in issuedDirectly' <=> b \in issuedDirectly
    BY <1>0
  <2> QED
    BY <1>0, <1>1, <2>1, <2>2, <2>4, <2>5, <2>6, <2>7, CertificateSaved
<1>3. CASE GenerationFails(r) \/ SaveRegenerated(r) \/ SaveRevoked(r)
  <2>1. examiner' = [examiner EXCEPT ![r] = Off] /\ examiner'[r] = Off
    BY <1>1, <1>3 DEF GenerationFails, SaveRegenerated, SaveRevoked, Turns
  <2>2. PICK c \in {"NONE", "ISSUED", "REVOKED"} :
           /\ certificate' = [certificate EXCEPT ![a] = c] /\ certificate'[a] = c
           /\ examiner[r].pc \in {"regenerate", "revoke"} => c # "NONE"
    BY <1>1, <1>3 DEF GenerationFails, SaveRegenerated, SaveRevoked, SavesCertificate
  <2>3. Knows(r)'
    BY <2>1, OffTyped DEF Knows
  <2>4. examiner[r].pc \in {"url", "pdf"} /\ Knows(r) /\ c = "NONE" => Agree(a)'
    BY <1>0, <2>2 DEF Knows, Agree
  <2>5. examiner[r].pc \in {"regenerate", "revoke"} /\ Agree(a) /\ Knows(r) => Agree(a)'
    BY <1>0, <2>2 DEF Knows, Agree
  <2>6. examiner[r].pc \in {"url", "pdf"} => c = "NONE"
    BY <1>1, <1>3, <2>2 DEF GenerationFails, SaveRegenerated, SaveRevoked, SavesCertificate
  <2>7. examiner[r].pc \in {"regenerate", "revoke"} => examiner[r].pc \notin Midway
    BY DEF Midway
  <2>8. \A b \in ExamAttempts \ {a} : b \in issuedDirectly' <=> b \in issuedDirectly
    BY <1>0
  <2> QED
    BY <1>0, <1>1, <2>1, <2>2, <2>3, <2>4, <2>5, <2>6, <2>7, <2>8, OffTyped, CertificateSaved
<1> QED
  BY <1>2, <1>3

LEMMA CertificateInserted ==
  ASSUME ExamInv, NEW r \in Examiners, NEW a \in ExamAttempts, examiner[r].on = a, InsertCertificate(r)
  PROVE  ExamInv'
<1>0. /\ examiner[r].pc = "certify" /\ examiner[r].pc \notin Midway
      /\ UNCHANGED <<attempt, answerRows, review, manualReview, examRequests, examFaults, approved>>
      /\ Disturbs(r, a)
  BY DEF InsertCertificate, Midway
<1>1. /\ examiner \in [Examiners -> ExamRequestStates] /\ certificate \in [ExamAttempts -> {"NONE", "ISSUED", "REVOKED"}]
      /\ issuedDirectly \subseteq ExamAttempts
  BY DEF ExamInv, ExamRowsTyped
<1>2. CASE certificate[a] # "NONE"
  <2>1. /\ examiner' = [examiner EXCEPT ![r] = Off] /\ examiner'[r] = Off
        /\ UNCHANGED <<certificate, issuedDirectly>>
    BY <1>1, <1>2 DEF InsertCertificate, Turns
  <2>2. certificate' = [certificate EXCEPT ![a] = certificate[a]]
    BY <1>1, <2>1
  <2>3. Knows(r)'
    BY <2>1, OffTyped DEF Knows
  <2>4. Agree(a) => Agree(a)'
    BY <1>0, <2>1 DEF Agree
  <2> QED
    BY <1>0, <1>1, <2>1, <2>2, <2>3, <2>4, OffTyped, CertificateSaved, ZenonT(60)
<1>3. CASE certificate[a] = "NONE"
  <2>1. /\ Continues(r, "url") /\ certificate' = [certificate EXCEPT ![a] = "ISSUED"] /\ certificate'[a] = "ISSUED"
        /\ issuedDirectly' = IF examiner[r].issue THEN issuedDirectly \ {a} ELSE issuedDirectly \union {a}
    BY <1>1, <1>3 DEF InsertCertificate
  <2>2. PICK s \in ExamRequestStates :
           /\ examiner' = [examiner EXCEPT ![r] = s] /\ examiner'[r] = s
           /\ s.pc = "url" /\ s.on = a /\ s.issue = examiner[r].issue
    BY <1>1, <2>1, ContinuesIs DEF ExamPcs
  <2>3. /\ issuedDirectly' \subseteq ExamAttempts /\ (s.issue <=> a \notin issuedDirectly')
        /\ \A b \in ExamAttempts \ {a} : b \in issuedDirectly' <=> b \in issuedDirectly
    BY <1>1, <2>1, <2>2
  <2>4. Knows(r) /\ Agree(a) => review[a] = "PASSED" /\ attempt[a] \notin {"RETAKE_REQUESTED", "CERTIFICATE_ISSUED"}
    BY <1>0, <1>3 DEF Knows, Agree
  <2>5. Knows(r) /\ Agree(a) => Knows(r)'
    BY <1>0, <2>1, <2>2, <2>3, <2>4 DEF Knows
  <2>6. s.pc \in Midway
    BY <2>2 DEF Midway
  <2> QED
    BY <1>0, <1>1, <2>1, <2>2, <2>3, <2>5, <2>6, CertificateSaved
<1> QED
  BY <1>2, <1>3

\* The next attempt is inserted after the latest, which no request has touched
\* since it was read, or the new attempt counts as disturbed.
LEMMA AttemptInserted ==
  ASSUME ExamInv, NEW r \in Examiners, InsertAttempt(r)
  PROVE  ExamInv'
<1> USE AttemptsAreNumbers
<1>1. PICK new \in ExamAttempts :
        /\ new = Latest + 1 /\ new - 1 = Latest
        /\ attempt' = IF IndexAllows(new, "IN_PROGRESS") THEN [attempt EXCEPT ![new] = "IN_PROGRESS"] ELSE attempt
        /\ disturbed' = IF examiner[r].on = Latest THEN disturbed ELSE disturbed \union {new}
  <2>1. Latest \in 0..MaxExamAttempts
    BY LatestIs DEF ExamInv, ExamRowsTyped
  <2> DEFINE next == Latest + 1
  <2>2. next \in ExamAttempts /\ next - 1 = Latest
    BY <2>1, ExamsAssumption DEF InsertAttempt, ExamAttempts
  <2>3. /\ attempt' = IF IndexAllows(next, "IN_PROGRESS") THEN [attempt EXCEPT ![next] = "IN_PROGRESS"] ELSE attempt
        /\ disturbed' = IF examiner[r].on = Latest THEN disturbed ELSE disturbed \union {next}
    BY DEF InsertAttempt
  <2> QED
    BY <2>2, <2>3
<1>2. /\ examiner[r].pc = "start" /\ examiner' = [examiner EXCEPT ![r] = Off]
      /\ UNCHANGED <<answerRows, review, certificate, manualReview, examRequests, examFaults, approved, issuedDirectly>>
  BY DEF InsertAttempt, Turns
<1>3. /\ examiner \in [Examiners -> ExamRequestStates] /\ ExamRowsTyped /\ Sound(r)
  BY DEF ExamInv
<1>4. /\ attempt[new] = "NONE" /\ (new > 1 => new - 1 \in ExamAttempts /\ attempt[new - 1] # "NONE")
      /\ \A b \in ExamAttempts : b > 1 /\ b - 1 = new => attempt[b] = "NONE"
  <2>1. /\ Latest \in 0..MaxExamAttempts /\ (Latest = 0 \/ attempt[Latest] # "NONE")
        /\ \A b \in ExamAttempts : attempt[b] # "NONE" => b <= Latest
    BY <1>3, LatestIs DEF ExamRowsTyped
  <2> QED
    BY <1>1, <2>1, ExamsAssumption DEF ExamAttempts
<1>5. \A q \in Examiners : examiner'[q] = IF q = r THEN Off ELSE examiner[q]
  BY <1>2, <1>3
<1>6. \A q \in Examiners : ~WorksOn(q, new) /\ ~WorksOn(q, new)'
  <2>1. ASSUME NEW q \in Examiners, WorksOn(q, new) PROVE FALSE
    <3>1. examiner[q].pc # "idle" /\ examiner[q].on = new /\ Sound(q)
      BY <2>1 DEF WorksOn, ExamInv
    <3>2. examiner[q].pc = "start" /\ new \in approved
      BY <3>1, <1>4 DEF Sound
    <3> QED
      BY <3>2, <1>4 DEF ExamInv, InOrder
  <2> QED
    BY <2>1, <1>5, OffTyped DEF WorksOn
<1>7. CASE ~IndexAllows(new, "IN_PROGRESS")
  <2>1. UNCHANGED <<attempt, answerRows, review, certificate>>
    BY <1>1, <1>2, <1>7
  <2>2. \A q \in Examiners : (Sound(q) => Sound(q)') /\ (Knows(q) /\ q # r => Knows(q)')
    BY <2>1, <1>2, <1>5, OffTyped DEF Sound, Knows
  <2>3. ExamRowsTyped'
    BY <2>1, <1>1, <1>2, <1>3 DEF ExamRowsTyped
  <2>4. \A a \in ExamAttempts : InOrder(a)'
    BY <2>1, <1>2 DEF ExamInv, InOrder
  <2>5. ASSUME NEW a \in ExamAttempts \ disturbed' PROVE Orderly(a)'
    <3>1. Orderly(a)
      BY <1>1, <2>5 DEF ExamInv
    <3>2. \A q \in Examiners : WorksOn(q, a)' => q # r /\ WorksOn(q, a)
      BY <1>5, OffTyped DEF WorksOn
    <3>3. \A q \in Examiners : WorksOn(q, a)' => Knows(q)'
      BY <2>2, <3>1, <3>2 DEF Orderly
    <3>4. (\A q \in Examiners : WorksOn(q, a)' => examiner'[q].pc \notin Midway) =>
             \A q \in Examiners : WorksOn(q, a) => examiner[q].pc \notin Midway
      BY <1>2, <1>5 DEF WorksOn, Midway
    <3>5. (\A q \in Examiners : WorksOn(q, a)' => examiner'[q].pc \notin Midway) => Agree(a)'
      BY <2>1, <1>2, <3>1, <3>4 DEF Orderly, Agree
    <3> QED
      BY <2>1, <1>2, <3>1, <3>3, <3>5 DEF Orderly
  <2>6. examiner' \in [Examiners -> ExamRequestStates]
    BY <1>2, <1>3, OffTyped
  <2> QED
    BY <2>2, <2>3, <2>4, <2>5, <2>6 DEF ExamInv
<1>8. CASE IndexAllows(new, "IN_PROGRESS")
  <2>1. /\ attempt' \in [ExamAttempts -> AttemptStatuses] /\ attempt'[new] = "IN_PROGRESS"
        /\ \A b \in ExamAttempts \ {new} : attempt'[b] = attempt[b]
    BY <1>1, <1>3, <1>8 DEF ExamRowsTyped, AttemptStatuses
  <2>2. ExamRowsTyped'
    BY <2>1, <1>1, <1>2, <1>3 DEF ExamRowsTyped
  <2>3. examiner' \in [Examiners -> ExamRequestStates]
    BY <1>2, <1>3, OffTyped
  <2>4. InOrder(new) /\ new \notin approved /\ review[new] = "NONE" /\ certificate[new] = "NONE"
    BY <1>4 DEF ExamInv, InOrder, SubmittedStatuses, Judgeable
  <2>5. new > 1 => attempt[new - 1] \in SubmittedStatuses
    BY <1>3, <1>4, <1>8 DEF IndexAllows, ActiveStatuses, ExamRowsTyped, AttemptStatuses
  <2>6. ASSUME NEW a \in ExamAttempts PROVE InOrder(a)'
    <3>1. InOrder(a)
      BY DEF ExamInv
    <3>2. a > 1 => a - 1 \in ExamAttempts /\ a - 1 # a
      BY ExamsAssumption DEF ExamAttempts
    <3>3. CASE a = new
      BY <3>2, <3>3, <1>2, <2>1, <2>4, <2>5 DEF InOrder
    <3>4. CASE a # new
      <4>1. a > 1 /\ attempt[a] # "NONE" => a - 1 # new
        BY <1>4, <3>4
      <4> QED
        BY <3>1, <3>2, <3>4, <4>1, <1>2, <2>1 DEF InOrder
    <3> QED
      BY <3>3, <3>4
  <2>7. ASSUME NEW q \in Examiners PROVE Sound(q)'
    <3>1. CASE q = r
      BY <3>1, <1>5, OffTyped DEF Sound
    <3>2. CASE q # r
      <4>1. examiner'[q] = examiner[q] /\ Sound(q)
        BY <3>2, <1>5 DEF ExamInv
      <4>2. examiner[q].pc \notin {"idle", "start"} =>
              examiner[q].on \in ExamAttempts /\ examiner[q].on # new /\ attempt[examiner[q].on] # "NONE"
        BY <4>1, <1>4 DEF Sound
      <4>3. examiner[q].pc \notin {"idle", "start"} => attempt'[examiner[q].on] = attempt[examiner[q].on]
        BY <4>2, <2>1
      <4> QED
        BY <4>1, <4>2, <4>3, <1>2 DEF Sound
    <3> QED
      BY <3>1, <3>2
  <2>8. ASSUME NEW a \in ExamAttempts \ disturbed', a # new PROVE Orderly(a)'
    <3>1. Orderly(a)
      BY <1>1, <2>8 DEF ExamInv
    <3>2. /\ attempt'[a] = attempt[a] /\ answerRows'[a] = answerRows[a]
          /\ review'[a] = review[a] /\ certificate'[a] = certificate[a]
      BY <1>2, <2>1, <2>8
    <3>3. \A q \in Examiners : WorksOn(q, a)' => q # r /\ WorksOn(q, a) /\ examiner'[q] = examiner[q]
      BY <1>5, OffTyped DEF WorksOn
    <3>4. \A q \in Examiners : examiner'[q] = examiner[q] /\ examiner[q].on = a /\ Knows(q) => Knows(q)'
      BY <3>2, <1>2 DEF Knows
    <3>5. \A q \in Examiners : WorksOn(q, a)' => Knows(q)'
      BY <3>1, <3>3, <3>4 DEF Orderly, WorksOn
    <3>6. (\A q \in Examiners : WorksOn(q, a)' => examiner'[q].pc \notin Midway) =>
             \A q \in Examiners : WorksOn(q, a) => examiner[q].pc \notin Midway
      BY <1>2, <1>5 DEF WorksOn, Midway
    <3>7. (\A q \in Examiners : WorksOn(q, a)' => examiner'[q].pc \notin Midway) => Agree(a)'
      BY <3>2, <1>2, <3>1, <3>6 DEF Orderly, Agree
    <3> QED
      BY <3>1, <3>2, <3>5, <3>7, <1>2 DEF Orderly
  <2>9. ASSUME new \notin disturbed' PROVE Orderly(new)'
    <3>1. examiner[r].on = Latest /\ new \notin disturbed
      BY <1>1, <2>9
    <3>2. Orderly(new)
      BY <3>1 DEF ExamInv
    <3>3. new > 1 => new - 1 \in approved
      <4>1. new > 1 => Latest # NoAttempt
        BY <1>1 DEF NoAttempt
      <4> QED
        BY <1>1, <1>2, <1>3, <3>1, <4>1 DEF Sound
    <3>4. Agree(new)'
      BY <1>2, <2>1, <2>4 DEF Agree
    <3> QED
      BY <3>2, <3>3, <3>4, <1>2, <1>6 DEF Orderly
  <2> QED
    BY <2>2, <2>3, <2>6, <2>7, <2>8, <2>9 DEF ExamInv
<1> QED
  BY <1>7, <1>8

LEMMA ExamRequestDied ==
  ASSUME ExamInv, NEW r \in Examiners, ExamRequestDies(r)
  PROVE  ExamInv'
<1>1. /\ examiner' = [examiner EXCEPT ![r] = Off] /\ examiner[r].pc # "idle"
      /\ disturbed' = disturbed \union ({examiner[r].on} \ {NoAttempt})
      /\ UNCHANGED <<attempt, answerRows, review, certificate, manualReview, examRequests, approved, issuedDirectly>>
      /\ examFaults' = examFaults + 1 /\ examFaults < MaxExamFaults
  BY DEF ExamRequestDies, Turns, examRows
<1>2. /\ examiner \in [Examiners -> ExamRequestStates] /\ ExamRowsTyped
  BY DEF ExamInv
<1>3. /\ examiner' \in [Examiners -> ExamRequestStates]
      /\ \A q \in Examiners : examiner'[q] = IF q = r THEN Off ELSE examiner[q]
  BY <1>1, <1>2, OffTyped
<1>4. ExamRowsTyped'
  <2>1. examiner[r].on \in ExamAttempts \union {NoAttempt}
    BY <1>2 DEF ExamRequestStates
  <2>2. disturbed' \subseteq ExamAttempts /\ examFaults' \in 0..MaxExamFaults
    BY <1>1, <1>2, <2>1, ExamsAssumption DEF ExamRowsTyped
  <2> QED
    BY <1>1, <1>2, <2>2 DEF ExamRowsTyped
<1>5. \A q \in Examiners : (Sound(q) => Sound(q)') /\ (Knows(q) /\ q # r => Knows(q)')
  BY <1>1, <1>3, OffTyped DEF Sound, Knows
<1>6. \A a \in ExamAttempts : InOrder(a)'
  BY <1>1 DEF ExamInv, InOrder
<1>7. ASSUME NEW a \in ExamAttempts \ disturbed' PROVE Orderly(a)'
  <2>1. Orderly(a) /\ examiner[r].on # a
    BY <1>1, <1>7, AttemptsAreNumbers DEF ExamInv
  <2>2. \A q \in Examiners : WorksOn(q, a)' <=> q # r /\ WorksOn(q, a)
    BY <1>3, OffTyped DEF WorksOn
  <2>3. \A q \in Examiners : WorksOn(q, a)' => Knows(q)'
    BY <1>5, <2>1, <2>2 DEF Orderly
  <2>4. (\A q \in Examiners : WorksOn(q, a)' => examiner'[q].pc \notin Midway) =>
           \A q \in Examiners : WorksOn(q, a) => examiner[q].pc \notin Midway
    BY <1>3, <2>1 DEF WorksOn
  <2>5. (\A q \in Examiners : WorksOn(q, a)' => examiner'[q].pc \notin Midway) => Agree(a)'
    BY <1>1, <2>1, <2>4 DEF Orderly, Agree
  <2> QED
    BY <1>1, <2>1, <2>3, <2>5 DEF Orderly
<1> QED
  BY <1>3, <1>4, <1>5, <1>6, <1>7 DEF ExamInv

LEMMA ExamStep == ExamInv /\ [ExamNext]_examVars => ExamInv'
<1> SUFFICES ASSUME ExamInv, [ExamNext]_examVars PROVE ExamInv'
  OBVIOUS
<1>1. CASE UNCHANGED examVars
  BY <1>1 DEF examVars, ExamInv, ExamRowsTyped, Sound, Knows, InOrder, Orderly, Agree, WorksOn
<1>2. CASE ExamNext
  <2>1. PICK r \in Examiners :
          \/ StartAttempt(r) \/ InsertAttempt(r)
          \/ \E a \in ExamAttempts :
               \/ \E q \in ExamQuestions : SubmitAnswer(r, a, q)
               \/ SubmitAttempt(r, a)
               \/ ReopenEvaluation(r, a)
               \/ \E v \in Verdicts, issue \in BOOLEAN : GiveFinalVerdict(r, a, v, issue)
               \/ IssueCertificate(r, a) \/ IssueDirectly(r, a)
               \/ RegenerateCertificatePdf(r, a) \/ RevokeCertificate(r, a)
          \/ DeleteAnswer(r) \/ InsertAnswer(r) \/ SaveSubmitted(r)
          \/ SaveReopened(r) \/ FindReview(r) \/ SaveReview(r) \/ SaveVerdict(r)
          \/ CheckReview(r) \/ CheckCertificate(r) \/ InsertCertificate(r)
          \/ SaveCertificate(r) \/ GenerationFails(r) \/ MarkIssued(r)
          \/ SaveRegenerated(r) \/ SaveRevoked(r)
          \/ ExamRequestDies(r)
    BY <1>2 DEF ExamNext
  <2>2. CASE StartAttempt(r) \/ \E a \in ExamAttempts :
               SubmitAttempt(r, a) \/ \E q \in ExamQuestions : SubmitAnswer(r, a, q)
    BY <2>2, LearnersRequests
  <2>3. CASE \E a \in ExamAttempts :
               \/ ReopenEvaluation(r, a)
               \/ \E v \in Verdicts, issue \in BOOLEAN : GiveFinalVerdict(r, a, v, issue)
               \/ IssueCertificate(r, a) \/ IssueDirectly(r, a)
               \/ RegenerateCertificatePdf(r, a) \/ RevokeCertificate(r, a)
    BY <2>3, AdministratorsRequests
  <2>4. CASE FindReview(r) \/ CheckReview(r) \/ CheckCertificate(r)
    BY <2>4, RequestsReads
  <2>5. CASE SaveSubmitted(r) \/ SaveReopened(r) \/ SaveVerdict(r) \/ MarkIssued(r)
    BY <2>5, StatusSaves
  <2>6. CASE \/ DeleteAnswer(r) \/ InsertAnswer(r) \/ SaveReview(r) \/ InsertCertificate(r)
             \/ SaveCertificate(r) \/ GenerationFails(r) \/ SaveRegenerated(r) \/ SaveRevoked(r)
    <3>1. examiner[r].pc \notin {"idle", "start"}
      BY <2>6 DEF DeleteAnswer, InsertAnswer, SaveReview, InsertCertificate, SaveCertificate,
         GenerationFails, SaveRegenerated, SaveRevoked
    <3>2. PICK a \in ExamAttempts : examiner[r].on = a
      BY <3>1, AtWork
    <3> QED
      BY <2>6, <3>2, AnswerSaves, ReviewSaves, CertificateInserted, CertificateSaves
  <2>7. CASE InsertAttempt(r)
    BY <2>7, AttemptInserted
  <2>8. CASE ExamRequestDies(r)
    BY <2>8, ExamRequestDied
  <2> QED
    BY <2>1, <2>2, <2>3, <2>4, <2>5, <2>6, <2>7, <2>8
<1> QED
  BY <1>1, <1>2

\* However the learner's and the administrators' requests interleave and die,
\* examination rows come about in order, and those of an undisturbed attempt
\* agree (submitAnswer, giveFinalVerdict, reopenEvaluation, issueCertificate).
THEOREM ExamsAreConsistent == ExamSpec => []ExamsConsistent
<1>1. ExamSpec => []ExamInv
  BY ExamInitInv, ExamStep, PTL DEF ExamSpec
<1> QED
  BY <1>1, ExamConsistent, PTL

-----------------------------------------------------------------------------
(* CV images *)

\* The statuses of a session, and what requests and rows hold.
CvStatuses == {"ACTIVE", "READY", "GENERATING", "COMPLETED"}
CvRequestStates ==
  [pc : {"idle", "sync", "plan", "answer", "claim", "create", "restore", "link"},
   kind : {"none", "poll", "message", "generate"},
   status : CvStatuses, made : Generations \union {NoGeneration}]
GenerationRows ==
  [status : {"NONE", "PROCESSING", "COMPLETED", "FAILED", "DELETED"},
   charge : Charges \union {"NONE"}, refunded : BOOLEAN, assisted : BOOLEAN]

\* A generation and the promise that makes it.
GenerationSound(g) ==
  /\ generation[g].status = "NONE" =>
       /\ making[g] = "none" /\ generation[g].charge = "NONE"
       /\ ~generation[g].refunded /\ ~generation[g].assisted
  /\ making[g] = "running" => generation[g].status \in {"PROCESSING", "DELETED"}
  /\ making[g] = "failing" => generation[g].status \in {"PROCESSING", "COMPLETED", "DELETED"}
  /\ generation[g].refunded => making[g] = "none" /\ generation[g].status \in {"FAILED", "DELETED"}
  /\ generation[g].status = "FAILED" => generation[g].refunded \/ generation[g].charge = "NONE"
  /\ generation[g].assisted /\ Live(g) => ~SessionTaken(g)

CvLedger ==
  /\ IsFiniteSet(Paid("FREE")) /\ IsFiniteSet(Paid("PAID"))
  /\ cvWallet.FREE + Cardinality(Paid("FREE")) = FreeGenerations
  /\ cvWallet.PAID + Cardinality(Paid("PAID")) = PaidCredits

\* What a session that shows a finished CV shows.
Finished(m) == m # NoGeneration /\ generation[m].status \in {"COMPLETED", "DELETED"}

RequestSound(r) ==
  /\ cvRequest[r].status = "COMPLETED" => Finished(cvRequest[r].made)
  /\ cvRequest[r].pc \in {"plan", "answer"} => cvRequest[r].status \in {"ACTIVE", "READY"}
  /\ cvRequest[r].pc = "claim" => cvRequest[r].status = "READY"
  /\ cvRequest[r].pc \in {"create", "restore", "link"} => cvRequest[r].status = "GENERATING"

CvRowsTyped ==
  /\ cvSession \in [status : CvStatuses, made : Generations \union {NoGeneration}]
  /\ generation \in [Generations -> GenerationRows]
  /\ cvWallet \in [Charges -> Nat]
  /\ editing \in BOOLEAN /\ cvOverlap \in BOOLEAN
  /\ making \in [Generations -> {"none", "running", "failing"}]
  /\ cvRequest \in [CvRequests -> CvRequestStates]
  /\ cvRequested \in 0..MaxCvRequests /\ cvFaults \in 0..MaxCvFaults

\* A generation the assistant asked for that is, or may come to be, live.
Alive(g) == generation[g].assisted /\ (Live(g) \/ making[g] = "running")

\* Requests that came one after the other: the session is what they read, and a
\* live generation is the one it shows, or is about to show.
Claimant(r) == cvRequest[r].pc \in {"create", "restore", "link"}
Calm ==
  /\ \A r \in CvRequests :
       /\ cvRequest[r].pc \in {"sync", "plan", "answer", "claim"} => Copy(r) = cvSession
       /\ Claimant(r) => cvSession.status = "GENERATING"
       /\ Claimant(r) => \A g \in Generations :
            Alive(g) => cvRequest[r].pc = "link" /\ cvRequest[r].made = g
       /\ \A q \in CvRequests : Claimant(r) /\ Claimant(q) => r = q
  /\ \A g \in Generations : Alive(g) =>
       \/ cvSession.made = g /\ cvSession.status \in {"GENERATING", "COMPLETED"}
       \/ \E r \in CvRequests : cvRequest[r].pc = "link" /\ cvRequest[r].made = g

CvInv ==
  /\ CvRowsTyped
  /\ \A g \in Generations : GenerationSound(g)
  /\ CvLedger
  /\ \A r \in CvRequests : RequestSound(r)
  /\ cvSession.status = "COMPLETED" => Finished(cvSession.made)
  /\ ~cvOverlap => Calm

LEMMA CvConsistent == CvInv => CvChargesConsistent
<1> SUFFICES ASSUME CvInv PROVE CvChargesConsistent
  OBVIOUS
<1>1. CvTypeOK
  BY DEF CvInv, CvRowsTyped, CvTypeOK, CvStatuses, GenerationRows, CvRequestStates
<1>2. \A g \in Generations :
       /\ generation[g].status = "FAILED" => generation[g].refunded \/ generation[g].charge = "NONE"
       /\ generation[g].status \in {"PROCESSING", "COMPLETED"} => ~generation[g].refunded
       /\ generation[g].assisted /\ Live(g) => ~SessionTaken(g)
  BY DEF CvInv, GenerationSound
<1>3. ~cvOverlap /\ (\A r \in CvRequests : ~InFlight(r)) =>
       \A g \in Generations : generation[g].assisted /\ Live(g) =>
         cvSession.made = g /\ cvSession.status \in {"GENERATING", "COMPLETED"}
  BY DEF CvInv, Calm, InFlight, Alive
<1>4. cvSession.status = "COMPLETED" =>
        cvSession.made # NoGeneration /\ generation[cvSession.made].status \in {"COMPLETED", "DELETED"}
  BY DEF CvInv, Finished
<1> QED
  BY <1>1, <1>2, <1>3, <1>4 DEF CvChargesConsistent, CvInv, CvLedger

LEMMA CvInitInv == CvInit => CvInv
<1> SUFFICES ASSUME CvInit PROVE CvInv
  OBVIOUS
<1>1. CvRowsTyped
  <2>1. Unmade \in GenerationRows
    BY DEF Unmade, GenerationRows
  <2>2. Away \in CvRequestStates
    BY DEF Away, CvRequestStates, CvStatuses
  <2>3. cvWallet \in [Charges -> Nat]
    BY CvAssumption DEF CvInit, Charges
  <2>4. cvSession \in [status : CvStatuses, made : Generations \union {NoGeneration}]
    BY DEF CvInit, CvStatuses
  <2> QED
    <3>1. generation \in [Generations -> GenerationRows] /\ cvRequest \in [CvRequests -> CvRequestStates]
      BY <2>1, <2>2 DEF CvInit
    <3>2. cvRequested \in 0..MaxCvRequests /\ cvFaults \in 0..MaxCvFaults
      BY CvAssumption DEF CvInit
    <3>3. editing \in BOOLEAN /\ cvOverlap \in BOOLEAN /\ making \in [Generations -> {"none", "running", "failing"}]
      BY DEF CvInit
    <3> QED
      BY <2>3, <2>4, <3>1, <3>2, <3>3 DEF CvRowsTyped
<1>2. \A g \in Generations : GenerationSound(g) /\ ~Alive(g)
  BY DEF CvInit, GenerationSound, Unmade, Live, Alive
<1>3. Paid("FREE") = {} /\ Paid("PAID") = {}
  BY DEF CvInit, Paid, Unmade
<1>4. CvLedger
  <2>1. cvWallet.FREE = FreeGenerations /\ cvWallet.PAID = PaidCredits
    BY DEF CvInit
  <2> QED
    BY <1>3, <2>1, FS_EmptySet, CvAssumption DEF CvLedger
<1>5. \A r \in CvRequests : RequestSound(r) /\ cvRequest[r].pc = "idle"
  BY DEF CvInit, RequestSound, Away
<1>6. Calm
  BY <1>2, <1>5 DEF Calm, Claimant
<1> QED
  BY <1>1, <1>2, <1>4, <1>5, <1>6 DEF CvInv, CvInit

\* A request's step that leaves the generations and the wallet alone.
LEMMA RequestMoves ==
  ASSUME CvInv, NEW r \in CvRequests, NEW s \in CvRequestStates,
         cvRequest' = [cvRequest EXCEPT ![r] = s],
         UNCHANGED <<generation, cvWallet, editing, making>>,
         cvSession' \in [status : CvStatuses, made : Generations \union {NoGeneration}],
         cvRequested' \in 0..MaxCvRequests, cvFaults' \in 0..MaxCvFaults, cvOverlap' \in BOOLEAN,
         RequestSound(r)', cvSession'.status = "COMPLETED" => Finished(cvSession'.made),
         ~cvOverlap' => ~cvOverlap,
         ~cvOverlap' => Calm'
  PROVE  CvInv'
<1>1. \A q \in CvRequests : cvRequest'[q] = IF q = r THEN s ELSE cvRequest[q]
  BY DEF CvInv, CvRowsTyped
<1>2. CvRowsTyped'
  BY DEF CvInv, CvRowsTyped
<1>3. \A g \in Generations : GenerationSound(g)'
  BY DEF CvInv, GenerationSound, Live, SessionTaken
<1>4. CvLedger'
  BY DEF CvInv, CvLedger, Paid
<1>5. \A q \in CvRequests : RequestSound(q)'
  BY <1>1 DEF CvInv, RequestSound, Finished
<1>6. cvSession'.status = "COMPLETED" => Finished(cvSession.made)'
  BY DEF Finished
<1> QED
  BY <1>2, <1>3, <1>4, <1>5, <1>6 DEF CvInv

\* A step that changes generations only: none that was finished or gone comes to
\* be anything else.
LEMMA GenerationMoves ==
  ASSUME CvInv, UNCHANGED <<cvSession, cvRequest, cvOverlap>>,
         CvRowsTyped', CvLedger', \A g \in Generations : GenerationSound(g)',
         \A g \in Generations : Alive(g)' => Alive(g),
         \A g \in Generations :
           generation[g].status \in {"COMPLETED", "DELETED"} => generation'[g].status \in {"COMPLETED", "DELETED"}
  PROVE  CvInv'
<1>1. \A m \in Generations \union {NoGeneration} : Finished(m) => Finished(m)'
  BY DEF Finished
<1>2. \A r \in CvRequests : RequestSound(r)'
  <2> SUFFICES ASSUME NEW r \in CvRequests PROVE RequestSound(r)'
    OBVIOUS
  <2>1. cvRequest[r].made \in Generations \union {NoGeneration} /\ RequestSound(r)
    BY DEF CvInv, CvRowsTyped, CvRequestStates
  <2> QED
    BY <2>1 DEF RequestSound, Finished
<1>3. cvSession'.status = "COMPLETED" => Finished(cvSession.made)'
  BY DEF Finished, CvInv, CvRowsTyped
<1>4. ~cvOverlap' => Calm'
  BY DEF CvInv, Calm, Claimant, Copy
<1> QED
  BY <1>2, <1>3, <1>4 DEF CvInv

\* A generation's row and its promise change.
LEMMA RowMoves ==
  ASSUME CvInv, NEW g \in Generations, NEW row \in GenerationRows, NEW m \in {"none", "running", "failing"},
         generation' = [generation EXCEPT ![g] = row], making' = [making EXCEPT ![g] = m],
         row.assisted /\ row.status \in {"PROCESSING", "COMPLETED"} => ~SessionTaken(g),
         row.status = "NONE" => m = "none" /\ row.charge = "NONE" /\ ~row.refunded /\ ~row.assisted,
         m = "running" => row.status \in {"PROCESSING", "DELETED"},
         m = "failing" => row.status \in {"PROCESSING", "COMPLETED", "DELETED"},
         row.refunded => m = "none" /\ row.status \in {"FAILED", "DELETED"},
         row.status = "FAILED" => row.refunded \/ row.charge = "NONE"
  PROVE  /\ \A h \in Generations : GenerationSound(h)'
         /\ generation' \in [Generations -> GenerationRows]
         /\ making' \in [Generations -> {"none", "running", "failing"}]
         /\ generation'[g] = row /\ making'[g] = m
         /\ \A h \in Generations \ {g} : generation'[h] = generation[h] /\ making'[h] = making[h]
<1>1. /\ generation' \in [Generations -> GenerationRows]
      /\ making' \in [Generations -> {"none", "running", "failing"}]
      /\ generation'[g] = row /\ making'[g] = m
      /\ \A h \in Generations \ {g} : generation'[h] = generation[h] /\ making'[h] = making[h]
  BY DEF CvInv, CvRowsTyped
<1>2. Live(g)' <=> row.status \in {"PROCESSING", "COMPLETED"}
  BY <1>1 DEF Live
<1>3. \A h \in Generations \ {g} : Live(h)' <=> Live(h)
  BY <1>1 DEF Live
<1>4. SessionTaken(g)' <=> SessionTaken(g)
  BY <1>1, <1>3 DEF SessionTaken
<1>5. GenerationSound(g)'
  BY <1>1, <1>2, <1>4 DEF GenerationSound
<1>6. ASSUME NEW h \in Generations \ {g} PROVE GenerationSound(h)'
  <2>1. GenerationSound(h)
    BY DEF CvInv
  <2>2. generation[h].assisted /\ Live(h) => ~SessionTaken(h)'
    <3> SUFFICES ASSUME generation[h].assisted, Live(h), NEW k \in Generations \ {h},
                        generation'[k].assisted, Live(k)'
                 PROVE  FALSE
      BY DEF SessionTaken
    <3>1. CASE k = g
      BY <3>1, <1>1, <1>2 DEF SessionTaken
    <3>2. CASE k # g
      BY <3>2, <1>1, <1>3, <2>1 DEF GenerationSound, SessionTaken
    <3> QED
      BY <3>1, <3>2
  <2> QED
    BY <1>1, <1>3, <2>1, <2>2 DEF GenerationSound
<1> QED
  BY <1>1, <1>5, <1>6

\* Charge and refund stay as they were, and so does the ledger.
LEMMA LedgerStays ==
  ASSUME CvInv, cvWallet' = cvWallet,
         \A g \in Generations : generation'[g].charge = generation[g].charge
                                /\ (generation'[g].refunded <=> generation[g].refunded)
  PROVE  CvLedger'
<1>1. Paid("FREE")' = Paid("FREE") /\ Paid("PAID")' = Paid("PAID")
  BY DEF Paid
<1> QED
  BY <1>1 DEF CvInv, CvLedger

\* A generation that was not made takes its charge from the wallet.
LEMMA LedgerCharged ==
  ASSUME CvInv, NEW g \in Generations, NEW source \in Charges \union {"NONE"}, NEW assisted \in BOOLEAN,
         generation[g].status = "NONE", Charged(g, source, assisted),
         source # "NONE" => source = ChargeSource
  PROVE  CvLedger' /\ cvWallet' \in [Charges -> Nat]
<1>1. /\ generation[g].charge = "NONE" /\ generation[g].refunded = FALSE
      /\ generation \in [Generations -> GenerationRows] /\ cvWallet \in [Charges -> Nat]
  BY DEF CvInv, CvRowsTyped, GenerationSound, GenerationRows
<1>2. /\ generation'[g].charge = source /\ generation'[g].refunded = FALSE
      /\ \A h \in Generations \ {g} : generation'[h] = generation[h]
  BY <1>1 DEF Charged
<1>3. ASSUME NEW p \in Charges PROVE Paid(p)' = IF p = source THEN Paid(p) \union {g} ELSE Paid(p)
  BY <1>1, <1>2 DEF Paid, Charges
<1>4. \A p \in Charges : g \notin Paid(p)
  BY <1>1 DEF Paid, Charges
<1>5. source \in Charges => cvWallet[source] > 0
  BY <1>1 DEF ChargeSource, Charges
<1>6. /\ cvWallet' \in [Charges -> Nat]
      /\ \A p \in Charges : cvWallet'[p] = IF p = source THEN cvWallet[p] - 1 ELSE cvWallet[p]
  BY <1>1, <1>5 DEF Charged, Charges
<1>7. ASSUME NEW p \in Charges, IsFiniteSet(Paid(p))
      PROVE  IsFiniteSet(Paid(p)') /\ cvWallet'[p] + Cardinality(Paid(p)') = cvWallet[p] + Cardinality(Paid(p))
  <2>1. Cardinality(Paid(p)) \in Nat /\ Cardinality(Paid(p) \union {g}) = Cardinality(Paid(p)) + 1
        /\ IsFiniteSet(Paid(p) \union {g})
    BY <1>4, <1>7, FS_AddElement, FS_CardinalityType
  <2>2. cvWallet[p] \in Nat /\ Cardinality(Paid(p)) \in Nat
    BY <1>1, <2>1
  <2>3. CASE p = source
    <3>1. Paid(p)' = Paid(p) \union {g} /\ cvWallet'[p] = cvWallet[p] - 1
      BY <1>3, <1>6, <2>3
    <3> QED
      BY <2>1, <2>2, <3>1
  <2>4. CASE p # source
    <3>1. Paid(p)' = Paid(p) /\ cvWallet'[p] = cvWallet[p]
      BY <1>3, <1>6, <2>4
    <3> QED
      BY <1>7, <3>1
  <2> QED
    BY <2>3, <2>4
<1>8. "FREE" \in Charges /\ "PAID" \in Charges
  BY DEF Charges
<1> QED
  BY <1>6, <1>7, <1>8 DEF CvInv, CvLedger

\* A generation that fails gives its charge back.
LEMMA LedgerRefunded ==
  ASSUME CvInv, NEW g \in Generations, NEW source \in Charges, generation[g].charge = source,
         ~generation[g].refunded, generation'[g].charge = source, generation'[g].refunded = TRUE,
         \A h \in Generations \ {g} : generation'[h] = generation[h],
         cvWallet' = [cvWallet EXCEPT ![source] = @ + 1]
  PROVE  CvLedger' /\ cvWallet' \in [Charges -> Nat]
<1>1. cvWallet \in [Charges -> Nat]
  BY DEF CvInv, CvRowsTyped
<1>3. ASSUME NEW p \in Charges PROVE Paid(p)' = IF p = source THEN Paid(p) \ {g} ELSE Paid(p)
  BY DEF Paid
<1>4. g \in Paid(source)
  BY DEF Paid
<1>6. /\ cvWallet' \in [Charges -> Nat]
      /\ \A p \in Charges : cvWallet'[p] = IF p = source THEN cvWallet[p] + 1 ELSE cvWallet[p]
  BY <1>1
<1>7. ASSUME NEW p \in Charges, IsFiniteSet(Paid(p))
      PROVE  IsFiniteSet(Paid(p)') /\ cvWallet'[p] + Cardinality(Paid(p)') = cvWallet[p] + Cardinality(Paid(p))
  <2>1. CASE p = source
    <3>1. /\ Cardinality(Paid(p)) \in Nat /\ Cardinality(Paid(p) \ {g}) = Cardinality(Paid(p)) - 1
          /\ IsFiniteSet(Paid(p) \ {g})
      BY <1>4, <1>7, <2>1, FS_RemoveElement, FS_CardinalityType
    <3>2. Paid(p)' = Paid(p) \ {g} /\ cvWallet'[p] = cvWallet[p] + 1 /\ cvWallet[p] \in Nat
      BY <1>1, <1>3, <1>6, <2>1
    <3> QED
      BY <3>1, <3>2
  <2>2. CASE p # source
    BY <1>3, <1>6, <1>7, <2>2
  <2> QED
    BY <2>1, <2>2
<1>8. "FREE" \in Charges /\ "PAID" \in Charges
  BY DEF Charges
<1> QED
  BY <1>6, <1>7, <1>8 DEF CvInv, CvLedger

\* The wallet's and the promise's steps.
LEMMA GenerationCreated ==
  ASSUME CvInv, NEW g \in Generations, NEW again \in BOOLEAN, CreateGeneration(g, again)
  PROVE  CvInv'
<1>1. PICK source \in Charges \union {"NONE"} :
        Charged(g, source, FALSE) /\ (source # "NONE" => source = ChargeSource)
  BY DEF CreateGeneration, ChargeSource, Charges
<1> DEFINE row == [status |-> "PROCESSING", charge |-> source, refunded |-> FALSE, assisted |-> FALSE]
<1>2. /\ generation[g].status = "NONE"
      /\ UNCHANGED <<cvSession, editing, cvRequest, cvRequested, cvFaults, cvOverlap>>
  BY DEF CreateGeneration
<1>3. row \in GenerationRows
  BY DEF GenerationRows
<1>4. generation' = [generation EXCEPT ![g] = row] /\ making' = [making EXCEPT ![g] = "running"]
  BY <1>1 DEF Charged
<1>5. /\ \A h \in Generations : GenerationSound(h)'
      /\ generation' \in [Generations -> GenerationRows]
      /\ making' \in [Generations -> {"none", "running", "failing"}]
      /\ generation'[g] = row /\ making'[g] = "running"
      /\ \A h \in Generations \ {g} : generation'[h] = generation[h] /\ making'[h] = making[h]
  BY <1>3, <1>4, RowMoves
<1>6. CvLedger' /\ cvWallet' \in [Charges -> Nat]
  BY <1>1, <1>2, LedgerCharged
<1>7. CvRowsTyped'
  BY <1>2, <1>5, <1>6 DEF CvInv, CvRowsTyped
<1>8. \A h \in Generations : Alive(h)' => Alive(h)
  BY <1>5 DEF Alive, Live
<1>9. \A h \in Generations :
        generation[h].status \in {"COMPLETED", "DELETED"} => generation'[h].status \in {"COMPLETED", "DELETED"}
  BY <1>2, <1>5
<1> QED
  BY <1>2, <1>5, <1>6, <1>7, <1>8, <1>9, GenerationMoves

\* The steps that change the status of a row or of its promise.
LEMMA GenerationStatusMoves ==
  ASSUME CvInv, NEW g \in Generations,
         \/ DeleteGeneration(g) \/ CompleteGeneration(g) \/ CompletionUnanswered(g)
         \/ GenerationThrows(g) \/ MakerDies(g)
  PROVE  CvInv'
<1>1. generation[g] \in GenerationRows /\ GenerationSound(g) /\ making[g] \in {"none", "running", "failing"}
  BY DEF CvInv, CvRowsTyped
<1>2. /\ UNCHANGED <<cvSession, cvWallet, editing, cvRequest, cvRequested, cvOverlap>>
      /\ cvFaults' \in 0..MaxCvFaults
  BY CvAssumption DEF CvInv, CvRowsTyped, DeleteGeneration, CompleteGeneration, CompletionUnanswered,
     GenerationThrows, MakerDies
<1>3. \E row \in GenerationRows, m \in {"none", "running", "failing"} :
        /\ generation' = [generation EXCEPT ![g] = row] /\ making' = [making EXCEPT ![g] = m]
        /\ row.charge = generation[g].charge /\ row.refunded = generation[g].refunded
        /\ row.assisted = generation[g].assisted
        /\ \/ row.status = generation[g].status /\ m # "running" /\ making[g] # "none"
              /\ (m = "failing" => making[g] = "running")
           \/ row.status = "DELETED" /\ m = making[g] /\ generation[g].status # "NONE"
           \/ row.status = "COMPLETED" /\ m # "running" /\ making[g] = "running"
              /\ (generation[g].assisted => ~SessionTaken(g))
  <2>0. \A v \in {"none", "running", "failing"} : v = making[g] => making = [making EXCEPT ![g] = v]
    BY DEF CvInv, CvRowsTyped
  <2>1. generation = [generation EXCEPT ![g] = generation[g]]
    BY DEF CvInv, CvRowsTyped
  <2> DEFINE Put(v) == [generation[g] EXCEPT !.status = v]
  <2>2. ASSUME NEW v \in {"DELETED", "COMPLETED"}
        PROVE  /\ Put(v) \in GenerationRows /\ Put(v).status = v
               /\ Put(v).charge = generation[g].charge /\ Put(v).refunded = generation[g].refunded
               /\ Put(v).assisted = generation[g].assisted
               /\ [generation EXCEPT ![g].status = v] = [generation EXCEPT ![g] = Put(v)]
    BY <1>1 DEF GenerationRows
  <2> HIDE DEF Put
  <2>3. CASE DeleteGeneration(g)
    <3>1. /\ generation' = [generation EXCEPT ![g] = Put("DELETED")] /\ making' = [making EXCEPT ![g] = making[g]]
          /\ generation[g].status # "NONE"
      BY <1>1, <2>0, <2>2, <2>3 DEF DeleteGeneration
    <3> QED
      BY <1>1, <2>2, <3>1
  <2>4. CASE CompleteGeneration(g)
    <3>1. CASE generation[g].assisted => ~SessionTaken(g)
      <4>1. /\ generation' = [generation EXCEPT ![g] = Put("COMPLETED")] /\ making' = [making EXCEPT ![g] = "none"]
            /\ making[g] = "running"
        BY <2>2, <2>4, <3>1 DEF CompleteGeneration
      <4> QED
        BY <2>2, <3>1, <4>1
    <3>2. CASE ~(generation[g].assisted => ~SessionTaken(g))
      <4>1. /\ generation' = [generation EXCEPT ![g] = generation[g]] /\ making' = [making EXCEPT ![g] = "failing"]
            /\ making[g] = "running"
        BY <2>1, <2>4, <3>2 DEF CompleteGeneration
      <4> QED
        BY <1>1, <4>1
    <3> QED
      BY <3>1, <3>2
  <2>5. CASE CompletionUnanswered(g)
    <3>1. /\ generation' = [generation EXCEPT ![g] = Put("COMPLETED")] /\ making' = [making EXCEPT ![g] = "failing"]
          /\ making[g] = "running" /\ generation[g].status = "PROCESSING"
      BY <2>2, <2>5 DEF CompletionUnanswered
    <3>2. generation[g].assisted => ~SessionTaken(g)
      BY <1>1, <3>1 DEF GenerationSound, Live
    <3> QED
      BY <2>2, <3>1, <3>2
  <2>6. CASE GenerationThrows(g)
    <3>1. /\ generation' = [generation EXCEPT ![g] = generation[g]] /\ making' = [making EXCEPT ![g] = "failing"]
          /\ making[g] = "running"
      BY <2>1, <2>6 DEF GenerationThrows
    <3> QED
      BY <1>1, <3>1
  <2>7. CASE MakerDies(g)
    <3>1. /\ generation' = [generation EXCEPT ![g] = generation[g]] /\ making' = [making EXCEPT ![g] = "none"]
          /\ making[g] # "none"
      BY <2>1, <2>7 DEF MakerDies
    <3> QED
      BY <1>1, <3>1
  <2> QED
    BY <2>3, <2>4, <2>5, <2>6, <2>7
<1>4. PICK row \in GenerationRows, m \in {"none", "running", "failing"} :
        /\ generation' = [generation EXCEPT ![g] = row] /\ making' = [making EXCEPT ![g] = m]
        /\ row.charge = generation[g].charge /\ row.refunded = generation[g].refunded
        /\ row.assisted = generation[g].assisted
        /\ \/ row.status = generation[g].status /\ m # "running" /\ making[g] # "none"
              /\ (m = "failing" => making[g] = "running")
           \/ row.status = "DELETED" /\ m = making[g] /\ generation[g].status # "NONE"
           \/ row.status = "COMPLETED" /\ m # "running" /\ making[g] = "running"
              /\ (generation[g].assisted => ~SessionTaken(g))
  BY <1>3
<1>5. /\ row.assisted /\ row.status \in {"PROCESSING", "COMPLETED"} => ~SessionTaken(g)
      /\ row.status = "NONE" => m = "none" /\ row.charge = "NONE" /\ ~row.refunded /\ ~row.assisted
      /\ m = "running" => row.status \in {"PROCESSING", "DELETED"}
      /\ m = "failing" => row.status \in {"PROCESSING", "COMPLETED", "DELETED"}
      /\ row.refunded => m = "none" /\ row.status \in {"FAILED", "DELETED"}
      /\ row.status = "FAILED" => row.refunded \/ row.charge = "NONE"
  BY <1>1, <1>4 DEF GenerationSound, Live
<1>6. /\ \A h \in Generations : GenerationSound(h)'
      /\ generation' \in [Generations -> GenerationRows]
      /\ making' \in [Generations -> {"none", "running", "failing"}]
      /\ generation'[g] = row /\ making'[g] = m
      /\ \A h \in Generations \ {g} : generation'[h] = generation[h] /\ making'[h] = making[h]
  BY <1>4, <1>5, RowMoves
<1>7. CvRowsTyped'
  BY <1>2, <1>6 DEF CvInv, CvRowsTyped
<1>8. CvLedger'
  BY <1>2, <1>4, <1>6, LedgerStays
<1>9. \A h \in Generations : Alive(h)' => Alive(h)
  <2>1. Alive(g)' => Alive(g)
    BY <1>1, <1>4, <1>6 DEF Alive, Live
  <2> QED
    BY <2>1, <1>6 DEF Alive, Live
<1>10. \A h \in Generations :
         generation[h].status \in {"COMPLETED", "DELETED"} => generation'[h].status \in {"COMPLETED", "DELETED"}
  BY <1>4, <1>6
<1> QED
  BY <1>2, <1>6, <1>7, <1>8, <1>9, <1>10, GenerationMoves

LEMMA GenerationFailed ==
  ASSUME CvInv, NEW g \in Generations, FailGenerationAndRefund(g)
  PROVE  CvInv'
<1>1. /\ generation[g] \in GenerationRows /\ GenerationSound(g)
      /\ generation = [generation EXCEPT ![g] = generation[g]]
  BY DEF CvInv, CvRowsTyped
<1>2. /\ UNCHANGED <<cvSession, editing, cvRequest, cvRequested, cvFaults, cvOverlap>>
      /\ making[g] = "failing" /\ making' = [making EXCEPT ![g] = "none"]
  BY DEF FailGenerationAndRefund
<1> DEFINE refunds == Refundable(g) /\ generation[g].charge # "NONE" /\ ~generation[g].refunded
<1>3. PICK row \in GenerationRows :
        /\ generation' = [generation EXCEPT ![g] = row]
        /\ row.charge = generation[g].charge /\ row.assisted = generation[g].assisted
        /\ Refundable(g) => row.status = "FAILED" /\ (row.refunded <=> generation[g].refunded \/ refunds)
        /\ ~Refundable(g) => row = generation[g]
  <2>1. CASE Refundable(g)
    <3> DEFINE new == [generation[g] EXCEPT !.status = "FAILED", !.refunded = generation[g].refunded \/ refunds]
    <3>1. /\ new \in GenerationRows /\ new.charge = generation[g].charge
          /\ new.assisted = generation[g].assisted /\ new.status = "FAILED"
          /\ new.refunded = (generation[g].refunded \/ refunds)
      BY <1>1 DEF GenerationRows
    <3>2. generation' = [generation EXCEPT ![g] = new]
      BY <1>1, <2>1 DEF FailGenerationAndRefund, GenerationRows
    <3> HIDE DEF new
    <3> QED
      BY <2>1, <3>1, <3>2
  <2>2. CASE ~Refundable(g)
    BY <1>1, <2>2 DEF FailGenerationAndRefund
  <2> QED
    BY <2>1, <2>2
<1>4. Refundable(g) => generation[g].status = "PROCESSING" /\ ~generation[g].refunded
  BY <1>1 DEF Refundable, GenerationSound
<1>5. /\ row.assisted /\ row.status \in {"PROCESSING", "COMPLETED"} => ~SessionTaken(g)
      /\ row.status = "NONE" => row.charge = "NONE" /\ ~row.refunded /\ ~row.assisted
      /\ row.refunded => row.status \in {"FAILED", "DELETED"}
      /\ row.status = "FAILED" => row.refunded \/ row.charge = "NONE"
  BY <1>1, <1>3, <1>4 DEF GenerationSound, Live
<1>6. /\ \A h \in Generations : GenerationSound(h)'
      /\ generation' \in [Generations -> GenerationRows]
      /\ making' \in [Generations -> {"none", "running", "failing"}]
      /\ generation'[g] = row /\ making'[g] = "none"
      /\ \A h \in Generations \ {g} : generation'[h] = generation[h] /\ making'[h] = making[h]
  BY <1>2, <1>3, <1>5, RowMoves
<1>7. CvLedger' /\ cvWallet' \in [Charges -> Nat]
  <2>1. CASE refunds
    <3>1. PICK source \in Charges : generation[g].charge = source
      BY <1>1, <2>1 DEF GenerationRows
    <3>2. cvWallet' = [cvWallet EXCEPT ![source] = @ + 1]
      BY <2>1, <3>1 DEF FailGenerationAndRefund
    <3>3. generation'[g].charge = source /\ generation'[g].refunded = TRUE
      BY <1>3, <1>6, <2>1, <3>1 DEF GenerationRows
    <3> QED
      BY <1>6, <2>1, <3>1, <3>2, <3>3, LedgerRefunded
  <2>2. CASE ~refunds
    <3>1. cvWallet' = cvWallet
      BY <2>2 DEF FailGenerationAndRefund
    <3>2. \A h \in Generations : generation'[h].charge = generation[h].charge
                                 /\ (generation'[h].refunded <=> generation[h].refunded)
      BY <1>3, <1>6, <2>2
    <3> QED
      BY <3>1, <3>2, LedgerStays DEF CvInv, CvRowsTyped
  <2> QED
    BY <2>1, <2>2
<1>8. CvRowsTyped'
  BY <1>2, <1>6, <1>7 DEF CvInv, CvRowsTyped
<1>9. \A h \in Generations : Alive(h)' => Alive(h)
  <2>1. Alive(g)' => Alive(g)
    BY <1>1, <1>3, <1>6 DEF Alive, Live
  <2> QED
    BY <2>1, <1>6 DEF Alive, Live
<1>10. \A h \in Generations :
         generation[h].status \in {"COMPLETED", "DELETED"} => generation'[h].status \in {"COMPLETED", "DELETED"}
  BY <1>3, <1>4, <1>6
<1> QED
  BY <1>2, <1>6, <1>7, <1>8, <1>9, <1>10, GenerationMoves

LEMMA AwayTyped ==
  /\ Away \in CvRequestStates /\ Away.pc = "idle" /\ Away.status = "ACTIVE" /\ Away.made = NoGeneration
  BY DEF Away, CvRequestStates, CvStatuses

\* The only request in flight decides what is calm.
LEMMA CalmAlone ==
  ASSUME CvInv, NEW r \in CvRequests, NEW s \in CvRequestStates,
         cvRequest' = [cvRequest EXCEPT ![r] = s], UNCHANGED <<generation, making>>,
         \A q \in CvRequests \ {r} : ~InFlight(q),
         s.pc \in {"sync", "plan", "answer", "claim"} => [status |-> s.status, made |-> s.made] = cvSession',
         s.pc \in {"create", "restore", "link"} => cvSession'.status = "GENERATING",
         \A g \in Generations : Alive(g) =>
           /\ s.pc \notin {"create", "restore"} /\ (s.pc = "link" => s.made = g)
           /\ \/ cvSession'.made = g /\ cvSession'.status \in {"GENERATING", "COMPLETED"}
              \/ s.pc = "link" /\ s.made = g
  PROVE  Calm'
<1>1. \A q \in CvRequests : cvRequest'[q] = IF q = r THEN s ELSE cvRequest[q]
  BY DEF CvInv, CvRowsTyped
<1>2. \A q \in CvRequests \ {r} : cvRequest'[q].pc = "idle"
  BY <1>1 DEF InFlight
<1>3. \A g \in Generations : Alive(g)' <=> Alive(g)
  BY DEF Alive, Live
<1>4. \A q \in CvRequests : Claimant(q)' => q = r /\ s.pc \in {"create", "restore", "link"}
  BY <1>1, <1>2 DEF Claimant
<1>5. ASSUME NEW q \in CvRequests
      PROVE  cvRequest'[q].pc \in {"sync", "plan", "answer", "claim"} => Copy(q)' = cvSession'
  BY <1>1, <1>2 DEF Copy
<1>6. ASSUME NEW q \in CvRequests, Claimant(q)'
      PROVE  /\ cvSession'.status = "GENERATING"
             /\ \A g \in Generations : Alive(g)' => cvRequest'[q].pc = "link" /\ cvRequest'[q].made = g
  BY <1>1, <1>3, <1>4, <1>6
<1>7. ASSUME NEW g \in Generations, Alive(g)'
      PROVE  \/ cvSession'.made = g /\ cvSession'.status \in {"GENERATING", "COMPLETED"}
             \/ \E q \in CvRequests : cvRequest'[q].pc = "link" /\ cvRequest'[q].made = g
  BY <1>1, <1>3, <1>7
<1> QED
  BY <1>4, <1>5, <1>6, <1>7 DEF Calm

\* A request that read the session, or is done with it, disturbs nothing.
LEMMA CalmReader ==
  ASSUME CvInv, Calm, NEW r \in CvRequests, NEW s \in CvRequestStates, ~Claimant(r),
         cvRequest' = [cvRequest EXCEPT ![r] = s], UNCHANGED <<generation, making, cvSession>>,
         s.pc \notin {"create", "restore", "link"},
         s.pc # "idle" => [status |-> s.status, made |-> s.made] = cvSession
  PROVE  Calm'
<1>1. \A q \in CvRequests : cvRequest'[q] = IF q = r THEN s ELSE cvRequest[q]
  BY DEF CvInv, CvRowsTyped
<1>3. \A g \in Generations : Alive(g)' <=> Alive(g)
  BY DEF Alive, Live
<1>4. \A q \in CvRequests : Claimant(q)' => q # r /\ Claimant(q) /\ cvRequest'[q] = cvRequest[q]
  BY <1>1 DEF Claimant
<1>5. ASSUME NEW q \in CvRequests, cvRequest'[q].pc \in {"sync", "plan", "answer", "claim"}
      PROVE  Copy(q)' = cvSession'
  BY <1>1, <1>5 DEF Copy, Calm
<1>6. ASSUME NEW q \in CvRequests, Claimant(q)'
      PROVE  /\ cvSession'.status = "GENERATING"
             /\ \A g \in Generations : Alive(g)' => cvRequest'[q].pc = "link" /\ cvRequest'[q].made = g
  BY <1>3, <1>4, <1>6 DEF Calm
<1>7. ASSUME NEW g \in Generations, Alive(g)'
      PROVE  \/ cvSession'.made = g /\ cvSession'.status \in {"GENERATING", "COMPLETED"}
             \/ \E q \in CvRequests : cvRequest'[q].pc = "link" /\ cvRequest'[q].made = g
  <2>1. CASE cvSession.made = g /\ cvSession.status \in {"GENERATING", "COMPLETED"}
    BY <2>1
  <2>2. CASE \E q \in CvRequests : cvRequest[q].pc = "link" /\ cvRequest[q].made = g
    <3>1. PICK q \in CvRequests : cvRequest[q].pc = "link" /\ cvRequest[q].made = g
      BY <2>2
    <3>2. q # r
      BY <3>1 DEF Claimant
    <3> QED
      BY <1>1, <3>1, <3>2
  <2> QED
    BY <1>3, <1>7, <2>1, <2>2 DEF Calm
<1>8. \A q, p \in CvRequests : Claimant(q)' /\ Claimant(p)' => q = p
  BY <1>4 DEF Calm
<1> QED
  BY <1>5, <1>6, <1>7, <1>8 DEF Calm

\* What a request holds, by the invariant.
LEMMA RequestIs ==
  ASSUME CvInv, NEW r \in CvRequests
  PROVE  /\ cvRequest[r] \in CvRequestStates /\ RequestSound(r)
         /\ cvSession \in [status : CvStatuses, made : Generations \union {NoGeneration}]
         /\ cvSession.status = "COMPLETED" => Finished(cvSession.made)
         /\ cvRequested \in 0..MaxCvRequests /\ cvFaults \in 0..MaxCvFaults /\ cvOverlap \in BOOLEAN
         /\ ~cvOverlap => Calm
  BY DEF CvInv, CvRowsTyped

LEMMA SessionFound ==
  ASSUME CvInv, NEW r \in CvRequests, NEW kind \in {"poll", "message", "generate"}, FindOwnedSession(r, kind)
  PROVE  CvInv'
<1> DEFINE s == [pc |-> "sync", kind |-> kind, status |-> cvSession.status, made |-> cvSession.made]
<1>1. /\ cvRequest' = [cvRequest EXCEPT ![r] = s] /\ cvRequest[r].pc = "idle"
      /\ cvRequested < MaxCvRequests /\ cvRequested' = cvRequested + 1
      /\ UNCHANGED <<cvSession, generation, cvWallet, editing, making, cvFaults, cvOverlap>>
  BY DEF FindOwnedSession, InFlight
<1>2. s \in CvRequestStates /\ s.pc = "sync" /\ s.status = cvSession.status /\ s.made = cvSession.made
      /\ [status |-> s.status, made |-> s.made] = cvSession
  BY RequestIs DEF CvRequestStates
<1>3. cvRequest'[r] = s
  BY <1>1 DEF CvInv, CvRowsTyped
<1> HIDE DEF s
<1>4. RequestSound(r)'
  BY <1>1, <1>2, <1>3, RequestIs DEF RequestSound, Finished
<1>5. cvRequested' \in 0..MaxCvRequests
  BY <1>1, RequestIs, CvAssumption
<1>6. ~cvOverlap' => Calm'
  BY <1>1, <1>2, RequestIs, CalmReader DEF Claimant
<1> QED
  BY <1>1, <1>2, <1>4, <1>5, <1>6, RequestIs, RequestMoves DEF Finished

\* SyncGenerationStatus, both when it finds the session in step and when not.
LEMMA SessionSynced ==
  ASSUME CvInv, NEW r \in CvRequests, SyncGenerationStatus(r)
  PROVE  CvInv'
<1> DEFINE copy == Copy(r)
           found == IF copy.made # NoGeneration /\ copy.status \in {"GENERATING", "COMPLETED"}
                    THEN generation[copy.made].status ELSE "NONE"
           synced == CASE found = "COMPLETED" -> [copy EXCEPT !.status = "COMPLETED"]
                       [] found = "FAILED" -> [copy EXCEPT !.status = "READY"]
                       [] OTHER -> copy
           next == AfterSync(cvRequest[r].kind, synced)
           s == IF next = "idle" THEN Away ELSE [cvRequest[r] EXCEPT !.pc = next, !.status = synced.status]
<1>1. /\ cvRequest[r].pc = "sync"
      /\ cvSession' = IF synced = copy THEN cvSession ELSE synced
      /\ IF synced = copy THEN UNCHANGED cvOverlap ELSE Overlaps(r)
      /\ cvRequest' = [cvRequest EXCEPT ![r] = s]
      /\ UNCHANGED <<generation, cvWallet, editing, making, cvRequested, cvFaults>>
  BY DEF SyncGenerationStatus
<1>2. /\ copy \in [status : CvStatuses, made : Generations \union {NoGeneration}]
      /\ copy.status = cvRequest[r].status /\ copy.made = cvRequest[r].made
      /\ copy = [status |-> cvRequest[r].status, made |-> cvRequest[r].made]
  BY RequestIs DEF Copy, CvRequestStates
<1>3. /\ synced \in [status : CvStatuses, made : Generations \union {NoGeneration}]
      /\ synced.made = copy.made
      /\ synced # copy => copy.made # NoGeneration /\ copy.status \in {"GENERATING", "COMPLETED"}
                          /\ \/ synced.status = "COMPLETED" /\ generation[copy.made].status = "COMPLETED"
                             \/ synced.status = "READY" /\ generation[copy.made].status = "FAILED"
      /\ synced = copy \/ synced # copy
  <2>1. CASE found = "COMPLETED"
    BY <1>2, <2>1 DEF CvStatuses
  <2>2. CASE found = "FAILED"
    BY <1>2, <2>2 DEF CvStatuses
  <2>3. CASE found \notin {"COMPLETED", "FAILED"}
    BY <1>2, <2>3 DEF CvStatuses
  <2> QED
    BY <2>1, <2>2, <2>3
<1>4. /\ next \in {"idle", "plan", "claim"}
      /\ next = "plan" => synced.status \in {"ACTIVE", "READY"}
      /\ next = "claim" => synced.status = "READY"
  BY DEF AfterSync
<1> HIDE DEF copy, synced, next
<1>5. /\ s \in CvRequestStates /\ s.pc = next
      /\ next # "idle" => s.status = synced.status /\ s.made = synced.made
      /\ s.status = "COMPLETED" => s.status = synced.status /\ s.made = synced.made
      /\ next # "idle" => [status |-> s.status, made |-> s.made] = synced
  BY <1>2, <1>3, <1>4, RequestIs, AwayTyped DEF CvRequestStates
<1>6. synced.status = "COMPLETED" => Finished(synced.made)
  BY <1>2, <1>3, RequestIs DEF RequestSound, Finished
<1> HIDE DEF s
<1>7. cvRequest'[r] = s
  BY <1>1 DEF CvInv, CvRowsTyped
<1>8. RequestSound(r)'
  BY <1>1, <1>4, <1>5, <1>6, <1>7 DEF RequestSound, Finished
<1>9. /\ cvOverlap' \in BOOLEAN /\ (~cvOverlap' => ~cvOverlap)
      /\ synced # copy /\ ~cvOverlap' => \A q \in CvRequests \ {r} : ~InFlight(q)
  BY <1>1, RequestIs DEF Overlaps
<1>10. /\ cvSession' \in [status : CvStatuses, made : Generations \union {NoGeneration}]
       /\ cvSession'.status = "COMPLETED" => Finished(cvSession'.made)
  BY <1>1, <1>3, <1>6, RequestIs
<1>11. ASSUME ~cvOverlap' PROVE Calm'
  <2>1. Calm /\ copy = cvSession
    BY <1>1, <1>9, <1>11, RequestIs DEF Calm, copy
  <2>2. CASE synced = copy
    BY <1>1, <1>4, <1>5, <2>1, <2>2, CalmReader DEF Claimant
  <2>3. CASE synced # copy
    <3>1. \A q \in CvRequests : ~Claimant(q)
      BY <1>1, <1>9, <1>11, <2>3 DEF Claimant, InFlight
    <3>2. ASSUME NEW g \in Generations, Alive(g) PROVE synced.made = g /\ synced.status \in {"GENERATING", "COMPLETED"}
      <4>1. cvSession.made = g
        BY <2>1, <3>1, <3>2 DEF Calm, Claimant
      <4>2. GenerationSound(g)
        BY DEF CvInv
      <4>3. generation[g].status # "FAILED"
        BY <3>2, <4>2 DEF Alive, Live, GenerationSound
      <4> QED
        BY <1>3, <2>1, <2>3, <4>1, <4>3
    <3>3. cvSession' = synced
      BY <1>1, <2>3
    <3> QED
      BY <1>1, <1>4, <1>5, <1>9, <1>11, <2>3, <3>2, <3>3, CalmAlone
  <2> QED
    BY <2>2, <2>3
<1> QED
  BY <1>1, <1>5, <1>8, <1>9, <1>10, <1>11, RequestIs, RequestMoves

\* A request saves a session that it is alone with, or requests have overlapped.
LEMMA SessionSaved ==
  ASSUME CvInv, NEW r \in CvRequests, NEW s \in CvRequestStates, cvRequest[r].pc # "idle",
         NEW saved \in [status : CvStatuses, made : Generations \union {NoGeneration}],
         cvSession' = saved, saved.status = "COMPLETED" => Finished(saved.made),
         cvRequest' = [cvRequest EXCEPT ![r] = s], Overlaps(r),
         UNCHANGED <<generation, cvWallet, editing, making, cvRequested, cvFaults>>,
         s.status = "COMPLETED" => Finished(s.made),
         s.pc \in {"plan", "answer"} => s.status \in {"ACTIVE", "READY"},
         s.pc = "claim" => s.status = "READY",
         s.pc \in {"create", "restore", "link"} => s.status = "GENERATING" /\ saved.status = "GENERATING",
         s.pc \in {"sync", "plan", "answer", "claim"} => [status |-> s.status, made |-> s.made] = saved,
         ~cvOverlap /\ Calm /\ (\A q \in CvRequests \ {r} : ~InFlight(q)) =>
           \A g \in Generations : Alive(g) =>
             /\ s.pc \notin {"create", "restore"} /\ (s.pc = "link" => s.made = g)
             /\ \/ saved.made = g /\ saved.status \in {"GENERATING", "COMPLETED"}
                \/ s.pc = "link" /\ s.made = g
  PROVE  CvInv'
<1>1. cvRequest'[r] = s
  BY DEF CvInv, CvRowsTyped
<1>2. RequestSound(r)'
  BY <1>1 DEF RequestSound, Finished
<1>3. cvOverlap' \in BOOLEAN /\ (~cvOverlap' => ~cvOverlap /\ \A q \in CvRequests \ {r} : ~InFlight(q))
  BY RequestIs DEF Overlaps
<1>4. ASSUME ~cvOverlap' PROVE Calm'
  <2>1. \A g \in Generations : Alive(g) =>
          /\ s.pc \notin {"create", "restore"} /\ (s.pc = "link" => s.made = g)
          /\ \/ saved.made = g /\ saved.status \in {"GENERATING", "COMPLETED"}
             \/ s.pc = "link" /\ s.made = g
    BY <1>3, <1>4, RequestIs
  <2> QED
    BY <1>3, <1>4, <2>1, CalmAlone
<1>5. cvRequested' \in 0..MaxCvRequests /\ cvFaults' \in 0..MaxCvFaults
  BY RequestIs
<1> QED
  BY <1>2, <1>3, <1>4, <1>5, RequestMoves

\* Nobody else is in flight and this request has not claimed: a live generation is
\* the one the session shows, and it shows it as such.
LEMMA CalmShows ==
  ASSUME Calm, NEW r \in CvRequests, ~Claimant(r), \A q \in CvRequests \ {r} : ~InFlight(q),
         NEW g \in Generations, Alive(g)
  PROVE  cvSession.made = g /\ cvSession.status \in {"GENERATING", "COMPLETED"}
  BY DEF Calm, Claimant, InFlight

LEMMA SessionPlanned ==
  ASSUME CvInv, NEW r \in CvRequests, SaveBeforePlan(r) \/ \E ready \in BOOLEAN : ApplyTurnPlan(r, ready)
  PROVE  CvInv'
<1>0. /\ cvRequest[r].pc \in {"plan", "answer"} /\ Overlaps(r)
      /\ UNCHANGED <<generation, cvWallet, editing, making, cvRequested, cvFaults>>
  BY DEF SaveBeforePlan, ApplyTurnPlan
<1>1. /\ cvRequest[r] \in CvRequestStates /\ cvRequest[r].status \in {"ACTIVE", "READY"}
      /\ Copy(r) \in [status : CvStatuses, made : Generations \union {NoGeneration}]
      /\ Copy(r).status = cvRequest[r].status
  BY <1>0, RequestIs DEF RequestSound, Copy, CvRequestStates
<1>2. ~Claimant(r) /\ cvRequest[r].pc # "idle"
  BY <1>0 DEF Claimant
<1>3. ASSUME ~cvOverlap, Calm, \A q \in CvRequests \ {r} : ~InFlight(q), NEW g \in Generations, Alive(g)
      PROVE  FALSE
  <2>1. Copy(r) = cvSession
    BY <1>0, <1>3 DEF Calm
  <2> QED
    BY <1>1, <1>2, <1>3, <2>1, CalmShows
<1>4. CASE SaveBeforePlan(r)
  <2> DEFINE s == [cvRequest[r] EXCEPT !.pc = "answer"]
  <2>1. /\ s \in CvRequestStates /\ s.pc = "answer" /\ s.status = cvRequest[r].status
        /\ [status |-> s.status, made |-> s.made] = Copy(r)
    BY <1>1 DEF CvRequestStates, Copy
  <2>2. cvRequest' = [cvRequest EXCEPT ![r] = s] /\ cvSession' = Copy(r)
    BY <1>4 DEF SaveBeforePlan
  <2> HIDE DEF s
  <2>3. PICK saved \in [status : CvStatuses, made : Generations \union {NoGeneration}] :
          saved = Copy(r) /\ saved.status \in {"ACTIVE", "READY"}
    BY <1>1
  <2> QED
    BY <1>0, <1>1, <1>2, <1>3, <2>1, <2>2, <2>3, SessionSaved
<1>5. CASE \E ready \in BOOLEAN : ApplyTurnPlan(r, ready)
  <2>1. PICK standing \in {"ACTIVE", "READY"} :
          cvSession' = [Copy(r) EXCEPT !.status = standing] /\ cvRequest' = [cvRequest EXCEPT ![r] = Away]
    BY <1>5 DEF ApplyTurnPlan
  <2>2. PICK saved \in [status : CvStatuses, made : Generations \union {NoGeneration}] :
          saved = [Copy(r) EXCEPT !.status = standing] /\ saved.status \in {"ACTIVE", "READY"}
    <3> DEFINE new == [status |-> standing, made |-> Copy(r).made]
    <3>1. new \in [status : CvStatuses, made : Generations \union {NoGeneration}] /\ new.status = standing
      BY <1>1 DEF CvStatuses
    <3>2. new = [Copy(r) EXCEPT !.status = standing]
      BY DEF Copy
    <3> QED
      BY <3>1, <3>2
  <2> QED
    BY <1>0, <1>1, <1>2, <1>3, <2>1, <2>2, AwayTyped, SessionSaved
<1> QED
  BY <1>4, <1>5

LEMMA SessionClaimed ==
  ASSUME CvInv, NEW r \in CvRequests, ClaimSession(r)
  PROVE  CvInv'
<1>0. /\ cvRequest[r].pc = "claim" /\ Overlaps(r)
      /\ UNCHANGED <<generation, cvWallet, editing, making, cvRequested, cvFaults>>
      /\ ~Claimant(r)
  BY DEF ClaimSession, Claimant
<1>1. CASE cvSession.status = "READY"
  <2> DEFINE s == [cvRequest[r] EXCEPT !.pc = "create", !.status = "GENERATING"]
             new == [cvSession EXCEPT !.status = "GENERATING"]
  <2>1. s \in CvRequestStates /\ s.pc = "create" /\ s.status = "GENERATING"
    BY RequestIs DEF CvRequestStates, CvStatuses
  <2>2. cvRequest' = [cvRequest EXCEPT ![r] = s] /\ cvSession' = new
    BY <1>1 DEF ClaimSession
  <2>3. new \in [status : CvStatuses, made : Generations \union {NoGeneration}] /\ new.status = "GENERATING"
    BY RequestIs DEF CvStatuses
  <2>4. ASSUME Calm, \A q \in CvRequests \ {r} : ~InFlight(q), NEW g \in Generations PROVE ~Alive(g)
    BY <1>0, <1>1, <2>4, CalmShows
  <2> HIDE DEF s, new
  <2> QED
    BY <1>0, <2>1, <2>2, <2>3, <2>4, SessionSaved
<1>2. CASE cvSession.status # "READY"
  <2> DEFINE s == [pc |-> "sync", kind |-> "poll", status |-> cvSession.status, made |-> cvSession.made]
  <2>1. /\ s \in CvRequestStates /\ s.pc = "sync" /\ s.status = cvSession.status /\ s.made = cvSession.made
        /\ [status |-> s.status, made |-> s.made] = cvSession
    BY RequestIs DEF CvRequestStates
  <2>2. cvRequest' = [cvRequest EXCEPT ![r] = s] /\ cvSession' = cvSession
    BY <1>2 DEF ClaimSession
  <2> HIDE DEF s
  <2>3. PICK saved \in [status : CvStatuses, made : Generations \union {NoGeneration}] :
          saved = cvSession /\ (saved.status = "COMPLETED" => Finished(saved.made))
    BY RequestIs
  <2>4. ASSUME Calm, \A q \in CvRequests \ {r} : ~InFlight(q), NEW g \in Generations, Alive(g)
        PROVE  saved.made = g /\ saved.status \in {"GENERATING", "COMPLETED"}
    BY <1>0, <2>3, <2>4, CalmShows
  <2> QED
    BY <1>0, <2>1, <2>2, <2>3, <2>4, SessionSaved
<1> QED
  BY <1>1, <1>2

LEMMA SessionRestored ==
  ASSUME CvInv, NEW r \in CvRequests, RestoreSessionReadiness(r) \/ LinkGeneration(r)
  PROVE  CvInv'
<1>0. /\ cvRequest[r].pc \in {"restore", "link"} /\ Overlaps(r) /\ cvRequest' = [cvRequest EXCEPT ![r] = Away]
      /\ UNCHANGED <<generation, cvWallet, editing, making, cvRequested, cvFaults>>
      /\ Claimant(r) /\ cvRequest[r].pc # "idle"
  BY DEF RestoreSessionReadiness, LinkGeneration, Claimant
<1>1. /\ cvRequest[r].status = "GENERATING"
      /\ Copy(r) \in [status : CvStatuses, made : Generations \union {NoGeneration}]
      /\ Copy(r).status = cvRequest[r].status /\ Copy(r).made = cvRequest[r].made
  BY <1>0, RequestIs DEF RequestSound, Copy, CvRequestStates
<1>2. CASE RestoreSessionReadiness(r)
  <2>1. PICK saved \in [status : CvStatuses, made : Generations \union {NoGeneration}] :
          cvSession' = saved /\ saved.status = "READY"
    BY <1>1, <1>2 DEF RestoreSessionReadiness, CvStatuses
  <2>2. ASSUME Calm, NEW g \in Generations PROVE ~Alive(g)
    BY <1>0, <1>2, <2>2 DEF Calm, RestoreSessionReadiness
  <2> QED
    BY <1>0, <2>1, <2>2, AwayTyped, SessionSaved
<1>3. CASE LinkGeneration(r)
  <2>1. PICK saved \in [status : CvStatuses, made : Generations \union {NoGeneration}] :
          cvSession' = saved /\ saved.status = "GENERATING" /\ saved.made = cvRequest[r].made
    BY <1>1, <1>3 DEF LinkGeneration
  <2>2. ASSUME Calm, NEW g \in Generations, Alive(g) PROVE saved.made = g
    BY <1>0, <2>1, <2>2 DEF Calm
  <2> QED
    BY <1>0, <2>1, <2>2, AwayTyped, SessionSaved
<1> QED
  BY <1>2, <1>3

LEMMA CreationThrew ==
  ASSUME CvInv, NEW r \in CvRequests, CreateThrows(r)
  PROVE  CvInv'
<1> DEFINE s == [cvRequest[r] EXCEPT !.pc = "restore"]
<1>1. /\ cvRequest[r].pc = "create" /\ cvRequest' = [cvRequest EXCEPT ![r] = s]
      /\ UNCHANGED <<cvSession, generation, cvWallet, editing, making, cvRequested, cvFaults, cvOverlap>>
  BY DEF CreateThrows
<1>2. s \in CvRequestStates /\ s.pc = "restore" /\ s.status = "GENERATING"
  BY <1>1, RequestIs DEF CvRequestStates, RequestSound
<1> HIDE DEF s
<1>3. \A q \in CvRequests : cvRequest'[q] = IF q = r THEN s ELSE cvRequest[q]
  BY <1>1 DEF CvInv, CvRowsTyped
<1>4. RequestSound(r)'
  BY <1>2, <1>3 DEF RequestSound
<1>5. ASSUME ~cvOverlap' PROVE Calm'
  <2>1. Calm
    BY <1>1, <1>5, RequestIs
  <2>2. \A g \in Generations : Alive(g)' <=> Alive(g)
    BY <1>1 DEF Alive, Live
  <2>3. \A q \in CvRequests : Claimant(q)' <=> Claimant(q)
    BY <1>1, <1>2, <1>3 DEF Claimant
  <2>4. \A q \in CvRequests : cvRequest'[q].pc \in {"sync", "plan", "answer", "claim"} => Copy(q)' = cvSession'
    BY <1>1, <1>2, <1>3, <2>1 DEF Calm, Copy
  <2>5. Claimant(r)
    BY <1>1 DEF Claimant
  <2>6. \A g \in Generations : ~Alive(g)
    BY <1>1, <2>1, <2>5 DEF Calm
  <2> QED
    BY <1>1, <2>1, <2>2, <2>3, <2>4, <2>6 DEF Calm
<1> QED
  BY <1>1, <1>2, <1>4, <1>5, RequestIs, RequestMoves DEF Finished

LEMMA AssistantCreated ==
  ASSUME CvInv, NEW r \in CvRequests, NEW g \in Generations, CreateFromAssistant(r, g)
  PROVE  CvInv'
<1> DEFINE s == [cvRequest[r] EXCEPT !.pc = "link", !.made = g]
<1>1. /\ cvRequest[r].pc = "create" /\ generation[g].status = "NONE" /\ ~SessionTaken(g)
      /\ cvRequest' = [cvRequest EXCEPT ![r] = s]
      /\ UNCHANGED <<cvSession, editing, cvRequested, cvFaults, cvOverlap>>
  BY DEF CreateFromAssistant, Created
<1>2. PICK source \in Charges \union {"NONE"} :
        Charged(g, source, TRUE) /\ (source # "NONE" => source = ChargeSource)
  BY DEF CreateFromAssistant, Created, ChargeSource, Charges
<1> DEFINE row == [status |-> "PROCESSING", charge |-> source, refunded |-> FALSE, assisted |-> TRUE]
<1>3. row \in GenerationRows
  BY DEF GenerationRows
<1>4. generation' = [generation EXCEPT ![g] = row] /\ making' = [making EXCEPT ![g] = "running"]
  BY <1>2 DEF Charged
<1>5. /\ \A h \in Generations : GenerationSound(h)'
      /\ generation' \in [Generations -> GenerationRows]
      /\ making' \in [Generations -> {"none", "running", "failing"}]
      /\ generation'[g] = row /\ making'[g] = "running"
      /\ \A h \in Generations \ {g} : generation'[h] = generation[h] /\ making'[h] = making[h]
  BY <1>1, <1>3, <1>4, RowMoves
<1>6. CvLedger' /\ cvWallet' \in [Charges -> Nat]
  BY <1>1, <1>2, LedgerCharged
<1>7. s \in CvRequestStates /\ s.pc = "link" /\ s.made = g /\ s.status = "GENERATING"
  BY <1>1, RequestIs DEF CvRequestStates, RequestSound
<1> HIDE DEF s
<1>8. /\ \A q \in CvRequests : cvRequest'[q] = IF q = r THEN s ELSE cvRequest[q]
      /\ cvRequest' \in [CvRequests -> CvRequestStates]
  BY <1>1, <1>7 DEF CvInv, CvRowsTyped
<1>9. CvRowsTyped'
  BY <1>1, <1>5, <1>6, <1>8 DEF CvInv, CvRowsTyped
<1>10. \A m \in Generations \union {NoGeneration} : Finished(m) => Finished(m)'
  BY <1>1, <1>5 DEF Finished
<1>11. ASSUME NEW q \in CvRequests PROVE RequestSound(q)'
  <2>1. cvRequest[q].made \in Generations \union {NoGeneration} /\ RequestSound(q)
    BY RequestIs DEF CvRequestStates
  <2>2. CASE q = r
    BY <1>7, <1>8, <2>2 DEF RequestSound
  <2>3. CASE q # r
    BY <1>8, <1>10, <2>1, <2>3 DEF RequestSound
  <2> QED
    BY <2>2, <2>3
<1>12. cvSession'.status = "COMPLETED" => Finished(cvSession.made)'
  BY <1>1, <1>10, RequestIs
<1>13. ASSUME ~cvOverlap' PROVE Calm'
  <2>1. Calm /\ Claimant(r)
    BY <1>1, <1>13, RequestIs DEF Claimant
  <2>2. \A h \in Generations : ~Alive(h)
    BY <1>1, <2>1 DEF Calm
  <2>3. \A h \in Generations : Alive(h)' => h = g
    BY <1>5, <2>2 DEF Alive, Live
  <2>4. \A q \in CvRequests : (Claimant(q)' <=> Claimant(q)) /\ (Claimant(q) => q = r)
    BY <1>1, <1>7, <1>8, <2>1 DEF Claimant, Calm
  <2>5. \A q \in CvRequests : cvRequest'[q].pc \in {"sync", "plan", "answer", "claim"} => Copy(q)' = cvSession'
    BY <1>1, <1>7, <1>8, <2>1 DEF Calm, Copy
  <2>6. cvRequest'[r].pc = "link" /\ cvRequest'[r].made = g
    BY <1>7, <1>8
  <2> QED
    BY <1>1, <2>1, <2>3, <2>4, <2>5, <2>6 DEF Calm
<1> QED
  BY <1>5, <1>6, <1>9, <1>11, <1>12, <1>13 DEF CvInv

LEMMA CvRequestDied ==
  ASSUME CvInv, NEW r \in CvRequests, CvRequestDies(r)
  PROVE  CvInv'
<1>1. /\ cvFaults < MaxCvFaults /\ cvFaults' = cvFaults + 1 /\ cvOverlap' = TRUE
      /\ cvRequest' = [cvRequest EXCEPT ![r] = Away]
      /\ UNCHANGED <<cvSession, generation, cvWallet, editing, making, cvRequested>>
  BY DEF CvRequestDies
<1>2. cvRequest'[r] = Away
  BY <1>1 DEF CvInv, CvRowsTyped
<1>3. RequestSound(r)'
  BY <1>2, AwayTyped DEF RequestSound
<1>4. cvFaults' \in 0..MaxCvFaults
  BY <1>1, RequestIs, CvAssumption
<1> QED
  BY <1>1, <1>3, <1>4, AwayTyped, RequestIs, RequestMoves DEF Finished

LEMMA CvStep == CvInv /\ [CvNext]_cvVars => CvInv'
<1> SUFFICES ASSUME CvInv, [CvNext]_cvVars PROVE CvInv'
  OBVIOUS
<1>1. CASE UNCHANGED cvVars
  <2>1. UNCHANGED <<cvSession, generation, cvWallet, editing, making, cvRequest, cvRequested, cvFaults, cvOverlap>>
    BY <1>1 DEF cvVars
  <2>2. CvRowsTyped' /\ \A g \in Generations : GenerationSound(g)' /\ (Alive(g)' => Alive(g))
    BY <2>1 DEF CvInv, CvRowsTyped, GenerationSound, Live, SessionTaken, Alive
  <2>3. CvLedger'
    BY <2>1, LedgerStays
  <2> QED
    BY <2>1, <2>2, <2>3, GenerationMoves
<1>2. CASE CvNext
  <2>1. CASE \E g \in Generations, again \in BOOLEAN : CreateGeneration(g, again)
    BY <2>1, GenerationCreated
  <2>2. CASE \E g \in Generations :
               \/ DeleteGeneration(g) \/ CompleteGeneration(g) \/ CompletionUnanswered(g)
               \/ GenerationThrows(g) \/ MakerDies(g)
    BY <2>2, GenerationStatusMoves
  <2>3. CASE \E g \in Generations : FailGenerationAndRefund(g)
    BY <2>3, GenerationFailed
  <2>4. CASE \E r \in CvRequests, kind \in {"poll", "message", "generate"} : FindOwnedSession(r, kind)
    BY <2>4, SessionFound
  <2>5. CASE \E r \in CvRequests : SyncGenerationStatus(r)
    BY <2>5, SessionSynced
  <2>6. CASE \E r \in CvRequests : SaveBeforePlan(r) \/ \E ready \in BOOLEAN : ApplyTurnPlan(r, ready)
    BY <2>6, SessionPlanned
  <2>7. CASE \E r \in CvRequests : ClaimSession(r)
    BY <2>7, SessionClaimed
  <2>8. CASE \E r \in CvRequests, g \in Generations : CreateFromAssistant(r, g)
    BY <2>8, AssistantCreated
  <2>9. CASE \E r \in CvRequests : CreateThrows(r)
    BY <2>9, CreationThrew
  <2>10. CASE \E r \in CvRequests : RestoreSessionReadiness(r) \/ LinkGeneration(r)
    BY <2>10, SessionRestored
  <2>11. CASE \E r \in CvRequests : CvRequestDies(r)
    BY <2>11, CvRequestDied
  <2> QED
    BY <1>2, <2>1, <2>2, <2>3, <2>4, <2>5, <2>6, <2>7, <2>8, <2>9, <2>10, <2>11 DEF CvNext
<1> QED
  BY <1>1, <1>2

\* However requests, deletions, failures and crashes interleave, the wallet lost
\* exactly what generations cost and got back what failed ones did, a session has
\* one live generation, and requests that came one after the other show it
\* (createProcessingGeneration, failGenerationAndRefund, generateCv).
THEOREM CvChargesAreConsistent == CvSpec => []CvChargesConsistent
<1>1. CvSpec => []CvInv
  BY CvInitInv, CvStep, PTL DEF CvSpec
<1> QED
  BY <1>1, CvConsistent, PTL

-----------------------------------------------------------------------------
(* Live session summaries                                                      *)

OpenSessions == {s \in Sessions : status[s] \in Open}
Threw == {t \in Ticks : tpc[t] = "threw"}

LiveTyped == TypeOK /\ IsInjective(queue)

\* Every failure that was recorded or is about to be recorded was one.
FailuresCounted ==
  IsFiniteSet(Threw) /\ \A s \in Sessions : attempts[s] + Cardinality(Threw) <= faults

\* What a tick still knows of the session it has claimed, unless another tick
\* came to it or it was discarded.
TickKnows(t, s) ==
  /\ tRolling[t] = rolling[s]
  /\ tFinal[t] /\ ~late[s] => accepted[s] \subseteq tTranscript[t] \union tRolling[t]
TicksSound ==
  /\ \A t \in Ticks : tSession[t] = NoSession <=> tpc[t] \in {"idle", "batch"}
  /\ \A t \in Ticks, s \in Sessions :
       tSession[t] = s /\ ~overlapped[s] /\ status[s] # "failed" => TickKnows(t, s)
  /\ \A t, u \in Ticks, s \in Sessions :
       tSession[t] = s /\ tSession[u] = s /\ ~overlapped[s] => t = u

SummariesInv == LiveTyped /\ FailuresCounted /\ TicksSound /\ NothingForgotten /\ FinalSummaryIsWhole

\* The first occurrence is taken out of a sequence that has no other.
LEMMA RemoveOnce ==
  ASSUME NEW S, NEW q \in Seq(S), NEW e, IsInjective(q)
  PROVE  RemoveFirst(q, e) \in Seq(S \ {e}) /\ IsInjective(RemoveFirst(q, e))
<1>1. Len(q) \in Nat /\ DOMAIN q = 1..Len(q) /\ \A i \in 1..Len(q) : q[i] \in S
  BY LenProperties, ElementOfSeq
<1>2. CASE ~ \E i \in 1..Len(q) : q[i] = e
  <2>1. RemoveFirst(q, e) = q
    BY <1>2 DEF RemoveFirst
  <2>2. q \in Seq(S \ {e})
    BY <1>1, <1>2, SeqOfRange, SeqMonotonic, RangeOfSeq
  <2> QED
    BY <2>1, <2>2
<1>3. ASSUME NEW i \in 1..Len(q), q[i] = e
      PROVE  RemoveFirst(q, e) \in Seq(S \ {e}) /\ IsInjective(RemoveFirst(q, e))
  <2>1. \A j \in 1..Len(q) : q[j] = e <=> j = i
    BY <1>1, <1>3 DEF IsInjective
  <2>2. {j \in 1..Len(q) : q[j] = e} = {i}
    BY <2>1
  <2>3. Min({i}) = i
    BY DEF Min
  <2>4. RemoveFirst(q, e) = SubSeq(q, 1, i - 1) \o SubSeq(q, i + 1, Len(q))
    BY <1>3, <2>2, <2>3 DEF RemoveFirst, SelectInSeq, RemoveAt
  <2> DEFINE a == SubSeq(q, 1, i - 1)
             b == SubSeq(q, i + 1, Len(q))
  <2>5. /\ a \in Seq(S \ {e}) /\ Len(a) = i - 1 /\ \A j \in 1..i - 1 : a[j] = q[j]
    <3>1. \A j \in 1..(i - 1) : q[j] \in S \ {e}
      BY <1>1, <2>1
    <3> QED
      BY <1>1, <3>1, SubSeqProperties
  <2>6. /\ b \in Seq(S \ {e}) /\ Len(b) = Len(q) - i /\ \A j \in 1..Len(q) - i : b[j] = q[i + j]
    <3>1. \A j \in (i + 1)..Len(q) : q[j] \in S \ {e}
      BY <1>1, <2>1
    <3>2. /\ b \in Seq(S \ {e}) /\ Len(b) = (IF i + 1 <= Len(q) THEN Len(q) - (i + 1) + 1 ELSE 0)
          /\ \A j \in 1..(Len(q) - (i + 1) + 1) : b[j] = q[(i + 1) + j - 1]
      BY <1>1, <3>1, SubSeqProperties
    <3>3. Len(b) = Len(q) - i
      <4>1. Len(b) = (IF i + 1 <= Len(q) THEN Len(q) - (i + 1) + 1 ELSE 0) /\ Len(q) \in Nat
        BY <1>1, <3>2
      <4> HIDE DEF b
      <4> QED
        BY <4>1
    <3>4. ASSUME NEW j \in 1..Len(q) - i PROVE b[j] = q[i + j]
      <4>1. (i + 1) + j - 1 = i + j /\ j \in 1..(Len(q) - (i + 1) + 1)
        BY <1>1
      <4> QED
        BY <3>2, <4>1
    <3> QED
      BY <3>2, <3>3, <3>4
  <2> HIDE DEF a, b
  <2>7. /\ a \o b \in Seq(S \ {e}) /\ Len(a \o b) = Len(q) - 1
        /\ \A j \in 1..Len(q) - 1 : (a \o b)[j] = IF j < i THEN q[j] ELSE q[j + 1]
    <3>1. /\ a \o b \in Seq(S \ {e}) /\ Len(a \o b) = Len(a) + Len(b)
          /\ \A j \in 1..Len(a) + Len(b) : (a \o b)[j] = IF j <= Len(a) THEN a[j] ELSE b[j - Len(a)]
      BY <2>5, <2>6, ConcatProperties
    <3>2. ASSUME NEW j \in 1..Len(q) - 1 PROVE (a \o b)[j] = IF j < i THEN q[j] ELSE q[j + 1]
      <4>1. CASE j < i
        BY <1>1, <2>5, <2>6, <3>1, <4>1
      <4>2. CASE ~(j < i)
        <5>1. j - (i - 1) \in 1..Len(q) - i /\ i + (j - (i - 1)) = j + 1 /\ j \in 1..Len(a) + Len(b) /\ ~(j <= Len(a))
          BY <1>1, <2>5, <2>6, <4>2
        <5>2. (a \o b)[j] = b[j - (i - 1)]
          BY <2>5, <3>1, <5>1
        <5> QED
          BY <2>6, <4>2, <5>1, <5>2
      <4> QED
        BY <4>1, <4>2
    <3>3. Len(a) + Len(b) = Len(q) - 1
      BY <1>1, <2>5, <2>6
    <3> QED
      BY <3>1, <3>2, <3>3
  <2>8. DOMAIN (a \o b) = 1..Len(q) - 1
    BY <2>7, LenProperties
  <2>9. IsInjective(a \o b)
    <3> SUFFICES ASSUME NEW j \in 1..Len(q) - 1, NEW k \in 1..Len(q) - 1, (a \o b)[j] = (a \o b)[k] PROVE j = k
      BY <2>8 DEF IsInjective
    <3> DEFINE at(n) == IF n < i THEN n ELSE n + 1
    <3>1. /\ at(j) \in 1..Len(q) /\ (a \o b)[j] = q[at(j)]
          /\ at(k) \in 1..Len(q) /\ (a \o b)[k] = q[at(k)]
      BY <1>1, <2>7
    <3>2. at(j) = at(k)
      <4> HIDE DEF at
      <4> QED
        BY <1>1, <3>1 DEF IsInjective
    <3> QED
      BY <1>1, <3>2
  <2> QED
    BY <2>4, <2>7, <2>9 DEF a, b
<1> QED
  BY <1>2, <1>3

\* A session's row is written.
LEMMA TouchKeeps ==
  ASSUME LiveTyped, NEW s \in Sessions, NEW st \in Statuses, Touch(s, st)
  PROVE  /\ status' = [status EXCEPT ![s] = st] /\ status' \in [Sessions -> Statuses]
         /\ status'[s] = st /\ \A x \in Sessions \ {s} : status'[x] = status[x]
         /\ queue' \in Seq(OpenSessions') /\ IsInjective(queue')
<1> DEFINE others == RemoveFirst(queue, s)
<1>1. status \in [Sessions -> Statuses] /\ queue \in Seq(OpenSessions) /\ IsInjective(queue)
  BY DEF LiveTyped, TypeOK, OpenSessions
<1>2. status' = [status EXCEPT ![s] = st] /\ queue' = IF st \in Open THEN Append(others, s) ELSE others
  BY DEF Touch
<1>3. others \in Seq(OpenSessions \ {s}) /\ IsInjective(others)
  BY <1>1, RemoveOnce
<1> HIDE DEF others
<1>4. /\ status' \in [Sessions -> Statuses]
      /\ status'[s] = st /\ \A x \in Sessions \ {s} : status'[x] = status[x]
  BY <1>1, <1>2
<1>5. OpenSessions \ {s} \subseteq OpenSessions' /\ (st \in Open => s \in OpenSessions')
  BY <1>4 DEF OpenSessions
<1>6. others \in Seq(OpenSessions')
  BY <1>3, <1>5, SeqMonotonic
<1>7. CASE st \in Open
  <2>1. s \in OpenSessions' /\ queue' = Append(others, s)
    BY <1>2, <1>5, <1>7
  <2>2. /\ queue' \in Seq(OpenSessions') /\ Len(queue') = Len(others) + 1
        /\ \A i \in 1..Len(others) : queue'[i] = others[i] /\ others[i] # s
        /\ queue'[Len(others) + 1] = s
    BY <1>3, <1>6, <2>1, AppendProperties, ElementOfSeq
  <2>3. /\ Len(others) \in Nat /\ DOMAIN others = 1..Len(others) /\ DOMAIN queue' = 1..Len(queue')
    BY <1>6, <2>2, LenProperties
  <2>4. IsInjective(queue')
    <3> SUFFICES ASSUME NEW i \in 1..Len(others) + 1, NEW j \in 1..Len(others) + 1, queue'[i] = queue'[j]
                 PROVE  i = j
      BY <2>2, <2>3 DEF IsInjective
    <3>1. CASE i = Len(others) + 1 \/ j = Len(others) + 1
      BY <2>2, <2>3, <3>1
    <3>2. CASE i \in 1..Len(others) /\ j \in 1..Len(others)
      BY <1>3, <2>2, <2>3, <3>2 DEF IsInjective
    <3> QED
      BY <2>3, <3>1, <3>2
  <2> QED
    BY <1>2, <1>4, <2>2, <2>4
<1>8. CASE st \notin Open
  BY <1>2, <1>3, <1>4, <1>6, <1>8
<1> QED
  BY <1>7, <1>8

\* A write of a row that nothing is said of.
LEMMA QueueKeeps ==
  ASSUME LiveTyped, UNCHANGED <<status, queue>>
  PROVE  status' \in [Sessions -> Statuses] /\ queue' \in Seq(OpenSessions') /\ IsInjective(queue')
<1>1. OpenSessions' = OpenSessions
  BY DEF OpenSessions
<1> QED
  BY <1>1 DEF LiveTyped, TypeOK, OpenSessions

\* Nothing has happened yet.
LEMMA LiveInitInv == Init => SummariesInv
<1> SUFFICES ASSUME Init PROVE SummariesInv
  OBVIOUS
<1>1. LiveTyped
  <2>1. queue \in Seq(OpenSessions) /\ IsInjective(queue)
    BY EmptySeq DEF Init, IsInjective
  <2> QED
    BY <2>1, LiveAssumption DEF Init, LiveTyped, TypeOK, OpenSessions, Statuses, TickSteps
<1>2. FailuresCounted
  <2>1. Threw = {}
    BY DEF Init, Threw
  <2> QED
    BY <2>1, FS_EmptySet DEF Init, FailuresCounted
<1>3. TicksSound
  BY LiveAssumption DEF Init, TicksSound
<1>4. NothingForgotten /\ FinalSummaryIsWhole
  BY DEF Init, NothingForgotten, FinalSummaryIsWhole
<1> QED
  BY <1>1, <1>2, <1>3, <1>4 DEF SummariesInv

\* A step of the client, the user or of time about one session.
LEMMA SessionMoves ==
  ASSUME SummariesInv, NEW s \in Sessions, UNCHANGED <<tickVars, attempts, rolling, final, overlapped>>,
         status' \in [Sessions -> Statuses], \A x \in Sessions \ {s} : status'[x] = status[x],
         queue' \in Seq(OpenSessions'), IsInjective(queue'),
         lease' \in [Sessions -> {"free", "short", "long"}],
         pending' \in [Sessions -> SUBSET Events], accepted' \in [Sessions -> SUBSET Events],
         \A x \in Sessions \ {s} : pending'[x] = pending[x] /\ accepted'[x] = accepted[x] /\ late'[x] = late[x],
         recent' \in [Sessions -> BOOLEAN], consent' \in [Sessions -> BOOLEAN], late' \in [Sessions -> BOOLEAN],
         faults' \in {faults, faults + 1}, faults' <= MaxFaults,
         status'[s] # "failed" => /\ status[s] # "failed"
                                  /\ pending[s] \subseteq pending'[s]
                                  /\ accepted'[s] \subseteq accepted[s] \union pending'[s]
                                  /\ (\E t \in Ticks : tSession[t] = s /\ tFinal[t]) /\ ~late'[s] =>
                                       accepted'[s] = accepted[s] /\ ~late[s],
         status'[s] = "completed" => status[s] = "completed" /\ accepted'[s] = accepted[s] /\ late'[s] = late[s]
  PROVE  SummariesInv'
<1>t. LiveTyped /\ FailuresCounted /\ TicksSound /\ NothingForgotten /\ FinalSummaryIsWhole
  BY DEF SummariesInv
<1>f. faults \in Nat /\ faults' \in 0..MaxFaults /\ MaxFaults \in Nat
  BY <1>t, LiveAssumption DEF LiveTyped, TypeOK
<1>1. LiveTyped'
  BY <1>t, <1>f DEF LiveTyped, TypeOK, tickVars, OpenSessions
<1>2. FailuresCounted'
  <2>1. Threw' = Threw
    BY DEF Threw, tickVars
  <2>2. Cardinality(Threw) \in Nat
    BY <1>t, FS_CardinalityType DEF FailuresCounted
  <2> QED
    BY <1>t, <1>f, <2>1, <2>2 DEF FailuresCounted, LiveTyped, TypeOK
<1>3. TicksSound'
  <2>1. ASSUME NEW t \in Ticks, NEW x \in Sessions, tSession[t] = x, ~overlapped[x], status'[x] # "failed"
        PROVE  TickKnows(t, x)'
    <3>1. CASE x = s
      BY <1>t, <2>1, <3>1 DEF TicksSound, TickKnows, tickVars
    <3>2. CASE x # s
      BY <1>t, <2>1, <3>2 DEF TicksSound, TickKnows, tickVars
    <3> QED
      BY <3>1, <3>2
  <2> QED
    BY <1>t, <2>1 DEF TicksSound, tickVars
<1>4. NothingForgotten'
  <2> SUFFICES ASSUME NEW x \in Sessions, status'[x] # "failed", ~overlapped[x]
               PROVE  accepted'[x] \subseteq pending'[x] \union rolling[x]
    BY DEF NothingForgotten
  <2> QED
    BY <1>t DEF NothingForgotten
<1>5. FinalSummaryIsWhole'
  BY <1>t DEF FinalSummaryIsWhole
<1> QED
  BY <1>1, <1>2, <1>3, <1>4, <1>5 DEF SummariesInv

\* The client, the user and time.
LEMMA SessionStepInv ==
  ASSUME SummariesInv, NEW s \in Sessions,
         \/ Create(s) \/ Heartbeat(s) \/ MarkForFinalSummary(s)
         \/ WithdrawConsent(s) \/ RevokeSession(s) \/ TwoMinutesPass(s) \/ LeaseEnds(s)
         \/ \E e \in Events : RecordEvent(s, e)
  PROVE  SummariesInv'
<1>t. LiveTyped /\ TypeOK /\ status[s] \in Statuses /\ faults \in Nat /\ MaxFaults \in Nat /\ faults <= MaxFaults
  BY LiveAssumption DEF SummariesInv, LiveTyped, TypeOK
<1>s. "active" \in Statuses /\ "finalizing" \in Statuses /\ "failed" \in Statuses
  BY DEF Statuses
<1>1. CASE Create(s) \/ Heartbeat(s)
  <2>1. /\ Touch(s, "active") /\ status[s] \in {"none", "active"}
        /\ UNCHANGED <<lease, pending, accepted, attempts, rolling, final, recent, consent, tickVars, late,
                       overlapped, faults>>
    BY <1>1 DEF Create, Heartbeat, historyVars
  <2>2. /\ status' \in [Sessions -> Statuses] /\ status'[s] = "active"
        /\ \A x \in Sessions \ {s} : status'[x] = status[x]
        /\ queue' \in Seq(OpenSessions') /\ IsInjective(queue')
    BY <1>t, <1>s, <2>1, TouchKeeps
  <2> QED
    BY <1>t, <2>1, <2>2, SessionMoves DEF TypeOK
<1>2. CASE MarkForFinalSummary(s)
  <2>1. /\ Touch(s, "finalizing") /\ status[s] = "active" /\ lease' = [lease EXCEPT ![s] = "short"]
        /\ recent' = [recent EXCEPT ![s] = TRUE]
        /\ UNCHANGED <<pending, accepted, attempts, rolling, final, consent, tickVars, late, overlapped, faults>>
    BY <1>2 DEF MarkForFinalSummary, historyVars
  <2>2. /\ status' \in [Sessions -> Statuses] /\ status'[s] = "finalizing"
        /\ \A x \in Sessions \ {s} : status'[x] = status[x]
        /\ queue' \in Seq(OpenSessions') /\ IsInjective(queue')
    BY <1>t, <1>s, <2>1, TouchKeeps
  <2>3. lease' \in [Sessions -> {"free", "short", "long"}] /\ recent' \in [Sessions -> BOOLEAN]
    BY <1>t, <2>1 DEF TypeOK
  <2> QED
    BY <1>t, <2>1, <2>2, <2>3, SessionMoves DEF TypeOK
<1>3. CASE WithdrawConsent(s) \/ TwoMinutesPass(s) \/ LeaseEnds(s)
  <2>1. /\ UNCHANGED <<status, queue, pending, accepted, attempts, rolling, final, tickVars, late, overlapped>>
        /\ faults' \in {faults, faults + 1} /\ faults' <= MaxFaults
    BY <1>t, <1>3 DEF WithdrawConsent, TwoMinutesPass, LeaseEnds, Fault, sessionVars, historyVars
  <2>2. /\ lease' \in [Sessions -> {"free", "short", "long"}] /\ recent' \in [Sessions -> BOOLEAN]
        /\ consent' \in [Sessions -> BOOLEAN]
    BY <1>t, <1>3 DEF WithdrawConsent, TwoMinutesPass, LeaseEnds, TypeOK, sessionVars
  <2>3. status' \in [Sessions -> Statuses] /\ queue' \in Seq(OpenSessions') /\ IsInjective(queue')
    BY <1>t, <2>1, QueueKeeps
  <2> QED
    BY <1>t, <2>1, <2>2, <2>3, SessionMoves DEF TypeOK
<1>4. CASE RevokeSession(s)
  <2>1. /\ Touch(s, "failed") /\ lease' = [lease EXCEPT ![s] = "free"] /\ pending' = [pending EXCEPT ![s] = {}]
        /\ UNCHANGED <<accepted, attempts, rolling, final, recent, consent, tickVars, late, overlapped, faults>>
    BY <1>4 DEF RevokeSession, Discard, historyVars
  <2>2. /\ status' \in [Sessions -> Statuses] /\ status'[s] = "failed"
        /\ \A x \in Sessions \ {s} : status'[x] = status[x]
        /\ queue' \in Seq(OpenSessions') /\ IsInjective(queue')
    BY <1>t, <1>s, <2>1, TouchKeeps
  <2>3. /\ lease' \in [Sessions -> {"free", "short", "long"}] /\ pending' \in [Sessions -> SUBSET Events]
        /\ \A x \in Sessions \ {s} : pending'[x] = pending[x]
    BY <1>t, <2>1 DEF TypeOK
  <2> QED
    BY <1>t, <2>1, <2>2, <2>3, SessionMoves DEF TypeOK
<1>5. ASSUME NEW e \in Events, RecordEvent(s, e) PROVE SummariesInv'
  <2>1. /\ Touch(s, status[s]) /\ status[s] \in {"active", "finalizing"}
        /\ accepted' = [accepted EXCEPT ![s] = @ \union {e}]
        /\ pending' = [pending EXCEPT ![s] = IF e \in accepted[s] THEN @ ELSE @ \union {e}]
        /\ lease' = [lease EXCEPT ![s] = IF status[s] = "finalizing" THEN "short" ELSE @]
        /\ late' = [late EXCEPT ![s] = @ \/ (e \notin accepted[s] /\ \E t \in On(s) : tFinal[t])]
        /\ UNCHANGED <<attempts, rolling, final, recent, consent, tickVars, overlapped, faults>>
    BY <1>5 DEF RecordEvent
  <2>2. /\ status' \in [Sessions -> Statuses] /\ status'[s] = status[s]
        /\ \A x \in Sessions \ {s} : status'[x] = status[x]
        /\ queue' \in Seq(OpenSessions') /\ IsInjective(queue')
    BY <1>t, <2>1, TouchKeeps
  <2>3. /\ accepted' \in [Sessions -> SUBSET Events] /\ pending' \in [Sessions -> SUBSET Events]
        /\ accepted'[s] = accepted[s] \union {e} /\ pending[s] \subseteq pending'[s]
        /\ e \notin accepted[s] => e \in pending'[s]
        /\ \A x \in Sessions \ {s} : accepted'[x] = accepted[x] /\ pending'[x] = pending[x]
    BY <1>t, <2>1 DEF TypeOK
  <2>4. lease' \in [Sessions -> {"free", "short", "long"}]
    BY <1>t, <2>1 DEF TypeOK
  <2>5. /\ late' \in [Sessions -> BOOLEAN] /\ \A x \in Sessions \ {s} : late'[x] = late[x]
        /\ ~late'[s] => ~late[s] /\ (e \in accepted[s] \/ ~ \E t \in Ticks : tSession[t] = s /\ tFinal[t])
    <3>1. late \in [Sessions -> BOOLEAN] /\ (\E t \in On(s) : tFinal[t]) \in BOOLEAN
      BY <1>t DEF TypeOK
    <3> QED
      BY <2>1, <3>1 DEF On
  <2> QED
    <3>1. /\ status'[s] # "failed" => /\ status[s] # "failed"
                                      /\ pending[s] \subseteq pending'[s]
                                      /\ accepted'[s] \subseteq accepted[s] \union pending'[s]
                                      /\ (\E t \in Ticks : tSession[t] = s /\ tFinal[t]) /\ ~late'[s] =>
                                           accepted'[s] = accepted[s] /\ ~late[s]
          /\ status'[s] # "completed"
      BY <2>1, <2>2, <2>3, <2>5
    <3>2. recent' \in [Sessions -> BOOLEAN] /\ consent' \in [Sessions -> BOOLEAN]
      BY <1>t, <2>1 DEF TypeOK
    <3>3. UNCHANGED <<tickVars, attempts, rolling, final, overlapped>> /\ faults' \in {faults, faults + 1} /\ faults' <= MaxFaults
      BY <1>t, <2>1
    <3> QED
      BY <2>2, <2>3, <2>4, <2>5, <3>1, <3>2, <3>3, SessionMoves
<1> QED
  BY <1>1, <1>2, <1>3, <1>4, <1>5

\* A step of a tick that claims nothing: it keeps its session as it was, or
\* leaves it.
LEMMA TickMoves ==
  ASSUME SummariesInv, NEW t \in Ticks,
         tpc' \in [Ticks -> TickSteps], tBatch' \in [Ticks -> SUBSET Sessions],
         tSession' \in [Ticks -> Sessions \union {NoSession}], tFinal' \in [Ticks -> BOOLEAN],
         tTranscript' \in [Ticks -> SUBSET Events], tRolling' \in [Ticks -> SUBSET Events],
         \A u \in Ticks \ {t} : /\ tpc'[u] = tpc[u] /\ tSession'[u] = tSession[u] /\ tFinal'[u] = tFinal[u]
                                /\ tTranscript'[u] = tTranscript[u] /\ tRolling'[u] = tRolling[u],
         tSession'[t] = NoSession <=> tpc'[t] \in {"idle", "batch"},
         tSession'[t] # NoSession => /\ tSession'[t] = tSession[t] /\ tFinal'[t] = tFinal[t] /\ rolling' = rolling
                                     /\ tTranscript'[t] = tTranscript[t] /\ tRolling'[t] = tRolling[t],
         UNCHANGED <<accepted, recent, consent, late, overlapped>>,
         status' \in [Sessions -> Statuses], queue' \in Seq(OpenSessions'), IsInjective(queue'),
         lease' \in [Sessions -> {"free", "short", "long"}],
         pending' \in [Sessions -> SUBSET Events], attempts' \in [Sessions -> Nat],
         rolling' \in [Sessions -> SUBSET Events], final' \in [Sessions -> SUBSET Events],
         \A x \in Sessions : tSession[t] # x => /\ status'[x] = status[x] /\ pending'[x] = pending[x]
                                                /\ rolling'[x] = rolling[x] /\ final'[x] = final[x],
         \A x \in Sessions : status'[x] # "failed" =>
           status[x] # "failed" /\ (~overlapped[x] => pending[x] \union rolling[x] \subseteq pending'[x] \union rolling'[x]),
         \A x \in Sessions : tSession[t] = x /\ status'[x] = "completed" /\ ~overlapped[x] /\ ~late[x] =>
           accepted[x] \subseteq final'[x],
         faults' \in {faults, faults + 1}, faults' <= MaxFaults,
         tpc'[t] = "threw" => tpc[t] # "threw" /\ faults' = faults + 1 /\ attempts' = attempts,
         \A x \in Sessions : \/ attempts'[x] \in {0, attempts[x]}
                             \/ tpc[t] = "threw" /\ tpc'[t] # "threw" /\ attempts'[x] = attempts[x] + 1
  PROVE  SummariesInv'
<1>t. LiveTyped /\ FailuresCounted /\ TicksSound /\ NothingForgotten /\ FinalSummaryIsWhole /\ TypeOK
  BY DEF SummariesInv, LiveTyped
<1>f. /\ faults \in Nat /\ faults' \in 0..MaxFaults /\ MaxFaults \in Nat
      /\ \A x \in Sessions : attempts[x] \in Nat /\ attempts'[x] \in Nat
  BY <1>t, LiveAssumption DEF TypeOK
<1>2. FailuresCounted'
  <2>1. IsFiniteSet(Threw) /\ Cardinality(Threw) \in Nat
    BY <1>t, FS_CardinalityType DEF FailuresCounted
  <2>2. CASE tpc'[t] = "threw"
    <3>1. Threw' = Threw \union {t} /\ t \notin Threw
      BY <2>2 DEF Threw
    <3>2. IsFiniteSet(Threw') /\ Cardinality(Threw') = Cardinality(Threw) + 1
      BY <2>1, <3>1, FS_AddElement
    <3>3. faults' = faults + 1 /\ attempts' = attempts
      BY <2>2
    <3> QED
      BY <1>t, <1>f, <2>1, <3>2, <3>3 DEF FailuresCounted
  <2>3. CASE tpc'[t] # "threw"
    <3>1. Threw' = Threw \ {t} /\ (tpc[t] = "threw" <=> t \in Threw)
      BY <2>3 DEF Threw
    <3>2. IsFiniteSet(Threw') /\ Cardinality(Threw') = Cardinality(Threw) - (IF t \in Threw THEN 1 ELSE 0)
      BY <2>1, <3>1, FS_RemoveElement
    <3>3. ASSUME NEW x \in Sessions PROVE attempts'[x] + Cardinality(Threw') <= faults'
      <4>1. PICK n \in Nat, m \in Nat, a \in Nat, b \in Nat :
              n = Cardinality(Threw) /\ m = Cardinality(Threw') /\ a = attempts[x] /\ b = attempts'[x]
        BY <1>f, <2>1, <3>2, FS_CardinalityType
      <4>2. a + n <= faults
        BY <1>t, <4>1 DEF FailuresCounted
      <4>3. m = (IF t \in Threw THEN n - 1 ELSE n) /\ (t \notin Threw => b \in {0, a}) /\ b \in {0, a, a + 1}
        BY <2>1, <3>1, <3>2, <4>1
      <4>4. b + m <= faults'
        BY <1>f, <4>1, <4>2, <4>3, SMTT(30)
      <4> QED
        BY <4>1, <4>4
    <3> QED
      BY <3>2, <3>3 DEF FailuresCounted
  <2> QED
    BY <2>2, <2>3
<1>1. LiveTyped'
  <2>1. attempts' \in [Sessions -> 0..MaxFaults]
    <3>1. Cardinality(Threw') \in Nat
      BY <1>2, FS_CardinalityType DEF FailuresCounted
    <3>2. \A x \in Sessions : attempts'[x] \in 0..MaxFaults
      BY <1>f, <1>2, <3>1 DEF FailuresCounted
    <3> QED
      BY <3>2
  <2> QED
    BY <1>t, <1>f, <2>1 DEF LiveTyped, TypeOK, OpenSessions
<1>3. TicksSound'
  <2>1. ASSUME NEW u \in Ticks, NEW x \in Sessions, tSession'[u] = x, ~overlapped[x], status'[x] # "failed"
        PROVE  TickKnows(u, x)'
    <3>1. tSession[u] = x /\ x # NoSession
      BY <2>1, LiveAssumption
    <3>2. TickKnows(u, x)
      BY <1>t, <2>1, <3>1 DEF TicksSound
    <3>3. CASE u = t
      BY <2>1, <3>1, <3>2, <3>3 DEF TickKnows
    <3>4. CASE u # t
      <4>1. tSession[t] # x
        BY <1>t, <2>1, <3>1, <3>4 DEF TicksSound
      <4> QED
        BY <2>1, <3>2, <3>4, <4>1 DEF TickKnows
    <3> QED
      BY <3>3, <3>4
  <2>2. ASSUME NEW u \in Ticks, NEW v \in Ticks, NEW x \in Sessions, tSession'[u] = x, tSession'[v] = x, ~overlapped[x]
        PROVE  u = v
    <3>1. tSession[u] = x /\ tSession[v] = x
      BY <2>2, LiveAssumption
    <3>2. TicksSound
      BY <1>t
    <3>3. \A y, z \in Ticks, w \in Sessions : tSession[y] = w /\ tSession[z] = w /\ ~overlapped[w] => y = z
      BY <3>2 DEF TicksSound
    <3> QED
      BY <2>2, <3>1, <3>3
  <2>3. \A u \in Ticks : tSession'[u] = NoSession <=> tpc'[u] \in {"idle", "batch"}
    BY <1>t DEF TicksSound
  <2> QED
    BY <2>1, <2>2, <2>3 DEF TicksSound
<1>4. NothingForgotten'
  BY <1>t DEF NothingForgotten
<1>5. FinalSummaryIsWhole'
  <2> SUFFICES ASSUME NEW x \in Sessions, status'[x] = "completed", ~overlapped[x], ~late[x]
               PROVE  accepted[x] \subseteq final'[x]
    BY DEF FinalSummaryIsWhole
  <2>1. CASE tSession[t] = x
    BY <2>1
  <2>2. CASE tSession[t] # x
    BY <1>t, <2>2 DEF FinalSummaryIsWhole
  <2> QED
    BY <2>1, <2>2
<1> QED
  BY <1>1, <1>2, <1>3, <1>4, <1>5 DEF SummariesInv

\* A tick takes a session that is due.
LEMMA ClaimInv ==
  ASSUME SummariesInv, NEW t \in Ticks, NEW s \in Sessions, Claim(t, s), lease[s] = "free", status[s] \in Open
  PROVE  SummariesInv'
<1>t. LiveTyped /\ FailuresCounted /\ TicksSound /\ NothingForgotten /\ FinalSummaryIsWhole /\ TypeOK
      /\ status[s] \in Statuses
  BY DEF SummariesInv, LiveTyped, TypeOK
<1>u. /\ tpc[t] = "batch" /\ lease' = [lease EXCEPT ![s] = "long"] /\ Touch(s, status[s])
      /\ tpc' = [tpc EXCEPT ![t] = "claimed"] /\ tSession' = [tSession EXCEPT ![t] = s]
      /\ tFinal' = [tFinal EXCEPT ![t] = status[s] = "finalizing"]
      /\ tTranscript' = [tTranscript EXCEPT ![t] = pending[s]] /\ tRolling' = [tRolling EXCEPT ![t] = rolling[s]]
      /\ overlapped' = [overlapped EXCEPT ![s] = @ \/ On(s) # {}]
      /\ tBatch' = [tBatch EXCEPT ![t] = @ \ {s}]
      /\ UNCHANGED <<pending, accepted, attempts, rolling, final, recent, consent, late, faults>>
  BY DEF Claim
<1>s. /\ status' \in [Sessions -> Statuses] /\ \A x \in Sessions : status'[x] = status[x]
      /\ queue' \in Seq(OpenSessions') /\ IsInjective(queue')
  BY <1>t, <1>u, TouchKeeps
<1>k. /\ tpc' \in [Ticks -> TickSteps] /\ tSession' \in [Ticks -> Sessions \union {NoSession}]
      /\ tpc'[t] = "claimed" /\ tSession'[t] = s /\ tTranscript'[t] = pending[s] /\ tRolling'[t] = rolling[s]
      /\ \A u \in Ticks \ {t} : /\ tpc'[u] = tpc[u] /\ tSession'[u] = tSession[u] /\ tFinal'[u] = tFinal[u]
                                /\ tTranscript'[u] = tTranscript[u] /\ tRolling'[u] = tRolling[u]
  BY <1>t, <1>u DEF TypeOK, TickSteps
<1>o. /\ overlapped' \in [Sessions -> BOOLEAN] /\ \A x \in Sessions \ {s} : overlapped'[x] = overlapped[x]
      /\ ~overlapped'[s] => ~overlapped[s] /\ \A u \in Ticks : tSession[u] # s
  <2>1. overlapped \in [Sessions -> BOOLEAN] /\ (On(s) # {}) \in BOOLEAN
    BY <1>t DEF TypeOK
  <2> QED
    BY <1>u, <2>1 DEF On
<1>1. LiveTyped'
  <2>1. /\ tBatch' \in [Ticks -> SUBSET Sessions] /\ tTranscript' \in [Ticks -> SUBSET Events]
        /\ tRolling' \in [Ticks -> SUBSET Events] /\ lease' \in [Sessions -> {"free", "short", "long"}]
    BY <1>t, <1>u DEF TypeOK
  <2>2. tFinal' \in [Ticks -> BOOLEAN]
    BY <1>t, <1>u DEF TypeOK
  <2> QED
    BY <1>t, <1>u, <1>s, <1>k, <1>o, <2>1, <2>2 DEF LiveTyped, TypeOK, OpenSessions
<1>2. FailuresCounted'
  <2>1. Threw' = Threw
    BY <1>u, <1>k DEF Threw
  <2> QED
    BY <1>t, <1>u, <2>1 DEF FailuresCounted
<1>3. TicksSound'
  <2>1. ASSUME NEW u \in Ticks, NEW x \in Sessions, tSession'[u] = x, ~overlapped'[x], status'[x] # "failed"
        PROVE  TickKnows(u, x)'
    <3>1. CASE u = t
      <4>1. x = s /\ status[s] # "failed" /\ ~overlapped[s]
        BY <1>s, <1>k, <1>o, <2>1, <3>1
      <4>2. accepted[s] \subseteq pending[s] \union rolling[s]
        BY <1>t, <4>1 DEF NothingForgotten
      <4> QED
        BY <1>u, <1>k, <3>1, <4>1, <4>2 DEF TickKnows
    <3>2. CASE u # t
      <4>1. tSession[u] = x /\ ~overlapped[x] /\ status[x] # "failed"
        BY <1>s, <1>k, <1>o, <2>1, <3>2
      <4>2. TickKnows(u, x)
        BY <1>t, <4>1 DEF TicksSound
      <4> QED
        BY <1>u, <1>k, <3>2, <4>2 DEF TickKnows
    <3> QED
      BY <3>1, <3>2
  <2>2. ASSUME NEW u \in Ticks, NEW v \in Ticks, NEW x \in Sessions, tSession'[u] = x, tSession'[v] = x, ~overlapped'[x]
        PROVE  u = v
    <3>1. CASE u # t /\ v # t
      BY <1>t, <1>k, <1>o, <2>2, <3>1 DEF TicksSound
    <3>2. CASE x = s
      BY <1>k, <1>o, <2>2, <3>2
    <3>3. CASE x # s
      BY <1>k, <2>2, <3>1, <3>3
    <3> QED
      BY <3>2, <3>3
  <2>3. \A u \in Ticks : tSession'[u] = NoSession <=> tpc'[u] \in {"idle", "batch"}
    BY <1>t, <1>k, LiveAssumption DEF TicksSound
  <2> QED
    BY <2>1, <2>2, <2>3 DEF TicksSound
<1>4. NothingForgotten' /\ FinalSummaryIsWhole'
  BY <1>t, <1>u, <1>s, <1>o DEF NothingForgotten, FinalSummaryIsWhole
<1> QED
  BY <1>1, <1>2, <1>3, <1>4 DEF SummariesInv

\* A tick that leaves its session.
LEMMA GoesOnTyped ==
  ASSUME TypeOK, NEW t \in Ticks, GoOn(t)
  PROVE  /\ tpc' \in [Ticks -> TickSteps] /\ tBatch' \in [Ticks -> SUBSET Sessions]
         /\ tSession' \in [Ticks -> Sessions \union {NoSession}] /\ tFinal' \in [Ticks -> BOOLEAN]
         /\ tTranscript' \in [Ticks -> SUBSET Events] /\ tRolling' \in [Ticks -> SUBSET Events]
         /\ \A u \in Ticks \ {t} : /\ tpc'[u] = tpc[u] /\ tSession'[u] = tSession[u] /\ tFinal'[u] = tFinal[u]
                                   /\ tTranscript'[u] = tTranscript[u] /\ tRolling'[u] = tRolling[u]
         /\ tSession'[t] = NoSession /\ tpc'[t] \in {"idle", "batch"}
<1>1. (IF tBatch[t] = {} THEN "idle" ELSE "batch") \in {"idle", "batch"} /\ {"idle", "batch"} \subseteq TickSteps
  BY DEF TickSteps
<1> QED
  BY <1>1 DEF TypeOK, GoOn

\* A tick that takes the next step on the same session.
LEMMA ProceedsTyped ==
  ASSUME SummariesInv, NEW t \in Ticks, NEW step \in {"summarizing", "writing", "threw"}, Proceed(t, step),
         tpc[t] \notin {"idle", "batch"}
  PROVE  /\ tpc' \in [Ticks -> TickSteps] /\ tBatch' \in [Ticks -> SUBSET Sessions]
         /\ tSession' \in [Ticks -> Sessions \union {NoSession}] /\ tFinal' \in [Ticks -> BOOLEAN]
         /\ tTranscript' \in [Ticks -> SUBSET Events] /\ tRolling' \in [Ticks -> SUBSET Events]
         /\ \A u \in Ticks \ {t} : /\ tpc'[u] = tpc[u] /\ tSession'[u] = tSession[u] /\ tFinal'[u] = tFinal[u]
                                   /\ tTranscript'[u] = tTranscript[u] /\ tRolling'[u] = tRolling[u]
         /\ tpc'[t] = step /\ tSession'[t] # NoSession /\ tSession'[t] = tSession[t] /\ tFinal'[t] = tFinal[t]
         /\ tTranscript'[t] = tTranscript[t] /\ tRolling'[t] = tRolling[t]
<1>1. TypeOK /\ TicksSound
  BY DEF SummariesInv, LiveTyped
<1> QED
  BY <1>1 DEF TypeOK, TickSteps, TicksSound, Proceed

\* A step of a tick that writes nothing.
LEMMA TickOnlyMoves ==
  ASSUME SummariesInv, NEW t \in Ticks, UNCHANGED <<sessionVars, consent, historyVars>>,
         tpc' \in [Ticks -> TickSteps], tBatch' \in [Ticks -> SUBSET Sessions],
         tSession' \in [Ticks -> Sessions \union {NoSession}], tFinal' \in [Ticks -> BOOLEAN],
         tTranscript' \in [Ticks -> SUBSET Events], tRolling' \in [Ticks -> SUBSET Events],
         \A u \in Ticks \ {t} : /\ tpc'[u] = tpc[u] /\ tSession'[u] = tSession[u] /\ tFinal'[u] = tFinal[u]
                                /\ tTranscript'[u] = tTranscript[u] /\ tRolling'[u] = tRolling[u],
         tSession'[t] = NoSession <=> tpc'[t] \in {"idle", "batch"},
         tSession'[t] # NoSession => /\ tSession'[t] = tSession[t] /\ tFinal'[t] = tFinal[t]
                                     /\ tTranscript'[t] = tTranscript[t] /\ tRolling'[t] = tRolling[t],
         faults' \in {faults, faults + 1}, faults' <= MaxFaults,
         tpc'[t] = "threw" => tpc[t] # "threw" /\ faults' = faults + 1
  PROVE  SummariesInv'
<1>t. TypeOK /\ LiveTyped /\ FinalSummaryIsWhole
  BY DEF SummariesInv, LiveTyped
<1>u. UNCHANGED <<status, queue, lease, pending, accepted, attempts, rolling, final, recent, consent, late, overlapped>>
  BY DEF sessionVars, historyVars
<1>1. status' \in [Sessions -> Statuses] /\ queue' \in Seq(OpenSessions') /\ IsInjective(queue')
  BY <1>t, <1>u, QueueKeeps
<1>2. /\ lease' \in [Sessions -> {"free", "short", "long"}]
      /\ pending' \in [Sessions -> SUBSET Events] /\ attempts' \in [Sessions -> Nat]
      /\ rolling' \in [Sessions -> SUBSET Events] /\ final' \in [Sessions -> SUBSET Events]
  BY <1>t, <1>u, LiveAssumption DEF TypeOK
<1>3. \A x \in Sessions : tSession[t] = x /\ status'[x] = "completed" /\ ~overlapped[x] /\ ~late[x] =>
         accepted[x] \subseteq final'[x]
  BY <1>t, <1>u DEF FinalSummaryIsWhole
<1>4. /\ \A x \in Sessions : status'[x] # "failed" =>
           status[x] # "failed" /\ (~overlapped[x] => pending[x] \union rolling[x] \subseteq pending'[x] \union rolling'[x])
      /\ \A x \in Sessions : tSession[t] # x => /\ status'[x] = status[x] /\ pending'[x] = pending[x]
                                                /\ rolling'[x] = rolling[x] /\ final'[x] = final[x]
  BY <1>u
<1>5. \A x \in Sessions : \/ attempts'[x] \in {0, attempts[x]}
                          \/ tpc[t] = "threw" /\ tpc'[t] # "threw" /\ attempts'[x] = attempts[x] + 1
  BY <1>u
<1> QED
  BY <1>u, <1>1, <1>2, <1>3, <1>4, <1>5, TickMoves

\* Ticks between two writes.
LEMMA TickReadsInv ==
  ASSUME SummariesInv, NEW t \in Ticks,
         \/ ReadBatch(t) \/ Summarize(t) \/ Throw(t) \/ Crash(t)
         \/ \E s \in Sessions : Claim(t, s) /\ ~(lease[s] = "free" /\ status[s] \in Open)
  PROVE  SummariesInv'
<1>t. /\ TypeOK /\ TicksSound /\ faults \in Nat /\ MaxFaults \in Nat /\ faults <= MaxFaults
      /\ {"idle", "batch", "claimed", "writing"} \subseteq TickSteps
      /\ \A u \in Ticks : tSession[u] = NoSession <=> tpc[u] \in {"idle", "batch"}
  BY LiveAssumption DEF SummariesInv, LiveTyped, TypeOK, TickSteps, TicksSound
<1>1. CASE ReadBatch(t)
  <2>1. PICK b : tBatch' = [tBatch EXCEPT ![t] = b]
                 /\ b \subseteq {queue[i] : i \in {j \in DOMAIN queue : j <= BatchSize}}
    BY <1>1 DEF ReadBatch
  <2>2. b \subseteq Sessions
    <3>1. queue \in Seq(OpenSessions)
      BY <1>t DEF TypeOK, OpenSessions
    <3>2. \A i \in DOMAIN queue : queue[i] \in Sessions
      BY <3>1, ElementOfSeq, LenProperties DEF OpenSessions
    <3> QED
      BY <2>1, <3>2
  <2>3. /\ tpc[t] = "idle" /\ tpc' = [tpc EXCEPT ![t] = "batch"]
        /\ UNCHANGED <<sessionVars, consent, tSession, tFinal, tTranscript, tRolling, historyVars, faults>>
    BY <1>1 DEF ReadBatch
  <2>4. /\ tpc' \in [Ticks -> TickSteps] /\ tBatch' \in [Ticks -> SUBSET Sessions] /\ tpc'[t] = "batch"
        /\ \A u \in Ticks \ {t} : tpc'[u] = tpc[u]
        /\ tSession' \in [Ticks -> Sessions \union {NoSession}] /\ tFinal' \in [Ticks -> BOOLEAN]
        /\ tTranscript' \in [Ticks -> SUBSET Events] /\ tRolling' \in [Ticks -> SUBSET Events]
    BY <1>t, <2>1, <2>2, <2>3 DEF TypeOK
  <2>5. tSession'[t] = NoSession
    BY <1>t, <2>3
  <2> QED
    BY <1>t, <2>3, <2>4, <2>5, TickOnlyMoves
<1>2. CASE Summarize(t) \/ Throw(t)
  <2>1. PICK step \in {"writing", "threw"} :
          /\ Proceed(t, step) /\ tpc[t] \notin {"idle", "batch"} /\ UNCHANGED <<sessionVars, consent, historyVars>>
          /\ faults' \in {faults, faults + 1} /\ faults' <= MaxFaults
          /\ step = "threw" => tpc[t] # "threw" /\ faults' = faults + 1
    BY <1>t, <1>2 DEF Summarize, Throw, Fault
  <2>2. step \in {"summarizing", "writing", "threw"}
    OBVIOUS
  <2>3. /\ tpc' \in [Ticks -> TickSteps] /\ tBatch' \in [Ticks -> SUBSET Sessions]
        /\ tSession' \in [Ticks -> Sessions \union {NoSession}] /\ tFinal' \in [Ticks -> BOOLEAN]
        /\ tTranscript' \in [Ticks -> SUBSET Events] /\ tRolling' \in [Ticks -> SUBSET Events]
        /\ \A u \in Ticks \ {t} : /\ tpc'[u] = tpc[u] /\ tSession'[u] = tSession[u] /\ tFinal'[u] = tFinal[u]
                                  /\ tTranscript'[u] = tTranscript[u] /\ tRolling'[u] = tRolling[u]
        /\ tpc'[t] = step /\ tSession'[t] # NoSession /\ tSession'[t] = tSession[t] /\ tFinal'[t] = tFinal[t]
        /\ tTranscript'[t] = tTranscript[t] /\ tRolling'[t] = tRolling[t]
    BY <2>1, <2>2, ProceedsTyped
  <2>a. step \notin {"idle", "batch"}
    BY <2>1
  <2>b. tpc'[t] = step /\ tSession'[t] # NoSession
    BY <2>3
  <2>c. tSession'[t] = NoSession <=> tpc'[t] \in {"idle", "batch"}
    BY <2>a, <2>b
  <2>d. tpc'[t] = "threw" => tpc[t] # "threw" /\ faults' = faults + 1
    BY <2>1, <2>b
  <2>e. tSession'[t] # NoSession => /\ tSession'[t] = tSession[t] /\ tFinal'[t] = tFinal[t]
                                     /\ tTranscript'[t] = tTranscript[t] /\ tRolling'[t] = tRolling[t]
    BY <2>3
  <2>5. UNCHANGED <<sessionVars, consent, historyVars>> /\ faults' \in {faults, faults + 1} /\ faults' <= MaxFaults
    BY <2>1
  <2> QED
    BY <2>3, <2>c, <2>d, <2>e, <2>5, TickOnlyMoves
<1>3. CASE Crash(t)
  <2>1. /\ UNCHANGED <<sessionVars, consent, historyVars>> /\ faults' = faults + 1 /\ faults' <= MaxFaults
        /\ tpc'[t] = "idle" /\ tSession'[t] = NoSession
    BY <1>t, <1>3 DEF Crash, Fault, TypeOK
  <2>2. /\ tpc' \in [Ticks -> TickSteps] /\ tBatch' \in [Ticks -> SUBSET Sessions]
        /\ tSession' \in [Ticks -> Sessions \union {NoSession}] /\ tFinal' \in [Ticks -> BOOLEAN]
        /\ tTranscript' \in [Ticks -> SUBSET Events] /\ tRolling' \in [Ticks -> SUBSET Events]
        /\ \A u \in Ticks \ {t} : /\ tpc'[u] = tpc[u] /\ tSession'[u] = tSession[u] /\ tFinal'[u] = tFinal[u]
                                  /\ tTranscript'[u] = tTranscript[u] /\ tRolling'[u] = tRolling[u]
    BY <1>t, <1>3 DEF Crash, TypeOK
  <2> QED
    BY <2>1, <2>2, TickOnlyMoves
<1>4. ASSUME NEW s \in Sessions, Claim(t, s), ~(lease[s] = "free" /\ status[s] \in Open)
      PROVE  SummariesInv'
  <2>1. PICK step \in {"idle", "batch"} : tpc' = [tpc EXCEPT ![t] = step]
    BY <1>4 DEF Claim
  <2>2. /\ tpc[t] = "batch" /\ tBatch' = [tBatch EXCEPT ![t] = @ \ {s}]
        /\ UNCHANGED <<sessionVars, consent, historyVars, tSession, tFinal, tTranscript, tRolling, faults>>
    BY <1>4 DEF Claim, sessionVars, historyVars
  <2>3. /\ tpc' \in [Ticks -> TickSteps] /\ tBatch' \in [Ticks -> SUBSET Sessions] /\ tpc'[t] = step
        /\ \A u \in Ticks \ {t} : tpc'[u] = tpc[u]
        /\ tSession' \in [Ticks -> Sessions \union {NoSession}] /\ tFinal' \in [Ticks -> BOOLEAN]
        /\ tTranscript' \in [Ticks -> SUBSET Events] /\ tRolling' \in [Ticks -> SUBSET Events]
    BY <1>t, <2>1, <2>2 DEF TypeOK
  <2>4. tSession'[t] = NoSession
    BY <1>t, <2>2
  <2> QED
    BY <1>t, <2>2, <2>3, <2>4, TickOnlyMoves
<1> QED
  BY <1>1, <1>2, <1>3, <1>4

\* What becomes of the row of a tick's session.
RowWritten(t, s, p, a, o, f) ==
  /\ GoOn(t) /\ UNCHANGED <<accepted, recent, consent, late, overlapped, faults>>
  /\ status' \in [Sessions -> Statuses] /\ queue' \in Seq(OpenSessions') /\ IsInjective(queue')
  /\ \A x \in Sessions \ {s} : status'[x] = status[x]
  /\ lease' \in [Sessions -> {"free", "short", "long"}]
  /\ pending' = [pending EXCEPT ![s] = p] /\ attempts' = [attempts EXCEPT ![s] = a]
  /\ rolling' = [rolling EXCEPT ![s] = o] /\ final' = [final EXCEPT ![s] = f]
  /\ status'[s] # "failed" =>
       status[s] # "failed" /\ (~overlapped[s] => pending[s] \union rolling[s] \subseteq p \union o)
  /\ status'[s] = "completed" /\ ~overlapped[s] /\ ~late[s] => accepted[s] \subseteq f
  /\ a \in {0, attempts[s]} \/ (tpc[t] = "threw" /\ a = attempts[s] + 1)

LEMMA RowWrittenInv ==
  ASSUME SummariesInv, NEW t \in Ticks, NEW s \in Sessions, tSession[t] = s,
         NEW p \in SUBSET Events, NEW a \in Nat, NEW o \in SUBSET Events, NEW f \in SUBSET Events,
         RowWritten(t, s, p, a, o, f)
  PROVE  SummariesInv'
<1>r. /\ GoOn(t) /\ UNCHANGED <<accepted, recent, consent, late, overlapped, faults>>
      /\ status' \in [Sessions -> Statuses] /\ queue' \in Seq(OpenSessions') /\ IsInjective(queue')
      /\ \A x \in Sessions \ {s} : status'[x] = status[x]
      /\ lease' \in [Sessions -> {"free", "short", "long"}]
      /\ pending' = [pending EXCEPT ![s] = p] /\ attempts' = [attempts EXCEPT ![s] = a]
      /\ rolling' = [rolling EXCEPT ![s] = o] /\ final' = [final EXCEPT ![s] = f]
      /\ status'[s] # "failed" =>
           status[s] # "failed" /\ (~overlapped[s] => pending[s] \union rolling[s] \subseteq p \union o)
      /\ status'[s] = "completed" /\ ~overlapped[s] /\ ~late[s] => accepted[s] \subseteq f
      /\ a \in {0, attempts[s]} \/ (tpc[t] = "threw" /\ a = attempts[s] + 1)
  BY DEF RowWritten
<1>t. TypeOK /\ faults \in Nat /\ faults <= MaxFaults
  BY LiveAssumption DEF SummariesInv, LiveTyped, TypeOK
<1>1. /\ tpc' \in [Ticks -> TickSteps] /\ tBatch' \in [Ticks -> SUBSET Sessions]
      /\ tSession' \in [Ticks -> Sessions \union {NoSession}] /\ tFinal' \in [Ticks -> BOOLEAN]
      /\ tTranscript' \in [Ticks -> SUBSET Events] /\ tRolling' \in [Ticks -> SUBSET Events]
      /\ \A u \in Ticks \ {t} : /\ tpc'[u] = tpc[u] /\ tSession'[u] = tSession[u] /\ tFinal'[u] = tFinal[u]
                                /\ tTranscript'[u] = tTranscript[u] /\ tRolling'[u] = tRolling[u]
      /\ tSession'[t] = NoSession /\ tpc'[t] \in {"idle", "batch"}
  BY <1>r, <1>t, GoesOnTyped
<1>2. /\ pending' \in [Sessions -> SUBSET Events] /\ attempts' \in [Sessions -> Nat]
      /\ rolling' \in [Sessions -> SUBSET Events] /\ final' \in [Sessions -> SUBSET Events]
      /\ pending'[s] = p /\ attempts'[s] = a /\ rolling'[s] = o /\ final'[s] = f
      /\ \A x \in Sessions \ {s} : /\ pending'[x] = pending[x] /\ attempts'[x] = attempts[x]
                                   /\ rolling'[x] = rolling[x] /\ final'[x] = final[x]
  BY <1>r, <1>t, LiveAssumption DEF TypeOK
<1>3. \A x \in Sessions : tSession[t] # x => /\ status'[x] = status[x] /\ pending'[x] = pending[x]
                                             /\ rolling'[x] = rolling[x] /\ final'[x] = final[x]
  BY <1>r, <1>2
<1>4. \A x \in Sessions : status'[x] # "failed" =>
        status[x] # "failed" /\ (~overlapped[x] => pending[x] \union rolling[x] \subseteq pending'[x] \union rolling'[x])
  BY <1>r, <1>2
<1>5. \A x \in Sessions : tSession[t] = x /\ status'[x] = "completed" /\ ~overlapped[x] /\ ~late[x] =>
        accepted[x] \subseteq final'[x]
  BY <1>r, <1>2
<1>6. \A x \in Sessions : \/ attempts'[x] \in {0, attempts[x]}
                          \/ tpc[t] = "threw" /\ tpc'[t] # "threw" /\ attempts'[x] = attempts[x] + 1
  BY <1>r, <1>1, <1>2
<1>7. /\ tSession'[t] = NoSession <=> tpc'[t] \in {"idle", "batch"}
      /\ tpc'[t] # "threw" /\ faults' \in {faults, faults + 1} /\ faults' <= MaxFaults
  BY <1>r, <1>t, <1>1
<1> QED
  BY <1>r, <1>1, <1>2, <1>3, <1>4, <1>5, <1>6, <1>7, TickMoves

\* Ticks that write the row of their session.
LEMMA TickWritesInv ==
  ASSUME SummariesInv, NEW t \in Ticks, CheckConsent(t) \/ Commit(t) \/ RecordFailure(t)
  PROVE  SummariesInv'
<1>t. /\ TypeOK /\ LiveTyped /\ TicksSound /\ NothingForgotten /\ FinalSummaryIsWhole
      /\ faults \in Nat /\ faults <= MaxFaults
      /\ tpc[t] \in {"claimed", "writing", "threw"}
  BY LiveAssumption DEF SummariesInv, LiveTyped, TypeOK, CheckConsent, Commit, RecordFailure
<1>s. PICK s \in Sessions : tSession[t] = s
  <2>1. tSession[t] # NoSession
    BY <1>t DEF TicksSound
  <2> QED
    BY <1>t, <2>1 DEF TypeOK
<1>k. /\ status[s] \in Statuses /\ tTranscript[t] \in SUBSET Events /\ tRolling[t] \in SUBSET Events
      /\ attempts[s] \in Nat
      /\ ~overlapped[s] /\ status[s] # "failed" => TickKnows(t, s)
  BY <1>t, <1>s DEF TypeOK, TicksSound
<1>u. UNCHANGED <<accepted, recent, consent, late, overlapped, faults>>
  <2>1. CASE CheckConsent(t)
    <3>1. UNCHANGED <<recent, consent, historyVars, faults>> /\ (Discard(tSession[t]) \/ UNCHANGED accepted)
      BY <2>1 DEF CheckConsent
    <3> QED
      BY <3>1 DEF Discard, historyVars
  <2>2. CASE Commit(t)
    BY <2>2 DEF Commit, historyVars
  <2>3. CASE RecordFailure(t)
    BY <2>3 DEF RecordFailure, historyVars
  <2> QED
    BY <2>1, <2>2, <2>3
<1>l. "failed" \in Statuses /\ "completed" \in Statuses
  BY DEF Statuses
<1>w. /\ pending[s] \in SUBSET Events /\ rolling[s] \in SUBSET Events /\ final[s] \in SUBSET Events
      /\ pending = [pending EXCEPT ![s] = pending[s]] /\ attempts = [attempts EXCEPT ![s] = attempts[s]]
      /\ rolling = [rolling EXCEPT ![s] = rolling[s]] /\ final = [final EXCEPT ![s] = final[s]]
      /\ status[s] = "completed" /\ ~overlapped[s] /\ ~late[s] => accepted[s] \subseteq final[s]
  BY <1>t DEF TypeOK, FinalSummaryIsWhole
<1>1. CASE CheckConsent(t) /\ ~consent[s]
  <2>1. Discard(s) /\ GoOn(t)
    BY <1>s, <1>1 DEF CheckConsent
  <2>2. /\ Touch(s, "failed") /\ lease' = [lease EXCEPT ![s] = "free"] /\ pending' = [pending EXCEPT ![s] = {}]
        /\ UNCHANGED <<attempts, rolling, final>>
    BY <2>1 DEF Discard
  <2>3. /\ status' \in [Sessions -> Statuses] /\ status'[s] = "failed"
        /\ \A x \in Sessions \ {s} : status'[x] = status[x]
        /\ queue' \in Seq(OpenSessions') /\ IsInjective(queue')
    BY <1>t, <1>l, <2>2, TouchKeeps
  <2>4. lease' \in [Sessions -> {"free", "short", "long"}] /\ {} \in SUBSET Events
    BY <1>t, <2>2 DEF TypeOK
  <2>p. PICK p \in SUBSET Events, a \in Nat, o \in SUBSET Events, f \in SUBSET Events :
          p = {} /\ a = attempts[s] /\ o = rolling[s] /\ f = final[s]
    BY <1>k, <1>w, <2>4
  <2>q. /\ pending' = [pending EXCEPT ![s] = p] /\ attempts' = [attempts EXCEPT ![s] = a]
        /\ rolling' = [rolling EXCEPT ![s] = o] /\ final' = [final EXCEPT ![s] = f]
    BY <1>w, <2>1, <2>2, <2>p
  <2>r. /\ status'[s] # "failed" =>
             status[s] # "failed" /\ (~overlapped[s] => pending[s] \union rolling[s] \subseteq p \union o)
        /\ status'[s] = "completed" /\ ~overlapped[s] /\ ~late[s] => accepted[s] \subseteq f
        /\ a \in {0, attempts[s]} \/ (tpc[t] = "threw" /\ a = attempts[s] + 1)
    BY <1>w, <2>1, <2>2, <2>3, <2>p
  <2>z. RowWritten(t, s, p, a, o, f)
    BY <1>u, <2>1, <2>3, <2>4, <2>q, <2>r DEF RowWritten
  <2> QED
    BY <1>s, <2>z, RowWrittenInv
<1>2. CASE CheckConsent(t) /\ consent[s] /\ tTranscript[t] = {} /\ ~tFinal[t]
  <2>1. /\ GoOn(t) /\ Touch(s, status[s]) /\ lease' = [lease EXCEPT ![s] = "free"]
        /\ UNCHANGED <<pending, attempts, rolling, final>>
    BY <1>s, <1>2 DEF CheckConsent
  <2>2. /\ status' \in [Sessions -> Statuses] /\ status'[s] = status[s]
        /\ \A x \in Sessions \ {s} : status'[x] = status[x]
        /\ queue' \in Seq(OpenSessions') /\ IsInjective(queue')
    BY <1>t, <1>k, <2>1, TouchKeeps
  <2>3. lease' \in [Sessions -> {"free", "short", "long"}]
    BY <1>t, <2>1 DEF TypeOK
  <2>p. PICK p \in SUBSET Events, a \in Nat, o \in SUBSET Events, f \in SUBSET Events :
          p = pending[s] /\ a = attempts[s] /\ o = rolling[s] /\ f = final[s]
    BY <1>k, <1>w
  <2>q. /\ pending' = [pending EXCEPT ![s] = p] /\ attempts' = [attempts EXCEPT ![s] = a]
        /\ rolling' = [rolling EXCEPT ![s] = o] /\ final' = [final EXCEPT ![s] = f]
    BY <1>w, <2>1, <2>2, <2>p
  <2>r. /\ status'[s] # "failed" =>
             status[s] # "failed" /\ (~overlapped[s] => pending[s] \union rolling[s] \subseteq p \union o)
        /\ status'[s] = "completed" /\ ~overlapped[s] /\ ~late[s] => accepted[s] \subseteq f
        /\ a \in {0, attempts[s]} \/ (tpc[t] = "threw" /\ a = attempts[s] + 1)
    BY <1>w, <2>1, <2>2, <2>3, <2>p
  <2>z. RowWritten(t, s, p, a, o, f)
    BY <1>u, <2>1, <2>2, <2>3, <2>q, <2>r DEF RowWritten
  <2> QED
    BY <1>s, <2>z, RowWrittenInv
<1>3. CASE CheckConsent(t) /\ consent[s] /\ (tTranscript[t] # {} \/ tFinal[t])
  <2>1. /\ Proceed(t, "summarizing") /\ UNCHANGED <<sessionVars, consent, historyVars, faults>>
    BY <1>s, <1>3 DEF CheckConsent, sessionVars
  <2>2. /\ tpc' \in [Ticks -> TickSteps] /\ tBatch' \in [Ticks -> SUBSET Sessions]
        /\ tSession' \in [Ticks -> Sessions \union {NoSession}] /\ tFinal' \in [Ticks -> BOOLEAN]
        /\ tTranscript' \in [Ticks -> SUBSET Events] /\ tRolling' \in [Ticks -> SUBSET Events]
        /\ \A u \in Ticks \ {t} : /\ tpc'[u] = tpc[u] /\ tSession'[u] = tSession[u] /\ tFinal'[u] = tFinal[u]
                                  /\ tTranscript'[u] = tTranscript[u] /\ tRolling'[u] = tRolling[u]
        /\ tpc'[t] = "summarizing" /\ tSession'[t] # NoSession /\ tSession'[t] = tSession[t] /\ tFinal'[t] = tFinal[t]
        /\ tTranscript'[t] = tTranscript[t] /\ tRolling'[t] = tRolling[t]
    BY <1>t, <2>1, ProceedsTyped
  <2> QED
    BY <1>t, <2>1, <2>2, TickOnlyMoves
<1>4. CASE Commit(t) /\ status[s] = "failed"
  <2>1. GoOn(t) /\ UNCHANGED <<status, queue, lease, pending, attempts, rolling, final>>
    BY <1>s, <1>4 DEF Commit
  <2>2. status' \in [Sessions -> Statuses] /\ queue' \in Seq(OpenSessions') /\ IsInjective(queue')
    BY <1>t, <2>1, QueueKeeps
  <2>3. lease' \in [Sessions -> {"free", "short", "long"}] /\ status'[s] = "failed"
    BY <1>t, <1>4, <2>1 DEF TypeOK
  <2>p. PICK p \in SUBSET Events, a \in Nat, o \in SUBSET Events, f \in SUBSET Events :
          p = pending[s] /\ a = attempts[s] /\ o = rolling[s] /\ f = final[s]
    BY <1>k, <1>w
  <2>q. /\ pending' = [pending EXCEPT ![s] = p] /\ attempts' = [attempts EXCEPT ![s] = a]
        /\ rolling' = [rolling EXCEPT ![s] = o] /\ final' = [final EXCEPT ![s] = f]
    BY <1>w, <2>1, <2>2, <2>p
  <2>r. /\ status'[s] # "failed" =>
             status[s] # "failed" /\ (~overlapped[s] => pending[s] \union rolling[s] \subseteq p \union o)
        /\ status'[s] = "completed" /\ ~overlapped[s] /\ ~late[s] => accepted[s] \subseteq f
        /\ a \in {0, attempts[s]} \/ (tpc[t] = "threw" /\ a = attempts[s] + 1)
    BY <1>w, <2>1, <2>2, <2>3, <2>p
  <2>z. RowWritten(t, s, p, a, o, f)
    BY <1>u, <2>1, <2>2, <2>3, <2>q, <2>r DEF RowWritten
  <2> QED
    BY <1>s, <2>z, RowWrittenInv
<1>5. CASE Commit(t) /\ status[s] # "failed"
  <2>1. PICK o \in SUBSET Events, p \in SUBSET Events, st \in Statuses, f \in SUBSET Events :
          /\ o = tRolling[t] \union tTranscript[t] /\ p = pending[s] \ tTranscript[t]
          /\ st = (IF tFinal[t] THEN "completed" ELSE status[s]) /\ f = (IF tFinal[t] THEN o ELSE final[s])
    <3>1. /\ tRolling[t] \union tTranscript[t] \in SUBSET Events /\ pending[s] \ tTranscript[t] \in SUBSET Events
          /\ (IF tFinal[t] THEN "completed" ELSE status[s]) \in Statuses
          /\ (IF tFinal[t] THEN tRolling[t] \union tTranscript[t] ELSE final[s]) \in SUBSET Events
      BY <1>k, <1>l, <1>w
    <3> QED
      BY <3>1
  <2>2. /\ GoOn(t) /\ Touch(s, st) /\ lease' = [lease EXCEPT ![s] = "free"]
        /\ pending' = [pending EXCEPT ![s] = p] /\ rolling' = [rolling EXCEPT ![s] = o]
        /\ attempts' = [attempts EXCEPT ![s] = 0] /\ final' = [final EXCEPT ![s] = f]
    BY <1>t, <1>s, <1>5, <2>1 DEF Commit, TypeOK
  <2>3. /\ status' \in [Sessions -> Statuses] /\ status'[s] = st
        /\ \A x \in Sessions \ {s} : status'[x] = status[x]
        /\ queue' \in Seq(OpenSessions') /\ IsInjective(queue')
    BY <1>t, <2>2, TouchKeeps
  <2>4. lease' \in [Sessions -> {"free", "short", "long"}]
    BY <1>t, <2>2 DEF TypeOK
  <2>5. ~overlapped[s] => pending[s] \union rolling[s] \subseteq p \union o
    BY <1>k, <1>5, <2>1 DEF TickKnows
  <2>6. st = "completed" /\ ~overlapped[s] /\ ~late[s] => accepted[s] \subseteq f
    BY <1>k, <1>w, <1>5, <2>1 DEF TickKnows
  <2>z. RowWritten(t, s, p, 0, o, f)
    BY <1>u, <1>5, <2>2, <2>3, <2>4, <2>5, <2>6 DEF RowWritten
  <2> QED
    BY <1>s, <2>z, RowWrittenInv
<1>6. CASE RecordFailure(t)
  <2>1. PICK st \in Statuses, ls \in {"free", "long"} :
          /\ st \in {"failed", status[s]} /\ Touch(s, st) /\ lease' = [lease EXCEPT ![s] = ls]
    BY <1>s, <1>k, <1>l, <1>6 DEF RecordFailure
  <2>2. /\ GoOn(t) /\ tpc[t] = "threw" /\ attempts' = [attempts EXCEPT ![s] = attempts[s] + 1]
        /\ UNCHANGED <<pending, rolling, final>>
    BY <1>s, <1>6 DEF RecordFailure
  <2>3. /\ status' \in [Sessions -> Statuses] /\ status'[s] = st
        /\ \A x \in Sessions \ {s} : status'[x] = status[x]
        /\ queue' \in Seq(OpenSessions') /\ IsInjective(queue')
    BY <1>t, <2>1, TouchKeeps
  <2>4. lease' \in [Sessions -> {"free", "short", "long"}] /\ attempts[s] + 1 \in Nat
    BY <1>t, <1>k, <2>1 DEF TypeOK
  <2>p. PICK p \in SUBSET Events, a \in Nat, o \in SUBSET Events, f \in SUBSET Events :
          p = pending[s] /\ a = attempts[s] + 1 /\ o = rolling[s] /\ f = final[s]
    BY <1>k, <1>w, <2>4
  <2>q. /\ pending' = [pending EXCEPT ![s] = p] /\ attempts' = [attempts EXCEPT ![s] = a]
        /\ rolling' = [rolling EXCEPT ![s] = o] /\ final' = [final EXCEPT ![s] = f]
    BY <1>w, <2>1, <2>2, <2>p
  <2>r. /\ status'[s] # "failed" =>
             status[s] # "failed" /\ (~overlapped[s] => pending[s] \union rolling[s] \subseteq p \union o)
        /\ status'[s] = "completed" /\ ~overlapped[s] /\ ~late[s] => accepted[s] \subseteq f
        /\ a \in {0, attempts[s]} \/ (tpc[t] = "threw" /\ a = attempts[s] + 1)
    BY <1>w, <2>1, <2>2, <2>3, <2>p
  <2>z. RowWritten(t, s, p, a, o, f)
    BY <1>u, <2>2, <2>3, <2>4, <2>q, <2>r DEF RowWritten
  <2> QED
    BY <1>s, <2>z, RowWrittenInv
<1> QED
  BY <1>s, <1>1, <1>2, <1>3, <1>4, <1>5, <1>6

\* Every step keeps the invariant.
LEMMA SummariesStep == SummariesInv /\ [Next]_vars => SummariesInv'
<1> SUFFICES ASSUME SummariesInv, [Next]_vars PROVE SummariesInv'
  OBVIOUS
<1>1. ASSUME NEW s \in Sessions,
             \/ Create(s) \/ Heartbeat(s) \/ MarkForFinalSummary(s)
             \/ WithdrawConsent(s) \/ RevokeSession(s) \/ TwoMinutesPass(s) \/ LeaseEnds(s)
             \/ \E e \in Events : RecordEvent(s, e)
      PROVE  SummariesInv'
  BY <1>1, SessionStepInv
<1>2. ASSUME NEW t \in Ticks, ReadBatch(t) \/ TickStep(t) \/ Throw(t) \/ Crash(t) PROVE SummariesInv'
  BY <1>2, TickReadsInv, TickWritesInv, ClaimInv DEF TickStep
<1>3. CASE UNCHANGED vars
  <2>1. UNCHANGED <<status, queue, lease, pending, accepted, attempts, rolling, final, recent, consent, late,
                    overlapped, faults, tpc, tBatch, tSession, tFinal, tTranscript, tRolling>>
    BY <1>3 DEF vars, sessionVars, tickVars, historyVars
  <2>2. OpenSessions' = OpenSessions /\ Threw' = Threw
    BY <2>1 DEF OpenSessions, Threw
  <2>3. LiveTyped' /\ FailuresCounted'
    BY <2>1, <2>2 DEF SummariesInv, LiveTyped, TypeOK, OpenSessions, FailuresCounted
  <2>4. TicksSound' /\ NothingForgotten' /\ FinalSummaryIsWhole'
    BY <2>1 DEF SummariesInv, TicksSound, TickKnows, NothingForgotten, FinalSummaryIsWhole
  <2> QED
    BY <2>3, <2>4 DEF SummariesInv
<1> QED
  BY <1>1, <1>2, <1>3 DEF Next

\* While one tick at a time summarizes a session no event that the client
\* recorded is forgotten, and the final summary is whole
\* (ai-tutor-live-session.service.ts).
THEOREM SummariesStayConsistent == Spec => []SummariesConsistent
<1>1. SummariesInv => SummariesConsistent
  BY DEF SummariesInv, LiveTyped, SummariesConsistent
<1> QED
  BY <1>1, LiveInitInv, SummariesStep, PTL DEF Spec
=============================================================================
