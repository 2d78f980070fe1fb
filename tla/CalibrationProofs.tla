-------------------------- MODULE CalibrationProofs --------------------------
(***************************************************************************)
(* Proofs about Calibration, for every number of runs, requests and        *)
(* classes of angles.  What is asked of the server is one sequence: the    *)
(* unread requests and what the page lets the user ask next.  AnyUser      *)
(* holds of every user: each request about a run follows from the one      *)
(* before, and the server can do the first.  A late answer may open a run  *)
(* from the menu, after a reset, a test run or a Save, so it also tells    *)
(* where the steps are back at the first.  WaitingUser adds, of a user     *)
(* who waits for the answer to each submission, that runs and submissions  *)
(* take turns, which is what makes a completed direction a measured one.   *)
(***************************************************************************)
EXTENDS Calibration, SequenceTheorems, TLAPS

RequestSet == [action : Actions, dir : Directions \cup {"test"},
               angle : 0..MaxAngle, mine : BOOLEAN]

Runs == {"run", "re-run", "submit", "test_run_done"}

\* The menu is reached with these, and steps are then at the first.
Openings == {"start", "test_run_done"}

\* What the user may ask next of a run, as a request that is still to come.
Coming ==
  Request(IF page = "ready" THEN "run" ELSE IF page = "ran" THEN "re-run" ELSE "exit", dir, 0)

\* What the server is asked: the requests, then what may come.
Asked == Append(requests, Coming)

\* The run that is served, as the request it was.
Served == Request("run", serving.dir, 0)

\* What a request about a run comes after: about the same direction, and a
\* repetition or a submission only after a run was asked for.  A run comes after an
\* opening, or a save, if the answer to a submission opens it in the menu.
Follows(a, b) ==
  b.action \in Runs =>
    \/ a.action \in Openings \cup {"save"} /\ b.action = "run"
    \/ a.action \in {"continue", "re-run"} /\ b.action = "run" /\ a.dir = b.dir
    \/ a.action \in {"run", "submit"} /\ a.dir = b.dir

TableOK == table = [d \in Directions |-> table[d]]

RequestsOK ==
  \A i \in 1..Len(requests) :
    /\ requests[i].action = "submit" =>
         requests[i].dir \in Directions /\ requests[i].angle \in 1..MaxAngle
    /\ requests[i].action = "test_run_done" => requests[i].dir = "test"
    /\ requests[i].action = "save" /\ ~stale =>
         /\ completed = Directions \cup {"test"}
         /\ \A j \in 1..i : requests[j].action \notin {"start", "exit"}

InOrder ==
  /\ \A i \in 1..Len(requests) : Follows(Asked[i], Asked[i + 1])
  /\ serving.waits # "none" => Follows(Served, Asked[1])

\* The i-th request is an opening, or of the saves after one.
Opened(i) ==
  \E j \in 1..i : /\ requests[j].action \in Openings
                  /\ \A k \in (j + 1)..i : requests[k].action = "save"

\* The steps are at the first, and only saves are to be read up to the i-th request.
AtFirst == serving.waits = "none" /\ step = 0 /\ validAngles.of = {}
AtFirstTo(i) == AtFirst /\ \A k \in 1..i : requests[k].action = "save"

\* A run that comes after a save finds the steps at the first.
SavesInOrder ==
  \A i \in 1..Len(requests) :
    requests[i].action = "save" /\ Asked[i + 1].action = "run" => Opened(i) \/ AtFirstTo(i)

\* An answer the wizard waits for will come: its submission is unread.
SubmittedOK ==
  submitted # "none" =>
    /\ \E i \in 1..Len(requests) :
         requests[i].mine /\ requests[i].action = "submit" /\ requests[i].dir = submitted
    /\ page = "menu" => Opened(Len(requests))

DrivenTo(d, n) == \A i \in 1..n : table[d][i].pwm

\* The server can do what it is asked next, here and in ServerSuits.
Suits(r) ==
  r.action \in Runs =>
    /\ r.dir \in Directions =>
         /\ step <= RunsOf[r.dir] /\ DrivenTo(r.dir, step)
         /\ validAngles.of \subseteq {r.dir}
         /\ r.action # "run" => step >= 1
    /\ r.dir = "test" => step = 0 /\ validAngles.of = {}

ServerSuits ==
  IF serving.waits = "none" THEN Suits(Asked[1])
  ELSE
    /\ serving.dir \in Directions =>
         /\ step < RunsOf[serving.dir] /\ DrivenTo(serving.dir, step)
         /\ serving.waits = "done" => table[serving.dir][step + 1].pwm
         /\ validAngles.of \subseteq {serving.dir}
    /\ serving.dir = "test" => step = 0 /\ validAngles.of = {}

CompletedDriven == \A d \in Directions \cap completed : DrivenTo(d, RunsOf[d])

AnyUser ==
  /\ CalibTypeOK /\ TableOK /\ RequestsOK /\ InOrder /\ SavesInOrder /\ SubmittedOK
  /\ ServerSuits /\ CompletedDriven /\ MaxAngleOwn
----------------------------------------------------------------------------
(* Requests sent and read. *)

LEMMA RequestTyped ==
  ASSUME NEW action \in Actions, NEW d \in Directions \cup {"test"}, NEW a \in 0..MaxAngle
  PROVE  /\ Request(action, d, a) \in RequestSet
         /\ Request(action, d, a).action = action /\ Request(action, d, a).dir = d
         /\ Request(action, d, a).angle = a /\ Request(action, d, a).mine
  BY DEF Request, RequestSet

LEMMA RequestsTyped == CalibTypeOK => requests \in Seq(RequestSet)
  BY DEF CalibTypeOK, RequestSet

LEMMA ComingTyped ==
  CalibTypeOK =>
    /\ Coming \in RequestSet /\ Coming.dir = dir
    /\ Coming.action = "run" <=> page = "ready"
    /\ Coming.action = "re-run" <=> page = "ran"
    /\ Coming.action \in Runs <=> page \in {"ready", "ran"}
    /\ Coming.action \in {"run", "re-run", "exit"}
  <1> SUFFICES ASSUME CalibTypeOK
               PROVE  /\ Coming \in RequestSet /\ Coming.dir = dir
                      /\ Coming.action = "run" <=> page = "ready"
                      /\ Coming.action = "re-run" <=> page = "ran"
                      /\ Coming.action \in Runs <=> page \in {"ready", "ran"}
                      /\ Coming.action \in {"run", "re-run", "exit"}
    OBVIOUS
  <1>1. dir \in Directions \cup {"test"}
    BY DEF CalibTypeOK
  <1>2. 0 \in 0..MaxAngle
    BY CalibrationAssumption
  <1> DEFINE act == IF page = "ready" THEN "run" ELSE IF page = "ran" THEN "re-run" ELSE "exit"
  <1>3. act \in Actions
    BY DEF Actions
  <1>4. Coming = Request(act, dir, 0)
    BY DEF Coming
  <1>5. Coming \in RequestSet /\ Coming.dir = dir /\ Coming.action = act
    BY <1>1, <1>2, <1>3, <1>4, RequestTyped
  <1> QED
    BY <1>5 DEF Runs

LEMMA ComingTypedNext == CalibTypeOK' => Coming' \in RequestSet
  <1>1. CalibTypeOK => Coming \in RequestSet
    BY ComingTyped
  <1>2. (CalibTypeOK => Coming \in RequestSet)'
    BY <1>1, PTL
  <1> QED
    BY <1>2 DEF RequestSet

LEMMA ComingNext ==
  /\ Coming.dir = dir /\ Coming'.dir = dir'
  /\ Coming.action = IF page = "ready" THEN "run" ELSE IF page = "ran" THEN "re-run" ELSE "exit"
  /\ Coming'.action = IF page' = "ready" THEN "run"
                      ELSE IF page' = "ran" THEN "re-run" ELSE "exit"
  BY DEF Coming, Request

\* A request about runs is Like another: what may precede one may precede the other,
\* and what one needs the other needs.
Like(a, b) ==
  a.action \in Runs =>
    b.action \in Runs /\ a.dir = b.dir /\ (a.action = "run" <=> b.action = "run")

LEMMA LikeFollows ==
  ASSUME NEW a, NEW b, NEW c, Like(b, c), Follows(a, c)
  PROVE  Follows(a, b)
  BY DEF Like, Follows

LEMMA LikeSuits ==
  ASSUME NEW b, NEW c, Like(b, c), Suits(c)
  PROVE  Suits(b)
  BY DEF Like, Suits, Runs

LEMMA AppendedTo ==
  ASSUME NEW S, NEW s \in Seq(S), NEW e \in S
  PROVE  /\ Append(s, e) \in Seq(S) /\ Len(s) \in Nat
         /\ Len(Append(s, e)) = Len(s) + 1
         /\ \A i \in 1..Len(s) : Append(s, e)[i] = s[i]
         /\ Append(s, e)[Len(s) + 1] = e
  OBVIOUS

LEMMA TailOf ==
  ASSUME NEW S, NEW s \in Seq(S), s # <<>>
  PROVE  /\ Tail(s) \in Seq(S) /\ Head(s) = s[1] /\ s[1] \in S
         /\ Len(s) \in Nat \ {0} /\ Len(Tail(s)) = Len(s) - 1
         /\ \A i \in 1..(Len(s) - 1) : Tail(s)[i] = s[i + 1]
  OBVIOUS

\* What a request does that the wizard sends, whatever the page then shows.
LEMMA Sent ==
  ASSUME AnyUser, UNCHANGED serverPart,
         NEW action \in Actions, NEW d \in Directions \cup {"test"}, NEW a \in 0..MaxAngle,
         Send(action, d, a),
         page' \in WizardPages, dir' \in Directions \cup {"test"}, busy' \in BOOLEAN,
         known' \subseteq Directions \cup {"test"}, stale' \in BOOLEAN, stale => stale',
         submitted' \in {submitted, "none"} \/ (submitted' = d /\ action = "submit"),
         submitted' # "none" /\ page' = "menu" =>
           action \in Openings \/ (action = "save" /\ page = "menu"),
         Like(Request(action, d, a), Coming), Follows(Request(action, d, a), Coming'),
         action = "submit" => d \in Directions /\ a \in 1..MaxAngle,
         action = "test_run_done" => d = "test",
         action = "save" => page' = "menu",
         action = "save" /\ ~stale' =>
           /\ completed = Directions \cup {"test"}
           /\ \A i \in 1..Len(requests) : requests[i].action \notin {"start", "exit"}
  PROVE  AnyUser'
  <1> DEFINE new == Request(action, d, a)
             n == Len(requests)
  <1>1. new \in RequestSet /\ new.action = action /\ new.dir = d /\ new.angle = a
    BY RequestTyped
  <1>2. requests \in Seq(RequestSet)
    BY RequestsTyped DEF AnyUser
  <1>3. requests' = Append(requests, new) /\ hasty' = (hasty \/ submitted # "none")
    BY DEF Send
  <1>4. /\ requests' \in Seq(RequestSet) /\ n \in Nat /\ Len(requests') = n + 1
        /\ \A i \in 1..n : requests'[i] = requests[i]
        /\ requests'[n + 1] = new
    BY <1>1, <1>2, <1>3, AppendedTo
  <1> HIDE DEF new
  <1>5. CalibTypeOK'
    <2>1. CalibTypeOK
      BY DEF AnyUser
    <2>2. hasty' \in BOOLEAN /\ submitted' \in Directions \cup {"none"}
      BY <1>3, <2>1 DEF CalibTypeOK
    <2> QED
      BY <1>4, <2>1, <2>2 DEF CalibTypeOK, RequestSet, serverPart, results, answers
  <1>6. TableOK' /\ CompletedDriven' /\ MaxAngleOwn'
    BY DEF AnyUser, TableOK, CompletedDriven, MaxAngleOwn, DrivenTo, serverPart, results
  <1>7. RequestsOK'
    <2> SUFFICES ASSUME NEW i \in 1..(n + 1)
                 PROVE  /\ requests'[i].action = "submit" =>
                             requests'[i].dir \in Directions /\ requests'[i].angle \in 1..MaxAngle
                        /\ requests'[i].action = "test_run_done" => requests'[i].dir = "test"
                        /\ requests'[i].action = "save" /\ ~stale' =>
                             /\ completed = Directions \cup {"test"}
                             /\ \A j \in 1..i : requests'[j].action \notin {"start", "exit"}
      BY <1>4 DEF RequestsOK, serverPart, results
    <2>1. CASE i \in 1..n
      BY <1>4, <2>1 DEF AnyUser, RequestsOK
    <2>2. CASE i = n + 1
      BY <1>1, <1>4, <2>2
    <2> QED
      BY <1>4, <2>1, <2>2
  <1>8. /\ \A i \in 1..n : Asked'[i] = Asked[i]
        /\ Asked'[n + 1] = new /\ Asked[n + 1] = Coming /\ Asked'[n + 2] = Coming'
    <2>1. /\ \A i \in 1..n : Asked[i] = requests[i]
          /\ Asked[n + 1] = Coming
      BY <1>2, <1>4, AppendedTo, ComingTyped DEF Asked, AnyUser
    <2>2. Coming' \in RequestSet /\ Asked' = Append(requests', Coming')
      BY <1>5, ComingTypedNext DEF Asked
    <2>3. /\ \A i \in 1..(n + 1) : Asked'[i] = requests'[i]
          /\ Asked'[(n + 1) + 1] = Coming'
      BY <1>4, <2>2, AppendedTo
    <2> QED
      BY <1>4, <2>1, <2>3
  <1>9. InOrder'
    <2>1. \A x : Follows(x, Coming) => Follows(x, new)
      BY LikeFollows DEF new
    <2>2. Follows(new, Coming')
      BY DEF new
    <2>3. ASSUME NEW i \in 1..(n + 1) PROVE Follows(Asked'[i], Asked'[i + 1])
      <3>1. CASE i \in 1..(n - 1)
        <4>1. i \in 1..n /\ i + 1 \in 1..n
          BY <1>4, <3>1
        <4> QED
          BY <1>8, <4>1 DEF AnyUser, InOrder
      <3>2. CASE i = n /\ n > 0
        <4>1. i \in 1..n
          BY <1>4, <3>2
        <4> QED
          BY <1>8, <2>1, <3>2, <4>1 DEF AnyUser, InOrder
      <3>3. CASE i = n + 1
        <4>1. i + 1 = n + 2
          BY <1>4, <3>3
        <4> QED
          BY <1>8, <2>2, <3>3, <4>1
      <3> QED
        BY <1>4, <3>1, <3>2, <3>3
    <2>4. serving.waits # "none" => Follows(Served, Asked'[1])
      <3>1. CASE n = 0
        BY <1>8, <2>1, <3>1 DEF AnyUser, InOrder
      <3>2. CASE n > 0
        <4>1. 1 \in 1..n
          BY <1>4, <3>2
        <4> QED
          BY <1>8, <4>1 DEF AnyUser, InOrder
      <3> QED
        BY <1>4, <3>1, <3>2
    <2>5. serving' = serving /\ Served' = Served
      BY DEF serverPart, Served
    <2>6. \A i \in 1..Len(requests') : Follows(Asked'[i], Asked'[i + 1])
      BY <1>4, <2>3
    <2> QED
      BY <2>4, <2>5, <2>6 DEF InOrder, Follows
  <1>10. ServerSuits'
    <2>1. ASSUME serving.waits = "none" PROVE Suits(Asked'[1])
      <3>1. CASE n = 0
        <4>1. Asked'[1] = new /\ Asked[1] = Coming
          BY <1>8, <3>1
        <4>2. Suits(Coming)
          BY <2>1, <4>1 DEF AnyUser, ServerSuits
        <4> QED
          BY <4>1, <4>2, LikeSuits DEF new
      <3>2. CASE n > 0
        <4>1. 1 \in 1..n
          BY <1>4, <3>2
        <4> QED
          BY <1>8, <2>1, <4>1 DEF AnyUser, ServerSuits
      <3> QED
        BY <1>4, <3>1, <3>2
    <2> QED
      BY <2>1 DEF AnyUser, ServerSuits, Suits, DrivenTo, serverPart, results
  <1>11. SubmittedOK'
    <2> SUFFICES ASSUME submitted' # "none"
                 PROVE  /\ \E i \in 1..(n + 1) :
                             /\ requests'[i].mine /\ requests'[i].action = "submit"
                             /\ requests'[i].dir = submitted'
                        /\ page' = "menu" =>
                             \E j \in 1..(n + 1) :
                               /\ requests'[j].action \in Openings
                               /\ \A k \in (j + 1)..(n + 1) : requests'[k].action = "save"
      BY <1>4 DEF SubmittedOK, Opened
    <2>3. ASSUME page' = "menu"
          PROVE  \E j \in 1..(n + 1) :
                   /\ requests'[j].action \in Openings
                   /\ \A k \in (j + 1)..(n + 1) : requests'[k].action = "save"
      <3>1. CASE action \in Openings
        <4>1. n + 1 \in 1..(n + 1) /\ ((n + 1) + 1)..(n + 1) = {}
          BY <1>4
        <4> QED
          BY <1>1, <1>4, <3>1, <4>1
      <3>2. CASE action = "save" /\ page = "menu"
        <4>1. submitted # "none"
          BY <3>2
        <4>2. PICK j \in 1..n : /\ requests[j].action \in Openings
                               /\ \A k \in (j + 1)..n : requests[k].action = "save"
          BY <3>2, <4>1 DEF AnyUser, SubmittedOK, Opened
        <4>3. j \in 1..(n + 1) /\ requests'[j].action \in Openings
          BY <1>4, <4>2
        <4>4. ASSUME NEW k \in (j + 1)..(n + 1) PROVE requests'[k].action = "save"
          <5>1. CASE k = n + 1
            BY <1>1, <1>4, <3>2, <5>1
          <5>2. CASE k # n + 1
            <6>1. k \in (j + 1)..n /\ k \in 1..n
              BY <1>4, <5>2
            <6> QED
              BY <1>4, <4>2, <6>1
          <5> QED
            BY <5>1, <5>2
        <4> QED
          BY <4>3, <4>4
      <3> QED
        BY <2>3, <3>1, <3>2
    <2>1. CASE submitted' \in {submitted, "none"}
      <3>1. PICK i \in 1..n : /\ requests[i].mine /\ requests[i].action = "submit"
                             /\ requests[i].dir = submitted
        BY <2>1 DEF AnyUser, SubmittedOK
      <3>2. i \in 1..(n + 1) /\ requests'[i] = requests[i]
        BY <1>4
      <3> QED
        BY <2>1, <2>3, <3>1, <3>2
    <2>2. CASE submitted' = d /\ action = "submit"
      <3>1. n + 1 \in 1..(n + 1) /\ requests'[n + 1] = new /\ new.mine
        BY <1>4, RequestTyped DEF new
      <3> QED
        BY <1>1, <2>2, <2>3, <3>1
    <2> QED
      BY <2>1, <2>2
  <1>12. SavesInOrder'
    <2> SUFFICES ASSUME NEW i \in 1..(n + 1), requests'[i].action = "save",
                        Asked'[i + 1].action = "run"
                 PROVE  Opened(i)' \/ AtFirstTo(i)'
      BY <1>4 DEF SavesInOrder
    <2>1. i \in 1..n
      <3> SUFFICES ASSUME i = n + 1 PROVE FALSE
        BY <1>4
      <3>1. action = "save" /\ Coming'.action = "run"
        BY <1>1, <1>4, <1>8
      <3>2. page' = "menu"
        BY <3>1
      <3> QED
        BY <3>1, <3>2, ComingNext
    <2>2. requests[i].action = "save" /\ Asked[i + 1].action = "run"
      <3>1. CASE i = n
        <4>1. new.action = "run"
          BY <1>8, <3>1
        <4>2. Coming.action = "run"
          BY <4>1 DEF Like, Runs, new
        <4> QED
          BY <1>4, <1>8, <2>1, <3>1, <4>2
      <3>2. CASE i # n
        <4>1. i + 1 \in 1..n
          BY <1>4, <2>1, <3>2
        <4> QED
          BY <1>4, <1>8, <2>1, <4>1
      <3> QED
        BY <3>1, <3>2
    <2>3. Opened(i) \/ AtFirstTo(i)
      BY <2>1, <2>2 DEF AnyUser, SavesInOrder
    <2>4. \A k \in 1..i : requests'[k] = requests[k]
      BY <1>4, <2>1
    <2>5. Opened(i) => Opened(i)'
      BY <2>4 DEF Opened
    <2>6. AtFirstTo(i) => AtFirstTo(i)'
      BY <2>4 DEF AtFirstTo, AtFirst, serverPart, results
    <2> QED
      BY <2>3, <2>5, <2>6
  <1> QED
    BY <1>5, <1>6, <1>7, <1>9, <1>10, <1>11, <1>12 DEF AnyUser
\* What reading a request leaves to be read, the page being the same.
LEMMA WasRead ==
  ASSUME AnyUser, NEW action, Reads(action), UNCHANGED <<page, dir>>
  PROVE  /\ requests \in Seq(RequestSet) /\ requests' \in Seq(RequestSet)
         /\ Len(requests) \in Nat \ {0} /\ Len(requests') = Len(requests) - 1
         /\ Head(requests) = requests[1] /\ requests[1] \in RequestSet
         /\ requests[1].action = action /\ serving.waits = "none"
         /\ \A i \in 1..Len(requests') : requests'[i] = requests[i + 1]
         /\ Asked[1] = requests[1] /\ \A i \in 1..Len(requests) : Asked'[i] = Asked[i + 1]
         /\ \A i \in 1..Len(requests') : Follows(Asked'[i], Asked'[i + 1])
         /\ Follows(requests[1], Asked'[1]) /\ Suits(requests[1])
  <1>1. requests \in Seq(RequestSet)
    BY RequestsTyped DEF AnyUser
  <1>2. requests # <<>> /\ serving.waits = "none" /\ Head(requests).action = action
        /\ requests' = Tail(requests)
    BY DEF Reads
  <1> DEFINE n == Len(requests)
  <1>3. /\ requests' \in Seq(RequestSet) /\ Head(requests) = requests[1]
        /\ requests[1] \in RequestSet /\ n \in Nat \ {0} /\ Len(requests') = n - 1
        /\ \A i \in 1..(n - 1) : requests'[i] = requests[i + 1]
    BY <1>1, <1>2, TailOf
  <1>4. Coming' = Coming /\ Coming \in RequestSet
    BY ComingTyped DEF AnyUser, Coming, Request
  <1>5. /\ \A i \in 1..n : Asked[i] = requests[i]
        /\ Asked[n + 1] = Coming
    BY <1>1, <1>3, <1>4, AppendedTo DEF Asked
  <1>6. /\ \A i \in 1..(n - 1) : Asked'[i] = requests'[i]
        /\ Asked'[(n - 1) + 1] = Coming
    BY <1>3, <1>4, AppendedTo DEF Asked
  <1>7. \A i \in 1..n : Asked'[i] = Asked[i + 1]
    BY <1>3, <1>5, <1>6
  <1>8. \A i \in 1..n : Follows(Asked[i], Asked[i + 1])
    BY DEF AnyUser, InOrder
  <1>9. \A i \in 1..(n - 1) : Follows(Asked'[i], Asked'[i + 1])
    <2> TAKE i \in 1..(n - 1)
    <2>1. i \in 1..n /\ i + 1 \in 1..n
      BY <1>3
    <2> QED
      BY <1>7, <1>8, <2>1
  <1>10. 1 \in 1..n /\ Asked[1] = requests[1] /\ Asked'[1] = Asked[2]
    BY <1>3, <1>5, <1>7
  <1>11. Follows(requests[1], Asked'[1])
    BY <1>8, <1>10
  <1>12. Suits(requests[1])
    BY <1>2, <1>10 DEF AnyUser, ServerSuits
  <1> QED
    BY <1>1, <1>2, <1>3, <1>7, <1>9, <1>10, <1>11, <1>12

\* The requests stay well formed when one is read: a save still finds everything
\* completed, if reading forgets nothing unless it read a start or an exit.
LEMMA ReadRequestsOK ==
  ASSUME AnyUser, NEW action, Reads(action), UNCHANGED <<page, dir, stale>>,
         \/ completed' = completed
         \/ completed \subseteq completed' /\ completed' \subseteq Directions \cup {"test"}
         \/ action \in {"start", "exit"}
  PROVE  RequestsOK'
  <1> SUFFICES ASSUME NEW i \in 1..Len(requests')
               PROVE  /\ requests'[i].action = "submit" =>
                           /\ requests'[i].dir \in Directions
                           /\ requests'[i].angle \in 1..MaxAngle
                      /\ requests'[i].action = "test_run_done" => requests'[i].dir = "test"
                      /\ requests'[i].action = "save" /\ ~stale =>
                           /\ completed' = Directions \cup {"test"}
                           /\ \A j \in 1..i : requests'[j].action \notin {"start", "exit"}
    BY DEF RequestsOK
  <1>1. /\ Len(requests) \in Nat \ {0} /\ Len(requests') = Len(requests) - 1
        /\ \A k \in 1..Len(requests') : requests'[k] = requests[k + 1]
        /\ requests[1].action = action
    BY WasRead
  <1>2. i + 1 \in 1..Len(requests) /\ requests'[i] = requests[i + 1]
    BY <1>1
  <1>3. /\ requests[i + 1].action = "submit" =>
             requests[i + 1].dir \in Directions /\ requests[i + 1].angle \in 1..MaxAngle
        /\ requests[i + 1].action = "test_run_done" => requests[i + 1].dir = "test"
        /\ requests[i + 1].action = "save" /\ ~stale =>
             /\ completed = Directions \cup {"test"}
             /\ \A j \in 1..(i + 1) : requests[j].action \notin {"start", "exit"}
    BY <1>2 DEF AnyUser, RequestsOK
  <1>4. ASSUME requests'[i].action = "save", ~stale
        PROVE  /\ completed' = Directions \cup {"test"}
               /\ \A j \in 1..i : requests'[j].action \notin {"start", "exit"}
    <2>1. \A j \in 1..(i + 1) : requests[j].action \notin {"start", "exit"}
      BY <1>2, <1>3, <1>4
    <2>2. action \notin {"start", "exit"}
      BY <1>1, <2>1
    <2>3. completed' = Directions \cup {"test"}
      BY <1>2, <1>3, <1>4, <2>2
    <2>4. \A j \in 1..i : requests'[j] = requests[j + 1] /\ j + 1 \in 1..(i + 1)
      BY <1>1
    <2> QED
      BY <2>1, <2>3, <2>4
  <1> QED
    BY <1>2, <1>3, <1>4

\* An answer that is waited for stays to come, unless a submission was read.
LEMMA ReadSubmittedOK ==
  ASSUME AnyUser, NEW action, Reads(action), UNCHANGED <<page, dir, submitted>>,
         action # "submit" \/ ~requests[1].mine
  PROVE  SubmittedOK'
  <1> SUFFICES ASSUME submitted # "none"
               PROVE  /\ \E i \in 1..Len(requests') :
                           /\ requests'[i].mine /\ requests'[i].action = "submit"
                           /\ requests'[i].dir = submitted
                      /\ page = "menu" => Opened(Len(requests))'
    BY DEF SubmittedOK
  <1>1. /\ Len(requests) \in Nat \ {0} /\ Len(requests') = Len(requests) - 1
        /\ \A k \in 1..Len(requests') : requests'[k] = requests[k + 1]
        /\ requests[1].action = action
    BY WasRead
  <1>3. PICK i \in 1..Len(requests) : requests[i].mine /\ requests[i].action = "submit"
                                      /\ requests[i].dir = submitted
    BY DEF AnyUser, SubmittedOK
  <1>4. i # 1
    BY <1>1, <1>3
  <1>5. i - 1 \in 1..Len(requests') /\ requests'[i - 1] = requests[i]
    BY <1>1, <1>4
  <1>6. ASSUME page = "menu" PROVE Opened(Len(requests))'
    <2>1. PICK j \in 1..Len(requests) :
                 /\ requests[j].action \in Openings
                 /\ \A k \in (j + 1)..Len(requests) : requests[k].action = "save"
      BY <1>6 DEF AnyUser, SubmittedOK, Opened
    <2>2. j # 1
      BY <1>1, <1>3, <1>4, <2>1
    <2>3. j - 1 \in 1..Len(requests') /\ requests'[j - 1] = requests[j]
      BY <1>1, <2>2
    <2>4. \A k \in ((j - 1) + 1)..Len(requests') : requests'[k].action = "save"
      <3> TAKE k \in ((j - 1) + 1)..Len(requests')
      <3>1. k \in 1..Len(requests') /\ k + 1 \in (j + 1)..Len(requests)
        BY <1>1, <2>2
      <3> QED
        BY <1>1, <2>1, <3>1
    <2> QED
      BY <2>1, <2>3, <2>4 DEF Opened
  <1> QED
    BY <1>3, <1>5, <1>6

\* The i-th request being read next but one, a save finds what it did.
LEMMA ReadSaves ==
  ASSUME AnyUser, NEW action, Reads(action),
         Len(requests) \in Nat \ {0}, Len(requests') = Len(requests) - 1,
         requests[1].action = action,
         \A i \in 1..Len(requests') : requests'[i] = requests[i + 1],
         action \in Openings => AtFirst', action = "save" /\ AtFirst => AtFirst',
         \A i \in 1..Len(requests') :
           requests'[i].action = "save" /\ Asked'[i + 1].action = "run" =>
             Opened(i + 1) \/ AtFirstTo(i + 1)
  PROVE  SavesInOrder'
  <1> SUFFICES ASSUME NEW i \in 1..Len(requests'), requests'[i].action = "save",
                      Asked'[i + 1].action = "run"
               PROVE  Opened(i)' \/ AtFirstTo(i)'
    BY DEF SavesInOrder
  <1>1. i \in Nat /\ i + 1 \in 1..Len(requests)
    OBVIOUS
  <1>2. \A k \in 1..i : k \in 1..Len(requests') /\ requests'[k] = requests[k + 1]
    OBVIOUS
  <1>3. CASE Opened(i + 1)
    <2>1. PICK j \in 1..(i + 1) :
                 /\ requests[j].action \in Openings
                 /\ \A k \in (j + 1)..(i + 1) : requests[k].action = "save"
      BY <1>3 DEF Opened
    <2>2. CASE j = 1
      <3>1. \A k \in 1..i : k + 1 \in (j + 1)..(i + 1)
        BY <1>1, <2>2
      <3>2. \A k \in 1..i : requests'[k].action = "save"
        BY <1>2, <2>1, <3>1
      <3>3. AtFirst'
        BY <2>1, <2>2
      <3> QED
        BY <3>2, <3>3 DEF AtFirstTo
    <2>3. CASE j # 1
      <3>1. j - 1 \in 1..i /\ (j - 1) + 1 = j
        BY <1>1, <2>3
      <3>2. requests'[j - 1].action \in Openings
        BY <1>2, <2>1, <3>1
      <3>3. \A k \in ((j - 1) + 1)..i : requests'[k].action = "save"
        <4> TAKE k \in ((j - 1) + 1)..i
        <4>1. k \in 1..i /\ k + 1 \in (j + 1)..(i + 1)
          BY <1>1, <3>1
        <4> QED
          BY <1>2, <2>1, <4>1
      <3> QED
        BY <3>1, <3>2, <3>3 DEF Opened
    <2> QED
      BY <2>2, <2>3
  <1>4. CASE AtFirstTo(i + 1)
    <2>1. AtFirst /\ \A k \in 1..(i + 1) : requests[k].action = "save"
      BY <1>4 DEF AtFirstTo
    <2>2. 1 \in 1..(i + 1) /\ \A k \in 1..i : k + 1 \in 1..(i + 1)
      BY <1>1
    <2>3. AtFirst' /\ \A k \in 1..i : requests'[k].action = "save"
      BY <1>2, <2>1, <2>2
    <2> QED
      BY <2>3 DEF AtFirstTo
  <1> QED
    BY <1>3, <1>4

LEMMA ReadSavesSame ==
  ASSUME AnyUser, NEW action, Reads(action), UNCHANGED <<page, dir>>,
         action \in Openings => AtFirst', action = "save" /\ AtFirst => AtFirst'
  PROVE  SavesInOrder'
  <1>1. /\ Len(requests) \in Nat \ {0} /\ Len(requests') = Len(requests) - 1
        /\ requests[1].action = action
        /\ \A i \in 1..Len(requests') : requests'[i] = requests[i + 1]
        /\ \A i \in 1..Len(requests) : Asked'[i] = Asked[i + 1]
    BY WasRead
  <1>2. ASSUME NEW i \in 1..Len(requests'), requests'[i].action = "save",
               Asked'[i + 1].action = "run"
        PROVE  Opened(i + 1) \/ AtFirstTo(i + 1)
    <2>1. i + 1 \in 1..Len(requests)
      BY <1>1
    <2>2. requests[i + 1].action = "save" /\ Asked[(i + 1) + 1].action = "run"
      BY <1>1, <1>2, <2>1
    <2> QED
      BY <2>1, <2>2 DEF AnyUser, SavesInOrder
  <1> QED
    BY <1>1, <1>2, ReadSaves
----------------------------------------------------------------------------
(* The invariant of every user. *)

LEMMA OpenKeeps == AnyUser /\ OpenWizard => AnyUser'
  <1> SUFFICES ASSUME AnyUser, OpenWizard PROVE AnyUser'
    OBVIOUS
  <1>1. /\ page' = "menu" /\ Send("start", dir, 0)
        /\ known' = {} /\ UNCHANGED <<dir, busy, submitted, stale, serverPart>>
    BY DEF OpenWizard, Ask
  <1>2. Request("start", dir, 0).action = "start"
    BY DEF Request
  <1>3. Like(Request("start", dir, 0), Coming) /\ Follows(Request("start", dir, 0), Coming')
    BY <1>1, <1>2, ComingNext DEF Like, Follows, Runs
  <1>4. /\ "start" \in Actions /\ dir \in Directions \cup {"test"} /\ 0 \in 0..MaxAngle
        /\ page' \in WizardPages /\ dir' \in Directions \cup {"test"} /\ busy' \in BOOLEAN
    BY <1>1, CalibrationAssumption DEF AnyUser, CalibTypeOK, Actions, WizardPages
  <1>5. "start" \in Openings /\ stale' \in BOOLEAN
    BY <1>1 DEF Openings, AnyUser, CalibTypeOK
  <1> HIDE DEF AnyUser
  <1> QED
    BY <1>1, <1>3, <1>4, <1>5, Sent

LEMMA ExitKeeps == AnyUser /\ ExitWizard => AnyUser'
  <1> SUFFICES ASSUME AnyUser, ExitWizard PROVE AnyUser'
    OBVIOUS
  <1>1. /\ page' = "away" /\ Send("exit", dir, 0)
        /\ submitted' \in {submitted, "none"} /\ known' = {}
        /\ UNCHANGED <<dir, stale, serverPart>>
    BY DEF ExitWizard, Ask
  <1>2. Request("exit", dir, 0).action = "exit"
    BY DEF Request
  <1>3. Like(Request("exit", dir, 0), Coming) /\ Follows(Request("exit", dir, 0), Coming')
    BY <1>1, <1>2, ComingNext DEF Like, Follows, Runs
  <1>4. /\ "exit" \in Actions /\ dir \in Directions \cup {"test"} /\ 0 \in 0..MaxAngle
        /\ page' \in WizardPages /\ dir' \in Directions \cup {"test"}
    BY <1>1, CalibrationAssumption DEF AnyUser, CalibTypeOK, Actions, WizardPages
  <1>5. busy' \in BOOLEAN
    BY DEF ExitWizard, AnyUser, CalibTypeOK
  <1>6. stale' \in BOOLEAN
    BY <1>1 DEF AnyUser, CalibTypeOK
  <1>7. page' # "menu"
    BY <1>1
  <1> QED
    BY <1>1, <1>3, <1>4, <1>5, <1>6, <1>7, Sent

LEMMA ContinueKeeps ==
  ASSUME AnyUser, NEW d \in Directions \cup {"test"}, ContinueDirection(d)
  PROVE  AnyUser'
  <1>1. /\ page' = "ready" /\ dir' = d /\ Send("continue", d, 0)
        /\ UNCHANGED <<busy, submitted, known, stale, serverPart>>
    BY DEF ContinueDirection
  <1>2. Request("continue", d, 0).action = "continue" /\ Request("continue", d, 0).dir = d
    BY DEF Request
  <1>3. Like(Request("continue", d, 0), Coming) /\ Follows(Request("continue", d, 0), Coming')
    BY <1>1, <1>2, ComingNext DEF Like, Follows, Runs
  <1>4. /\ "continue" \in Actions /\ 0 \in 0..MaxAngle
        /\ page' \in WizardPages /\ dir' \in Directions \cup {"test"} /\ busy' \in BOOLEAN
    BY <1>1, CalibrationAssumption DEF AnyUser, CalibTypeOK, Actions, WizardPages
  <1>5. known' \subseteq Directions \cup {"test"} /\ stale' \in BOOLEAN
    BY <1>1 DEF AnyUser, CalibTypeOK
  <1>6. page' # "menu"
    BY <1>1
  <1> QED
    BY <1>1, <1>3, <1>4, <1>5, <1>6, Sent

LEMMA StartRunKeeps == AnyUser /\ StartRun => AnyUser'
  <1> SUFFICES ASSUME AnyUser, StartRun PROVE AnyUser'
    OBVIOUS
  <1>1. /\ page = "ready" /\ page' = "ran" /\ busy' = TRUE /\ Send("run", dir, 0)
        /\ UNCHANGED <<dir, submitted, known, stale, serverPart>>
    BY DEF StartRun, Ask
  <1>2. Request("run", dir, 0).action = "run" /\ Request("run", dir, 0).dir = dir
    BY DEF Request
  <1>3. Like(Request("run", dir, 0), Coming) /\ Follows(Request("run", dir, 0), Coming')
    BY <1>1, <1>2, ComingNext DEF Like, Follows, Runs
  <1>4. /\ "run" \in Actions /\ dir \in Directions \cup {"test"} /\ 0 \in 0..MaxAngle
        /\ page' \in WizardPages /\ dir' \in Directions \cup {"test"} /\ busy' \in BOOLEAN
    BY <1>1, CalibrationAssumption DEF AnyUser, CalibTypeOK, Actions, WizardPages
  <1>5. known' \subseteq Directions \cup {"test"} /\ stale' \in BOOLEAN
    BY <1>1 DEF AnyUser, CalibTypeOK
  <1>6. page' # "menu"
    BY <1>1
  <1> QED
    BY <1>1, <1>3, <1>4, <1>5, <1>6, Sent

LEMMA ReRunKeeps == AnyUser /\ ReRun => AnyUser'
  <1> SUFFICES ASSUME AnyUser, ReRun PROVE AnyUser'
    OBVIOUS
  <1>1. /\ page = "ran" /\ page' = "ready" /\ busy' = TRUE /\ Send("re-run", dir, 0)
        /\ UNCHANGED <<dir, submitted, known, stale, serverPart>>
    BY DEF ReRun, Ask
  <1>2. Request("re-run", dir, 0).action = "re-run" /\ Request("re-run", dir, 0).dir = dir
    BY DEF Request
  <1>3. Like(Request("re-run", dir, 0), Coming) /\ Follows(Request("re-run", dir, 0), Coming')
    BY <1>1, <1>2, ComingNext DEF Like, Follows, Runs
  <1>4. /\ "re-run" \in Actions /\ dir \in Directions \cup {"test"} /\ 0 \in 0..MaxAngle
        /\ page' \in WizardPages /\ dir' \in Directions \cup {"test"} /\ busy' \in BOOLEAN
    BY <1>1, CalibrationAssumption DEF AnyUser, CalibTypeOK, Actions, WizardPages
  <1>5. known' \subseteq Directions \cup {"test"} /\ stale' \in BOOLEAN
    BY <1>1 DEF AnyUser, CalibTypeOK
  <1>6. page' # "menu"
    BY <1>1
  <1> QED
    BY <1>1, <1>3, <1>4, <1>5, <1>6, Sent

LEMMA SubmitKeeps == AnyUser /\ SubmitMeasurements => AnyUser'
  <1> SUFFICES ASSUME AnyUser, SubmitMeasurements PROVE AnyUser'
    OBVIOUS
  <1>1. /\ page = "ran" /\ dir # "test" /\ submitted' = dir
        /\ UNCHANGED <<page, dir, busy, known, stale, serverPart>>
    BY DEF SubmitMeasurements
  <1>2. PICK a \in 1..MaxAngle : Send("submit", dir, a)
    BY DEF SubmitMeasurements
  <1>3. Request("submit", dir, a).action = "submit" /\ Request("submit", dir, a).dir = dir
    BY DEF Request
  <1>4. Like(Request("submit", dir, a), Coming) /\ Follows(Request("submit", dir, a), Coming')
    BY <1>1, <1>3, ComingNext DEF Like, Follows, Runs
  <1>5. /\ "submit" \in Actions /\ dir \in Directions /\ dir \in Directions \cup {"test"}
        /\ a \in 0..MaxAngle
        /\ page' \in WizardPages /\ dir' \in Directions \cup {"test"} /\ busy' \in BOOLEAN
    BY <1>1, CalibrationAssumption DEF AnyUser, CalibTypeOK, Actions
  <1>6. page' # "menu" /\ known' \subseteq Directions \cup {"test"} /\ stale' \in BOOLEAN
    BY <1>1 DEF AnyUser, CalibTypeOK
  <1> QED
    BY <1>1, <1>2, <1>4, <1>5, <1>6, Sent

LEMMA StraightKeeps == AnyUser /\ TestRunStraight => AnyUser'
  <1> SUFFICES ASSUME AnyUser, TestRunStraight PROVE AnyUser'
    OBVIOUS
  <1>1. /\ page = "ran" /\ dir = "test" /\ page' = "menu" /\ busy' = TRUE
        /\ Send("test_run_done", dir, 0)
        /\ UNCHANGED <<dir, submitted, known, stale, serverPart>>
    BY DEF TestRunStraight, Ask
  <1>2. /\ Request("test_run_done", dir, 0).action = "test_run_done"
        /\ Request("test_run_done", dir, 0).dir = dir
    BY DEF Request
  <1>3. /\ Like(Request("test_run_done", dir, 0), Coming)
        /\ Follows(Request("test_run_done", dir, 0), Coming')
    BY <1>1, <1>2, ComingNext DEF Like, Follows, Runs
  <1>4. /\ "test_run_done" \in Actions /\ dir \in Directions \cup {"test"} /\ 0 \in 0..MaxAngle
        /\ page' \in WizardPages /\ dir' \in Directions \cup {"test"} /\ busy' \in BOOLEAN
    BY <1>1, CalibrationAssumption DEF AnyUser, CalibTypeOK, Actions, WizardPages
  <1>5. /\ "test_run_done" \in Openings /\ known' \subseteq Directions \cup {"test"}
        /\ stale' \in BOOLEAN
    BY <1>1 DEF Openings, AnyUser, CalibTypeOK
  <1> HIDE DEF AnyUser
  <1> QED
    BY <1>1, <1>3, <1>4, <1>5, Sent

LEMMA RecalibrateKeeps == AnyUser /\ Recalibrate => AnyUser'
  <1> SUFFICES ASSUME AnyUser, Recalibrate PROVE AnyUser'
    OBVIOUS
  <1>1. /\ page' = "menu" /\ busy' = TRUE /\ Send("start", dir, 0)
        /\ UNCHANGED <<dir, submitted, known, stale, serverPart>>
    BY DEF Recalibrate, Ask
  <1>2. Request("start", dir, 0).action = "start"
    BY DEF Request
  <1>3. Like(Request("start", dir, 0), Coming) /\ Follows(Request("start", dir, 0), Coming')
    BY <1>1, <1>2, ComingNext DEF Like, Follows, Runs
  <1>4. /\ "start" \in Actions /\ dir \in Directions \cup {"test"} /\ 0 \in 0..MaxAngle
        /\ page' \in WizardPages /\ dir' \in Directions \cup {"test"} /\ busy' \in BOOLEAN
    BY <1>1, CalibrationAssumption DEF AnyUser, CalibTypeOK, Actions, WizardPages
  <1>5. /\ "start" \in Openings /\ known' \subseteq Directions \cup {"test"}
        /\ stale' \in BOOLEAN
    BY <1>1 DEF Openings, AnyUser, CalibTypeOK
  <1> HIDE DEF AnyUser
  <1> QED
    BY <1>1, <1>3, <1>4, <1>5, Sent

LEMMA SaveKeeps == AnyUser /\ SaveCalibration => AnyUser'
  <1> SUFFICES ASSUME AnyUser, SaveCalibration PROVE AnyUser'
    OBVIOUS
  <1>1. /\ page = "menu" /\ known = Directions \cup {"test"} /\ Send("save", dir, 0)
        /\ stale' = (stale \/ known # completed \/ ResetUnread)
        /\ UNCHANGED <<page, dir, busy, submitted, known, serverPart>>
    BY DEF SaveCalibration, Ask
  <1>2. Request("save", dir, 0).action = "save"
    BY DEF Request
  <1>3. Like(Request("save", dir, 0), Coming) /\ Follows(Request("save", dir, 0), Coming')
    BY <1>1, <1>2, ComingNext DEF Like, Follows, Runs
  <1>4. /\ "save" \in Actions /\ dir \in Directions \cup {"test"} /\ 0 \in 0..MaxAngle
        /\ page' \in WizardPages /\ dir' \in Directions \cup {"test"} /\ busy' \in BOOLEAN
    BY <1>1, CalibrationAssumption DEF AnyUser, CalibTypeOK, Actions, WizardPages
  <1>5. stale' \in BOOLEAN /\ (stale => stale')
    BY <1>1 DEF AnyUser, CalibTypeOK
  <1>6. ASSUME ~stale'
        PROVE  /\ completed = Directions \cup {"test"}
               /\ \A i \in 1..Len(requests) : requests[i].action \notin {"start", "exit"}
    BY <1>1, <1>6 DEF ResetUnread
  <1> HIDE DEF AnyUser
  <1> QED
    BY <1>1, <1>3, <1>4, <1>5, <1>6, Sent

\* The requests of a page that is reloaded are not the new page's, and unchanged
\* otherwise.
LEMMA Reloaded ==
  ASSUME CalibTypeOK, ReloadPage
  PROVE  /\ requests' \in Seq(RequestSet) /\ Len(requests') = Len(requests)
         /\ Len(requests) \in Nat
         /\ \A i \in 1..Len(requests) :
              /\ requests'[i].action = requests[i].action /\ requests'[i].dir = requests[i].dir
              /\ requests'[i].angle = requests[i].angle /\ ~requests'[i].mine
         /\ Asked \in Seq(RequestSet) /\ Asked' \in Seq(RequestSet)
         /\ \A i \in 1..Len(requests) : Asked[i] = requests[i] /\ Asked'[i] = requests'[i]
         /\ Asked'[Len(requests) + 1] = Coming' /\ Coming'.action = "exit"
         /\ serving' = [serving EXCEPT !.mine = FALSE]
         /\ page' = "away" /\ submitted' = "none" /\ busy' = FALSE /\ known' = {}
         /\ UNCHANGED <<dir, hasty, stale, step, table, validAngles, maxAngle, completed,
                        saved, board, pwmBox, doneBox>>
  <1>1. requests \in Seq(RequestSet)
    BY RequestsTyped
  <1>2. requests' = [i \in DOMAIN requests |-> [requests[i] EXCEPT !.mine = FALSE]]
    BY DEF ReloadPage
  <1>3. ASSUME NEW r \in RequestSet
        PROVE  LET q == [r EXCEPT !.mine = FALSE]
               IN q \in RequestSet /\ q.action = r.action /\ q.dir = r.dir
                  /\ q.angle = r.angle /\ ~q.mine
    BY DEF RequestSet
  <1>4. /\ requests' \in Seq(RequestSet) /\ Len(requests') = Len(requests)
        /\ Len(requests) \in Nat
        /\ \A i \in 1..Len(requests) : requests'[i] = [requests[i] EXCEPT !.mine = FALSE]
    <2>1. /\ DOMAIN requests = 1..Len(requests) /\ Len(requests) \in Nat
          /\ \A i \in 1..Len(requests) : requests[i] \in RequestSet
      BY <1>1
    <2>2. requests' \in [1..Len(requests) -> RequestSet]
      BY <1>2, <1>3, <2>1
    <2>3. \A i \in 1..Len(requests) : requests'[i] = [requests[i] EXCEPT !.mine = FALSE]
      BY <1>2, <2>1
    <2>4. requests' \in Seq(RequestSet) /\ Len(requests') = Len(requests)
      BY <2>1, <2>2
    <2> QED
      BY <2>1, <2>3, <2>4
  <1>5. \A i \in 1..Len(requests) :
          /\ requests'[i].action = requests[i].action /\ requests'[i].dir = requests[i].dir
          /\ requests'[i].angle = requests[i].angle /\ ~requests'[i].mine
    <2> TAKE i \in 1..Len(requests)
    <2>1. requests[i] \in RequestSet
      BY <1>1
    <2> QED
      BY <1>3, <1>4, <2>1
  <1>6. /\ page' = "away" /\ submitted' = "none" /\ busy' = FALSE /\ known' = {}
        /\ serving' = [serving EXCEPT !.mine = FALSE]
        /\ UNCHANGED <<dir, hasty, stale, step, table, validAngles, maxAngle, completed,
                       saved, board, pwmBox, doneBox>>
    BY DEF ReloadPage, results, answers
  <1>7. /\ Coming \in RequestSet /\ Coming' \in RequestSet /\ Coming'.action = "exit"
    <2>1. Coming' = Request("exit", dir, 0)
      BY <1>6 DEF Coming, Request
    <2>2. "exit" \in Actions /\ dir \in Directions \cup {"test"} /\ 0 \in 0..MaxAngle
      BY CalibrationAssumption DEF CalibTypeOK, Actions
    <2> QED
      BY <2>1, <2>2, RequestTyped, ComingTyped
  <1>8. /\ Asked \in Seq(RequestSet) /\ Asked' \in Seq(RequestSet)
        /\ \A i \in 1..Len(requests) : Asked[i] = requests[i] /\ Asked'[i] = requests'[i]
        /\ Asked'[Len(requests) + 1] = Coming'
    BY <1>1, <1>4, <1>7, AppendedTo DEF Asked
  <1> QED
    BY <1>4, <1>5, <1>6, <1>7, <1>8

LEMMA ReloadKeeps == AnyUser /\ ReloadPage => AnyUser'
  <1> SUFFICES ASSUME AnyUser, ReloadPage PROVE AnyUser'
    OBVIOUS
  <1> DEFINE n == Len(requests)
  <1>1. CalibTypeOK
    BY DEF AnyUser
  <1>2. /\ requests' \in Seq(RequestSet) /\ Len(requests') = n /\ n \in Nat
        /\ \A i \in 1..n :
             /\ requests'[i].action = requests[i].action /\ requests'[i].dir = requests[i].dir
             /\ requests'[i].angle = requests[i].angle /\ ~requests'[i].mine
        /\ \A i \in 1..n : Asked[i] = requests[i] /\ Asked'[i] = requests'[i]
        /\ Asked'[n + 1] = Coming' /\ Coming'.action = "exit"
    BY <1>1, Reloaded
  <1>3. /\ serving' = [serving EXCEPT !.mine = FALSE]
        /\ page' = "away" /\ submitted' = "none" /\ busy' = FALSE /\ known' = {}
        /\ UNCHANGED <<dir, hasty, stale, step, table, validAngles, maxAngle, completed,
                       saved, board, pwmBox, doneBox>>
    BY <1>1, Reloaded
  <1>4. /\ serving'.waits = serving.waits /\ serving'.dir = serving.dir
        /\ serving' \in [waits : {"none", "pwm", "done"}, dir : Directions \cup {"test"},
                         mine : BOOLEAN]
    BY <1>1, <1>3 DEF CalibTypeOK
  <1>5. CalibTypeOK'
    BY <1>1, <1>2, <1>3, <1>4 DEF CalibTypeOK, RequestSet, WizardPages
  <1>6. TableOK' /\ CompletedDriven' /\ MaxAngleOwn' /\ SubmittedOK'
    BY <1>3 DEF AnyUser, TableOK, CompletedDriven, MaxAngleOwn, DrivenTo, SubmittedOK
  <1>7. RequestsOK'
    <2> SUFFICES ASSUME NEW i \in 1..n
                 PROVE  /\ requests'[i].action = "submit" =>
                             requests'[i].dir \in Directions /\ requests'[i].angle \in 1..MaxAngle
                        /\ requests'[i].action = "test_run_done" => requests'[i].dir = "test"
                        /\ requests'[i].action = "save" /\ ~stale' =>
                             /\ completed = Directions \cup {"test"}
                             /\ \A j \in 1..i : requests'[j].action \notin {"start", "exit"}
      BY <1>2, <1>3 DEF RequestsOK
    <2> QED
      BY <1>2, <1>3 DEF AnyUser, RequestsOK
  <1>8. \A i \in 1..n : Follows(Asked[i], Asked[i + 1])
    BY DEF AnyUser, InOrder
  <1>9. \A i \in 1..n : Follows(Asked'[i], Asked'[i + 1])
    <2> TAKE i \in 1..n
    <2>1. CASE i = n
      BY <1>2, <2>1 DEF Follows, Runs
    <2>2. CASE i # n
      <3>1. i + 1 \in 1..n
        BY <1>2, <2>2
      <3> QED
        BY <1>2, <1>8, <3>1 DEF Follows
    <2> QED
      BY <2>1, <2>2
  <1>10. serving.waits # "none" => Follows(Served, Asked[1])
    BY DEF AnyUser, InOrder
  <1>11. Served'.action = Served.action /\ Served'.dir = Served.dir
    BY <1>4 DEF Served, Request
  <1>14. SavesInOrder'
    <2> SUFFICES ASSUME NEW i \in 1..n, requests'[i].action = "save",
                        Asked'[i + 1].action = "run"
                 PROVE  Opened(i)' \/ AtFirstTo(i)'
      BY <1>2 DEF SavesInOrder
    <2>1. i # n
      BY <1>2
    <2>2. i + 1 \in 1..n
      BY <1>2, <2>1
    <2>3. requests[i].action = "save" /\ Asked[i + 1].action = "run"
      BY <1>2, <2>2
    <2>4. Opened(i) \/ AtFirstTo(i)
      BY <2>3 DEF AnyUser, SavesInOrder
    <2>5. \A k \in 1..i : requests'[k].action = requests[k].action
      BY <1>2
    <2>6. Opened(i) => Opened(i)'
      BY <2>5 DEF Opened
    <2>7. AtFirstTo(i) => AtFirstTo(i)'
      BY <1>3, <1>4, <2>5 DEF AtFirstTo, AtFirst
    <2> QED
      BY <2>4, <2>6, <2>7
  <1>12. CASE n = 0
    <2>1. Asked'[1].action = "exit"
      BY <1>2, <1>12
    <2>2. InOrder'
      BY <1>2, <1>9, <2>1 DEF InOrder, Follows, Runs
    <2>3. ServerSuits'
      BY <1>3, <1>4, <2>1 DEF AnyUser, ServerSuits, Suits, Runs, DrivenTo
    <2> QED
      BY <1>5, <1>6, <1>7, <1>14, <2>2, <2>3 DEF AnyUser
  <1>13. CASE n > 0
    <2>1. 1 \in 1..n
      BY <1>2, <1>13
    <2>2. Asked'[1].action = Asked[1].action /\ Asked'[1].dir = Asked[1].dir
      BY <1>2, <2>1
    <2>3. InOrder'
      BY <1>2, <1>4, <1>9, <1>10, <1>11, <2>2 DEF InOrder, Follows
    <2>4. ServerSuits'
      BY <1>3, <1>4, <2>2 DEF AnyUser, ServerSuits, Suits, DrivenTo
    <2> QED
      BY <1>5, <1>6, <1>7, <1>14, <2>3, <2>4 DEF AnyUser
  <1> QED
    BY <1>2, <1>12, <1>13

LEMMA UserKeeps == AnyUser /\ CalibUser => AnyUser'
  BY OpenKeeps, ExitKeeps, RecalibrateKeeps, ReloadKeeps, ContinueKeeps, StartRunKeeps,
     ReRunKeeps, SubmitKeeps, StraightKeeps, SaveKeeps DEF CalibUser
----------------------------------------------------------------------------
(* The server's steps. *)

\* What stays of the invariant when a request is read that changes nothing known of
\* the runs.
LEMMA ReadKeeps ==
  ASSUME AnyUser, NEW action, Reads(action), action # "submit",
         UNCHANGED <<page, dir, submitted, hasty, stale>>, busy' \in BOOLEAN, step' \in Nat,
         known' \subseteq Directions \cup {"test"},
         saved' \in {"none", "whole", "part"},
         serving' \in [waits : {"none", "pwm", "done"}, dir : Directions \cup {"test"},
                       mine : BOOLEAN],
         board' \in {"idle", "run", "driving"}, UNCHANGED <<pwmBox, doneBox>>,
         UNCHANGED <<table, maxAngle, validAngles>>,
         completed' = completed \cup {"test"} \/ completed' = completed
  PROVE  /\ CalibTypeOK' /\ TableOK' /\ RequestsOK' /\ SubmittedOK'
         /\ CompletedDriven' /\ MaxAngleOwn'
  <1>1. requests' \in Seq(RequestSet)
    BY WasRead
  <1>2. completed \subseteq Directions \cup {"test"}
    BY DEF AnyUser, CalibTypeOK
  <1>3. CalibTypeOK'
    BY <1>1, <1>2 DEF AnyUser, CalibTypeOK, RequestSet
  <1>4. RequestsOK'
    <2>1. completed \subseteq completed' /\ completed' \subseteq Directions \cup {"test"}
      BY <1>2
    <2> QED
      BY <2>1, ReadRequestsOK
  <1>5. SubmittedOK'
    BY ReadSubmittedOK
  <1>6. "test" \notin Directions /\ "test" \notin Turns
    BY DEF Directions, Turns
  <1>7. TableOK' /\ CompletedDriven' /\ MaxAngleOwn'
    BY <1>6 DEF AnyUser, TableOK, CompletedDriven, MaxAngleOwn, DrivenTo
  <1> QED
    BY <1>3, <1>4, <1>5, <1>7

LEMMA ResetKeeps == AnyUser /\ HandleStartOrExit => AnyUser'
  <1> SUFFICES ASSUME AnyUser, HandleStartOrExit PROVE AnyUser'
    OBVIOUS
  <1>1. PICK action \in {"start", "exit"} : Reads(action)
    BY DEF HandleStartOrExit
  <1>2. /\ step' = 0 /\ table' = EmptyTable /\ validAngles' = NoAngle
        /\ maxAngle' = [d \in Turns |-> NoAngle] /\ completed' = {}
        /\ UNCHANGED <<page, dir, busy, submitted, known, hasty, stale, serving, saved, board,
                       pwmBox, doneBox>>
    BY DEF HandleStartOrExit, wizard, answers
  <1>3. /\ requests' \in Seq(RequestSet) /\ serving.waits = "none"
        /\ requests[1].action = action
        /\ \A i \in 1..Len(requests') : Follows(Asked'[i], Asked'[i + 1])
        /\ Follows(requests[1], Asked'[1])
    BY <1>1, <1>2, WasRead
  <1>4. RequestsOK' /\ SubmittedOK'
    BY <1>1, <1>2, ReadRequestsOK, ReadSubmittedOK
  <1>11. SavesInOrder'
    <2>1. AtFirst'
      BY <1>2, <1>3 DEF AtFirst, NoAngle
    <2> QED
      BY <1>1, <1>2, <2>1, ReadSavesSame
  <1>5. /\ TableOK' /\ \A d \in Directions : table'[d] \in [1..RunsOf[d] -> Command]
    BY <1>2 DEF TableOK, EmptyTable, Command
  <1>6. NoAngle \in AngleInfo /\ NoAngle.of = {}
    BY CalibrationAssumption DEF NoAngle, AngleInfo
  <1>7. CalibTypeOK'
    BY <1>2, <1>3, <1>5, <1>6 DEF AnyUser, CalibTypeOK, RequestSet
  <1>8. CompletedDriven' /\ MaxAngleOwn'
    BY <1>2, <1>6 DEF CompletedDriven, MaxAngleOwn
  <1>9. InOrder'
    BY <1>2, <1>3 DEF InOrder
  <1>10. ServerSuits'
    <2>1. Asked'[1].action \in Runs => Asked'[1].action = "run"
      BY <1>1, <1>3 DEF Follows
    <2>2. \A d \in Directions : RunsOf[d] \in Nat
      BY CalibrationAssumption
    <2> QED
      BY <1>2, <1>3, <1>6, <2>1, <2>2 DEF ServerSuits, Suits, DrivenTo
  <1> QED
    BY <1>4, <1>5, <1>7, <1>8, <1>9, <1>10, <1>11 DEF AnyUser

LEMMA ContinueHandled == AnyUser /\ HandleContinue => AnyUser'
  <1> SUFFICES ASSUME AnyUser, HandleContinue PROVE AnyUser'
    OBVIOUS
  <1>1. /\ Reads("continue") /\ step' = 0 /\ validAngles' = NoAngle
        /\ UNCHANGED <<page, dir, busy, submitted, known, hasty, stale, serving, table,
                       maxAngle, completed, saved, board, pwmBox, doneBox>>
    BY DEF HandleContinue, wizard, answers, FirstStep
  <1>2. /\ requests' \in Seq(RequestSet) /\ serving.waits = "none"
        /\ requests[1].action = "continue"
        /\ \A i \in 1..Len(requests') : Follows(Asked'[i], Asked'[i + 1])
        /\ Follows(requests[1], Asked'[1])
    BY <1>1, WasRead
  <1>3. RequestsOK' /\ SubmittedOK'
    BY <1>1, ReadRequestsOK, ReadSubmittedOK
  <1>9. SavesInOrder'
    BY <1>1, ReadSavesSame DEF Openings
  <1>4. NoAngle \in AngleInfo /\ NoAngle.of = {}
    BY CalibrationAssumption DEF NoAngle, AngleInfo
  <1>5. CalibTypeOK'
    BY <1>1, <1>2, <1>4 DEF AnyUser, CalibTypeOK, RequestSet
  <1>6. TableOK' /\ CompletedDriven' /\ MaxAngleOwn'
    BY <1>1 DEF AnyUser, TableOK, CompletedDriven, DrivenTo, MaxAngleOwn
  <1>7. InOrder'
    BY <1>1, <1>2 DEF InOrder
  <1>8. ServerSuits'
    <2>1. Asked'[1].action \in Runs => Asked'[1].action = "run"
      BY <1>2 DEF Follows
    <2>2. \A d \in Directions : RunsOf[d] \in Nat
      BY CalibrationAssumption
    <2> QED
      BY <1>1, <1>2, <1>4, <2>1, <2>2 DEF ServerSuits, Suits, DrivenTo
  <1> QED
    BY <1>3, <1>5, <1>6, <1>7, <1>8, <1>9 DEF AnyUser

LEMMA ReRunHandled == AnyUser /\ HandleReRun => AnyUser'
  <1> SUFFICES ASSUME AnyUser, HandleReRun PROVE AnyUser'
    OBVIOUS
  <1>1. /\ Reads("re-run") /\ step' = StepBack
        /\ UNCHANGED <<page, dir, busy, submitted, known, hasty, stale, serving, table,
                       validAngles, maxAngle, completed, saved, board, pwmBox, doneBox>>
    BY DEF HandleReRun, wizard, results, answers
  <1>2. /\ serving.waits = "none" /\ requests[1].action = "re-run"
        /\ requests[1] \in RequestSet
        /\ \A i \in 1..Len(requests') : Follows(Asked'[i], Asked'[i + 1])
        /\ Follows(requests[1], Asked'[1]) /\ Suits(requests[1])
    BY <1>1, WasRead
  <1>3. step \in Nat /\ step' \in Nat /\ (step >= 1 => step' = step - 1)
    BY <1>1 DEF AnyUser, CalibTypeOK, StepBack
  <1>4. /\ CalibTypeOK' /\ TableOK' /\ RequestsOK' /\ SubmittedOK'
        /\ CompletedDriven' /\ MaxAngleOwn'
    <2>1. /\ serving' \in [waits : {"none", "pwm", "done"}, dir : Directions \cup {"test"},
                           mine : BOOLEAN]
          /\ board' \in {"idle", "run", "driving"} /\ busy' \in BOOLEAN
          /\ saved' \in {"none", "whole", "part"} /\ known' \subseteq Directions \cup {"test"}
      BY <1>1 DEF AnyUser, CalibTypeOK
    <2> QED
      BY <1>1, <1>3, <2>1, ReadKeeps
  <1>8. SavesInOrder'
    BY <1>1, ReadSavesSame DEF Openings
  <1>5. InOrder'
    BY <1>1, <1>2 DEF InOrder
  <1>6. Suits(Asked[1])'
    <2> SUFFICES ASSUME Asked'[1].action \in Runs
                 PROVE  /\ Asked'[1].dir \in Directions =>
                             /\ step' <= RunsOf[Asked'[1].dir] /\ DrivenTo(Asked'[1].dir, step')
                             /\ validAngles.of \subseteq {Asked'[1].dir}
                             /\ Asked'[1].action = "run"
                        /\ Asked'[1].dir = "test" => step' = 0 /\ validAngles.of = {}
      BY <1>1 DEF Suits, DrivenTo
    <2>1. Asked'[1].action = "run" /\ Asked'[1].dir = requests[1].dir
      BY <1>2 DEF Follows, Openings
    <2>4. CASE requests[1].dir = "test"
      <3>1. step = 0 /\ validAngles.of = {}
        BY <1>2, <2>4 DEF Suits, Runs
      <3>2. step' = 0 /\ "test" \notin Directions
        BY <1>1, <3>1 DEF StepBack, Directions, Turns
      <3> QED
        BY <2>1, <2>4, <3>1, <3>2
    <2>5. CASE requests[1].dir \in Directions
      <3>2. LET d == requests[1].dir
            IN /\ step <= RunsOf[d] /\ DrivenTo(d, step) /\ validAngles.of \subseteq {d}
               /\ step >= 1
        BY <1>2, <2>5 DEF Suits, Runs
      <3>3. RunsOf[requests[1].dir] \in Nat /\ "test" \notin Directions
        BY <2>5, CalibrationAssumption DEF Directions, Turns
      <3> QED
        BY <1>3, <2>1, <2>5, <3>2, <3>3 DEF DrivenTo
    <2> QED
      BY <1>2, <2>4, <2>5 DEF RequestSet
  <1>7. ServerSuits'
    BY <1>1, <1>2, <1>6 DEF ServerSuits
  <1> QED
    BY <1>4, <1>5, <1>7, <1>8 DEF AnyUser

LEMMA RunHandled == AnyUser /\ HandleRun => AnyUser'
  <1> SUFFICES ASSUME AnyUser, HandleRun PROVE AnyUser'
    OBVIOUS
  <1> DEFINE r == requests[1]
  <1>1. /\ Reads("run")
        /\ UNCHANGED <<page, dir, busy, submitted, known, hasty, stale, step, table,
                       validAngles, maxAngle, completed, saved, pwmBox, doneBox>>
    BY DEF HandleRun, wizard, results
  <1>2. /\ serving.waits = "none" /\ r.action = "run" /\ r \in RequestSet /\ Head(requests) = r
        /\ \A i \in 1..Len(requests') : Follows(Asked'[i], Asked'[i + 1])
        /\ Follows(r, Asked'[1]) /\ Suits(r)
    BY <1>1, WasRead
  <1>3. \/ r.dir # "test" /\ step >= RunsOf[r.dir] /\ UNCHANGED <<serving, board>>
        \/ /\ r.dir # "test" => ~(step >= RunsOf[r.dir])
           /\ serving' = [waits |-> "pwm", dir |-> r.dir, mine |-> r.mine] /\ board' = "run"
    BY <1>2 DEF HandleRun
  <1>4. /\ r.dir \in Directions \cup {"test"} /\ r.mine \in BOOLEAN
        /\ "test" \notin Directions /\ \A d \in Directions : RunsOf[d] \in Nat \ {0}
    BY <1>2, CalibrationAssumption DEF RequestSet, Directions, Turns
  <1>5. step \in Nat
    BY DEF AnyUser, CalibTypeOK
  <1>6. /\ CalibTypeOK' /\ TableOK' /\ RequestsOK' /\ SubmittedOK'
        /\ CompletedDriven' /\ MaxAngleOwn'
    <2>1. /\ serving' \in [waits : {"none", "pwm", "done"}, dir : Directions \cup {"test"},
                           mine : BOOLEAN]
          /\ board' \in {"idle", "run", "driving"} /\ busy' \in BOOLEAN
          /\ saved' \in {"none", "whole", "part"} /\ known' \subseteq Directions \cup {"test"}
      BY <1>1, <1>3, <1>4 DEF AnyUser, CalibTypeOK
    <2> QED
      BY <1>1, <1>5, <2>1, ReadKeeps
  <1>10. SavesInOrder'
    BY <1>1, ReadSavesSame DEF Openings
  <1>11. r.dir = "test" => step = 0 /\ validAngles.of = {}
    BY <1>2 DEF Suits, Runs
  <1>7. ASSUME Asked'[1].action \in Runs PROVE Asked'[1].dir = r.dir
    BY <1>2, <1>7 DEF Follows, Openings
  <1>8. CASE r.dir # "test" /\ step >= RunsOf[r.dir] /\ UNCHANGED <<serving, board>>
    <2>1. InOrder'
      BY <1>2, <1>8 DEF InOrder
    <2>2. Suits(Asked[1])'
      BY <1>1, <1>2, <1>4, <1>5, <1>7, <1>8 DEF Suits, DrivenTo, Runs
    <2> QED
      BY <1>2, <1>6, <1>8, <1>10, <2>1, <2>2 DEF AnyUser, ServerSuits
  <1>9. CASE /\ r.dir # "test" => ~(step >= RunsOf[r.dir])
             /\ serving' = [waits |-> "pwm", dir |-> r.dir, mine |-> r.mine]
    <2>1. serving'.waits = "pwm" /\ serving'.dir = r.dir
      BY <1>9
    <2>2. Served'.action = "run" /\ Served'.dir = r.dir
      BY <2>1 DEF Served, Request
    <2>3. Follows(Served', Asked'[1])
      BY <1>2, <2>2 DEF Follows
    <2>4. InOrder'
      BY <1>2, <2>3 DEF InOrder
    <2>5. ASSUME r.dir \in Directions
          PROVE  /\ step < RunsOf[r.dir] /\ DrivenTo(r.dir, step)
                 /\ validAngles.of \subseteq {r.dir}
      BY <1>2, <1>4, <1>5, <1>9, <2>5 DEF Suits, Runs
    <2>6. ServerSuits'
      BY <1>1, <1>11, <2>1, <2>5 DEF ServerSuits, DrivenTo
    <2> QED
      BY <1>6, <1>10, <2>4, <2>6 DEF AnyUser
  <1> QED
    BY <1>3, <1>8, <1>9
\* What is noted of one command; nothing else is forgotten.
LEMMA PwmNoted ==
  ASSUME AnyUser, NEW d \in Directions, NEW k \in 1..RunsOf[d],
         table' = [table EXCEPT ![d][k].pwm = TRUE]
  PROVE  /\ TableOK' /\ \A e \in Directions : table'[e] \in [1..RunsOf[e] -> Command]
         /\ table'[d][k].pwm
         /\ \A e \in Directions : \A i \in 1..RunsOf[e] :
              /\ table[e][i].pwm => table'[e][i].pwm
              /\ table[e][i].actual <=> table'[e][i].actual
  <1>1. /\ table = [e \in Directions |-> table[e]]
        /\ \A e \in Directions : table[e] \in [1..RunsOf[e] -> Command]
    BY DEF AnyUser, CalibTypeOK, TableOK
  <1>2. /\ table' = [e \in Directions |-> table'[e]]
        /\ table'[d] = [table[d] EXCEPT ![k].pwm = TRUE]
        /\ \A e \in Directions : e # d => table'[e] = table[e]
    BY <1>1
  <1>3. /\ table'[d][k] = [table[d][k] EXCEPT !.pwm = TRUE] /\ table[d][k] \in Command
        /\ \A i \in 1..RunsOf[d] : i # k => table'[d][i] = table[d][i]
    BY <1>1, <1>2
  <1>4. table'[d][k] \in Command /\ table'[d][k].pwm /\ table'[d][k].actual = table[d][k].actual
    BY <1>3 DEF Command
  <1>5. table'[d] \in [1..RunsOf[d] -> Command]
    BY <1>1, <1>2, <1>4
  <1>6. \A e \in Directions : \A i \in 1..RunsOf[e] :
          /\ table[e][i].pwm => table'[e][i].pwm
          /\ table[e][i].actual <=> table'[e][i].actual
    BY <1>2, <1>3, <1>4
  <1> QED
    BY <1>1, <1>2, <1>4, <1>5, <1>6 DEF TableOK

LEMMA ActualNoted ==
  ASSUME AnyUser, NEW d \in Directions, NEW k \in 1..RunsOf[d],
         table' = [table EXCEPT ![d][k].actual = TRUE]
  PROVE  /\ TableOK' /\ \A e \in Directions : table'[e] \in [1..RunsOf[e] -> Command]
         /\ table'[d][k].actual
         /\ \A e \in Directions : \A i \in 1..RunsOf[e] :
              /\ table[e][i].pwm <=> table'[e][i].pwm
              /\ table[e][i].actual => table'[e][i].actual
  <1>1. /\ table = [e \in Directions |-> table[e]]
        /\ \A e \in Directions : table[e] \in [1..RunsOf[e] -> Command]
    BY DEF AnyUser, CalibTypeOK, TableOK
  <1>2. /\ table' = [e \in Directions |-> table'[e]]
        /\ table'[d] = [table[d] EXCEPT ![k].actual = TRUE]
        /\ \A e \in Directions : e # d => table'[e] = table[e]
    BY <1>1
  <1>3. /\ table'[d][k] = [table[d][k] EXCEPT !.actual = TRUE] /\ table[d][k] \in Command
        /\ \A i \in 1..RunsOf[d] : i # k => table'[d][i] = table[d][i]
    BY <1>1, <1>2
  <1>4. table'[d][k] \in Command /\ table'[d][k].actual /\ table'[d][k].pwm = table[d][k].pwm
    BY <1>3 DEF Command
  <1>5. table'[d] \in [1..RunsOf[d] -> Command]
    BY <1>1, <1>2, <1>4
  <1>6. \A e \in Directions : \A i \in 1..RunsOf[e] :
          /\ table[e][i].pwm <=> table'[e][i].pwm
          /\ table[e][i].actual => table'[e][i].actual
    BY <1>2, <1>3, <1>4
  <1> QED
    BY <1>1, <1>2, <1>4, <1>5, <1>6 DEF TableOK

LEMMA PwmHandled == AnyUser /\ ReceivePwm => AnyUser'
  <1> SUFFICES ASSUME AnyUser, ReceivePwm PROVE AnyUser'
    OBVIOUS
  <1> DEFINE d == serving.dir
  <1>1. /\ serving.waits = "pwm" /\ pwmBox' = FALSE
        /\ serving' = [serving EXCEPT !.waits = "done"]
        /\ table' = IF d = "test" THEN table ELSE [table EXCEPT ![d][step + 1].pwm = TRUE]
        /\ UNCHANGED <<page, dir, busy, submitted, known, hasty, stale, requests, step,
                       validAngles, maxAngle, completed, saved, board, doneBox>>
    BY DEF ReceivePwm, RunAtHand, wizard
  <1>2. /\ serving'.waits = "done" /\ serving'.dir = d /\ step \in Nat
        /\ d \in Directions \cup {"test"} /\ "test" \notin Directions
        /\ serving' \in [waits : {"none", "pwm", "done"}, dir : Directions \cup {"test"},
                         mine : BOOLEAN]
        /\ \A e \in Directions : RunsOf[e] \in Nat \ {0}
    BY <1>1, CalibrationAssumption DEF AnyUser, CalibTypeOK, Directions, Turns
  <1>3. Asked' = Asked /\ Coming' = Coming /\ Served' = Served
    BY <1>1, <1>2 DEF Asked, Coming, Served, Request
  <1>4. d \in Directions =>
          step < RunsOf[d] /\ DrivenTo(d, step) /\ validAngles.of \subseteq {d}
    BY <1>1 DEF AnyUser, ServerSuits
  <1>5. /\ TableOK' /\ \A e \in Directions : table'[e] \in [1..RunsOf[e] -> Command]
        /\ d \in Directions => table'[d][step + 1].pwm
        /\ \A e \in Directions : \A i \in 1..RunsOf[e] : table[e][i].pwm => table'[e][i].pwm
    <2>1. CASE d \in Directions
      <3>1. step + 1 \in 1..RunsOf[d] /\ table' = [table EXCEPT ![d][step + 1].pwm = TRUE]
        BY <1>1, <1>2, <1>4, <2>1
      <3> QED
        BY <2>1, <3>1, PwmNoted
    <2>2. CASE d = "test"
      BY <1>1, <1>2, <2>2 DEF AnyUser, CalibTypeOK, TableOK
    <2> QED
      BY <1>2, <2>1, <2>2
  <1>6. CalibTypeOK'
    BY <1>1, <1>2, <1>5 DEF AnyUser, CalibTypeOK
  <1>7. RequestsOK' /\ SubmittedOK' /\ MaxAngleOwn'
    BY <1>1 DEF AnyUser, RequestsOK, SubmittedOK, Opened, MaxAngleOwn
  <1>11. SavesInOrder'
    BY <1>1, <1>2, <1>3 DEF AnyUser, SavesInOrder, Opened, AtFirstTo, AtFirst
  <1>12. d = "test" => step = 0 /\ validAngles.of = {}
    BY <1>1 DEF AnyUser, ServerSuits
  <1>8. InOrder'
    BY <1>1, <1>3 DEF AnyUser, InOrder
  <1>9. CompletedDriven'
    BY <1>1, <1>5 DEF AnyUser, CompletedDriven, DrivenTo
  <1>10. ServerSuits'
    <2>1. ASSUME d \in Directions PROVE DrivenTo(d, step)'
      <3>1. \A i \in 1..step : i \in 1..RunsOf[d] /\ table[d][i].pwm
        BY <1>2, <1>4, <2>1 DEF DrivenTo
      <3> QED
        BY <1>1, <1>2, <1>5, <2>1, <3>1 DEF DrivenTo
    <2> QED
      BY <1>1, <1>2, <1>4, <1>5, <1>12, <2>1 DEF ServerSuits, DrivenTo
  <1> QED
    BY <1>5, <1>6, <1>7, <1>8, <1>9, <1>10, <1>11 DEF AnyUser

LEMMA RunDoneHandled == AnyUser /\ ReceiveRunDone => AnyUser'
  <1> SUFFICES ASSUME AnyUser, ReceiveRunDone PROVE AnyUser'
    OBVIOUS
  <1> DEFINE d == serving.dir
  <1>1. /\ serving.waits = "done" /\ doneBox' = FALSE /\ serving' = NoRun
        /\ step' = IF d = "test" THEN step ELSE step + 1
        /\ busy' = (busy /\ ~serving.mine)
        /\ UNCHANGED <<page, dir, submitted, known, hasty, stale, requests, table, validAngles,
                       maxAngle, completed, saved, board, pwmBox>>
    BY DEF ReceiveRunDone, results
  <1>2. /\ serving'.waits = "none" /\ step \in Nat
        /\ d \in Directions \cup {"test"} /\ "test" \notin Directions
        /\ serving' \in [waits : {"none", "pwm", "done"}, dir : Directions \cup {"test"},
                         mine : BOOLEAN]
        /\ \A e \in Directions : RunsOf[e] \in Nat \ {0}
    BY <1>1, CalibrationAssumption DEF AnyUser, CalibTypeOK, Directions, Turns, NoRun
  <1>3. Asked' = Asked
    BY <1>1 DEF Asked, Coming, Request
  <1>4. CalibTypeOK'
    <2>1. busy' \in BOOLEAN /\ step' \in Nat
      BY <1>1, <1>2
    <2> QED
      BY <1>1, <1>2, <2>1 DEF AnyUser, CalibTypeOK
  <1>5. TableOK' /\ RequestsOK' /\ SubmittedOK' /\ MaxAngleOwn' /\ CompletedDriven'
    BY <1>1 DEF AnyUser, TableOK, RequestsOK, SubmittedOK, Opened, MaxAngleOwn, CompletedDriven,
                DrivenTo
  <1>9. SavesInOrder'
    BY <1>1, <1>3 DEF AnyUser, SavesInOrder, Opened, AtFirstTo, AtFirst
  <1>6. InOrder'
    BY <1>1, <1>2, <1>3 DEF AnyUser, InOrder
  <1>7. Suits(Asked[1])'
    <2> SUFFICES ASSUME Asked[1].action \in Runs
                 PROVE  /\ Asked[1].dir \in Directions =>
                             /\ step' <= RunsOf[Asked[1].dir] /\ DrivenTo(Asked[1].dir, step')
                             /\ validAngles.of \subseteq {Asked[1].dir} /\ step' >= 1
                        /\ Asked[1].dir = "test" => step' = 0 /\ validAngles.of = {}
      BY <1>1, <1>3 DEF Suits, DrivenTo
    <2>1. Follows(Served, Asked[1])
      BY <1>1 DEF AnyUser, InOrder
    <2>2. Asked[1].dir = d
      BY <2>1 DEF Follows, Openings, Served, Request
    <2>6. CASE d = "test"
      BY <1>1, <1>2, <2>2, <2>6 DEF AnyUser, ServerSuits
    <2>7. CASE d \in Directions
      <3>3. /\ step < RunsOf[d] /\ DrivenTo(d, step) /\ table[d][step + 1].pwm
            /\ validAngles.of \subseteq {d}
        BY <1>1, <2>7 DEF AnyUser, ServerSuits
      <3>4. step' = step + 1
        BY <1>1, <1>2, <2>7
      <3>5. DrivenTo(d, step')
        BY <1>2, <3>3, <3>4 DEF DrivenTo
      <3> QED
        BY <1>2, <2>2, <2>7, <3>3, <3>4, <3>5
    <2> QED
      BY <1>2, <2>6, <2>7
  <1>8. ServerSuits'
    BY <1>2, <1>7 DEF ServerSuits
  <1> QED
    BY <1>4, <1>5, <1>6, <1>8, <1>9 DEF AnyUser

\* At the first step any run can be done.
LEMMA RunAtFirst ==
  ASSUME AtFirst', Asked'[1].action \in Runs => Asked'[1].action = "run"
  PROVE  Suits(Asked[1])'
  <1>1. \A d \in Directions : RunsOf[d] \in Nat
    BY CalibrationAssumption
  <1> QED
    BY <1>1 DEF AtFirst, Suits, DrivenTo

LEMMA TestRunDoneHandled == AnyUser /\ HandleTestRunDone => AnyUser'
  <1> SUFFICES ASSUME AnyUser, HandleTestRunDone PROVE AnyUser'
    OBVIOUS
  <1>1. /\ Reads("test_run_done") /\ completed' = completed \cup {"test"}
        /\ (known' = known \cup {"test"} /\ busy' = FALSE) \/ UNCHANGED <<known, busy>>
        /\ UNCHANGED <<page, dir, submitted, hasty, stale, serving, step, table, validAngles,
                       maxAngle, saved, board, pwmBox, doneBox>>
    BY DEF HandleTestRunDone, answers
  <1>2. /\ serving.waits = "none" /\ requests[1].action = "test_run_done"
        /\ \A i \in 1..Len(requests') : Follows(Asked'[i], Asked'[i + 1])
        /\ Follows(requests[1], Asked'[1]) /\ Suits(requests[1])
        /\ Len(requests) \in Nat \ {0}
    BY <1>1, WasRead
  <1>5. AtFirst
    <2>1. requests[1].dir = "test"
      BY <1>2 DEF AnyUser, RequestsOK
    <2> QED
      BY <1>2, <2>1 DEF Suits, Runs, AtFirst
  <1>6. AtFirst'
    BY <1>1, <1>5 DEF AtFirst
  <1>7. SavesInOrder'
    BY <1>1, <1>6, ReadSavesSame
  <1>3. /\ CalibTypeOK' /\ TableOK' /\ RequestsOK' /\ SubmittedOK'
        /\ CompletedDriven' /\ MaxAngleOwn'
    <2>1. /\ serving' \in [waits : {"none", "pwm", "done"}, dir : Directions \cup {"test"},
                           mine : BOOLEAN]
          /\ board' \in {"idle", "run", "driving"} /\ busy' \in BOOLEAN /\ step' \in Nat
          /\ saved' \in {"none", "whole", "part"} /\ known' \subseteq Directions \cup {"test"}
      BY <1>1 DEF AnyUser, CalibTypeOK
    <2> QED
      BY <1>1, <2>1, ReadKeeps
  <1>4. InOrder' /\ ServerSuits'
    <2>1. Asked'[1].action \in Runs => Asked'[1].action = "run"
      BY <1>2 DEF Follows
    <2>2. Suits(Asked[1])'
      BY <1>6, <2>1, RunAtFirst
    <2> QED
      BY <1>1, <1>2, <2>2 DEF InOrder, ServerSuits
  <1> QED
    BY <1>3, <1>4, <1>7 DEF AnyUser
LEMMA SaveHandled == AnyUser /\ HandleSave => AnyUser'
  <1> SUFFICES ASSUME AnyUser, HandleSave PROVE AnyUser'
    OBVIOUS
  <1>1. /\ Reads("save") /\ saved' \in {"none", "whole", "part"}
        /\ UNCHANGED <<page, dir, busy, submitted, known, hasty, stale, serving, step, table,
                       validAngles, maxAngle, completed, board, pwmBox, doneBox>>
    BY DEF HandleSave, wizard, results, answers
  <1>2. /\ serving.waits = "none" /\ requests[1].action = "save"
        /\ \A i \in 1..Len(requests') : Follows(Asked'[i], Asked'[i + 1])
        /\ Follows(requests[1], Asked'[1])
        /\ Len(requests) \in Nat \ {0} /\ Asked'[1] = Asked[1 + 1]
    BY <1>1, WasRead
  <1>5. AtFirst => AtFirst'
    BY <1>1 DEF AtFirst
  <1>6. SavesInOrder'
    BY <1>1, <1>5, ReadSavesSame DEF Openings
  <1>3. /\ CalibTypeOK' /\ TableOK' /\ RequestsOK' /\ SubmittedOK'
        /\ CompletedDriven' /\ MaxAngleOwn'
    <2>1. /\ serving' \in [waits : {"none", "pwm", "done"}, dir : Directions \cup {"test"},
                           mine : BOOLEAN]
          /\ board' \in {"idle", "run", "driving"} /\ busy' \in BOOLEAN /\ step' \in Nat
          /\ known' \subseteq Directions \cup {"test"}
      BY <1>1 DEF AnyUser, CalibTypeOK
    <2> QED
      BY <1>1, <2>1, ReadKeeps
  <1>4. InOrder' /\ ServerSuits'
    <2>1. Asked'[1].action \in Runs => Asked'[1].action = "run"
      BY <1>2 DEF Follows, Runs
    <2>2. ASSUME Asked'[1].action = "run" PROVE AtFirst
      <3>1. 1 \in 1..Len(requests)
        BY <1>2
      <3>2. Opened(1) \/ AtFirstTo(1)
        BY <1>2, <2>2, <3>1 DEF AnyUser, SavesInOrder
      <3> QED
        BY <1>2, <3>2 DEF Opened, AtFirstTo, Openings
    <2>3. Suits(Asked[1])'
      <3>1. CASE Asked'[1].action \in Runs
        BY <1>5, <2>1, <2>2, <3>1, RunAtFirst
      <3>2. CASE Asked'[1].action \notin Runs
        BY <3>2 DEF Suits
      <3> QED
        BY <3>1, <3>2
    <2> QED
      BY <1>1, <1>2, <2>3 DEF InOrder, ServerSuits
  <1> QED
    BY <1>3, <1>4, <1>6 DEF AnyUser

\* A submission that is read finds the run it measures.
LEMMA SubmissionRead ==
  ASSUME AnyUser, Reads("submit")
  PROVE  /\ requests # <<>> /\ serving.waits = "none" /\ Head(requests) = requests[1]
         /\ requests[1] \in RequestSet /\ requests[1].action = "submit"
         /\ requests[1].dir \in Directions /\ requests[1].angle \in 1..MaxAngle
         /\ requests \in Seq(RequestSet) /\ requests' \in Seq(RequestSet)
         /\ Len(requests) \in Nat \ {0} /\ Len(requests') = Len(requests) - 1
         /\ \A i \in 1..Len(requests') : requests'[i] = requests[i + 1]
         /\ Asked \in Seq(RequestSet) /\ Asked[Len(requests) + 1] = Coming
         /\ \A i \in 1..Len(requests) : Asked[i] = requests[i] /\ Follows(Asked[i], Asked[i + 1])
         /\ step \in 1..RunsOf[requests[1].dir] /\ DrivenTo(requests[1].dir, step)
         /\ validAngles.of \subseteq {requests[1].dir}
  <1>1. requests \in Seq(RequestSet)
    BY RequestsTyped DEF AnyUser
  <1>2. requests # <<>> /\ serving.waits = "none" /\ Head(requests).action = "submit"
        /\ requests' = Tail(requests)
    BY DEF Reads
  <1>3. /\ requests' \in Seq(RequestSet) /\ Head(requests) = requests[1]
        /\ requests[1] \in RequestSet /\ Len(requests) \in Nat \ {0}
        /\ Len(requests') = Len(requests) - 1
        /\ \A i \in 1..(Len(requests) - 1) : requests'[i] = requests[i + 1]
    BY <1>1, <1>2, TailOf
  <1>4. Coming \in RequestSet
    BY ComingTyped DEF AnyUser
  <1>5. /\ Asked \in Seq(RequestSet) /\ Asked[Len(requests) + 1] = Coming
        /\ \A i \in 1..Len(requests) : Asked[i] = requests[i]
    BY <1>1, <1>4, AppendedTo DEF Asked
  <1>6. \A i \in 1..Len(requests) : Follows(Asked[i], Asked[i + 1])
    BY DEF AnyUser, InOrder
  <1>7. 1 \in 1..Len(requests)
    BY <1>3
  <1>8. requests[1].dir \in Directions /\ requests[1].angle \in 1..MaxAngle
    BY <1>2, <1>3, <1>7 DEF AnyUser, RequestsOK
  <1>9. Suits(requests[1])
    BY <1>2, <1>5, <1>7 DEF AnyUser, ServerSuits
  <1>10. /\ step <= RunsOf[requests[1].dir] /\ step >= 1 /\ DrivenTo(requests[1].dir, step)
         /\ validAngles.of \subseteq {requests[1].dir}
    BY <1>2, <1>3, <1>8, <1>9 DEF Suits, Runs
  <1>11. step \in Nat /\ RunsOf[requests[1].dir] \in Nat
    BY <1>8, CalibrationAssumption DEF AnyUser, CalibTypeOK
  <1> QED
    BY <1>1, <1>2, <1>3, <1>5, <1>6, <1>8, <1>10, <1>11

\* While a submission is read, what a save comes after is unread.
LEMMA SaveReadNot ==
  ASSUME AnyUser, Reads("submit"), NEW i \in 1..Len(requests), requests[i].action = "save",
         Asked[i + 1].action = "run"
  PROVE  Opened(i)
  <1>1. Opened(i) \/ AtFirstTo(i)
    BY DEF AnyUser, SavesInOrder
  <1>2. requests[1].action = "submit" /\ 1 \in 1..i
    BY SubmissionRead
  <1> QED
    BY <1>1, <1>2 DEF AtFirstTo

\* Where the answer leaves the wizard suits what it asked for before.
LEMMA AnswerFollows ==
  ASSUME AnyUser, Reads("submit"), NEW done, submitted # "none", Answered(done)
  PROVE  /\ Follows(requests[Len(requests)], Coming')
         /\ requests[Len(requests)].action = "save" /\ Coming'.action = "run" =>
              Opened(Len(requests))
  <1> DEFINE last == requests[Len(requests)]
  <1>1. Follows(last, Coming)
    <2>1. /\ Len(requests) \in Nat \ {0} /\ Asked[Len(requests) + 1] = Coming
          /\ \A i \in 1..Len(requests) :
               Asked[i] = requests[i] /\ Follows(Asked[i], Asked[i + 1])
      BY SubmissionRead
    <2>2. Len(requests) \in 1..Len(requests)
      BY <2>1
    <2> QED
      BY <2>1, <2>2
  <1>6. Len(requests) \in 1..Len(requests)
    <2>1. Len(requests) \in Nat \ {0}
      BY SubmissionRead
    <2> QED
      BY <2>1
  <1>2. page = "menu" => Opened(Len(requests)) /\ last.action \in Openings \cup {"save"}
    <2> SUFFICES ASSUME page = "menu"
                 PROVE  Opened(Len(requests)) /\ last.action \in Openings \cup {"save"}
      OBVIOUS
    <2>1. PICK j \in 1..Len(requests) :
                 /\ requests[j].action \in Openings
                 /\ \A k \in (j + 1)..Len(requests) : requests[k].action = "save"
      BY DEF AnyUser, SubmittedOK, Opened
    <2>2. CASE j = Len(requests)
      BY <2>1, <2>2 DEF Opened
    <2>3. CASE j # Len(requests)
      <3>1. Len(requests) \in (j + 1)..Len(requests)
        BY <1>6, <2>3
      <3> QED
        BY <2>1, <3>1 DEF Opened
    <2> QED
      BY <2>2, <2>3
  <1>3. page \in {"away", "menu", "ready", "ran"}
    BY DEF AnyUser, CalibTypeOK, WizardPages
  <1>4. CASE page' \in {"away", "menu"}
    BY <1>4, ComingNext DEF Follows, Runs
  <1>5. CASE page' = "ready" /\ dir' = submitted
    <2>1. Coming'.action = "run" /\ Coming'.dir = submitted
      BY <1>5, ComingNext
    <2>2. CASE page = "menu"
      BY <1>2, <2>1, <2>2 DEF Follows
    <2>3. CASE page = "ready" /\ submitted = dir
      <3>1. Coming.action = "run" /\ Coming.dir = dir
        BY <2>3, ComingNext
      <3>2. last.action = "save" => Opened(Len(requests))
        <4>1. Asked[Len(requests) + 1] = Coming
          BY SubmissionRead
        <4> QED
          BY <1>6, <3>1, <4>1, SaveReadNot
      <3> QED
        BY <1>1, <2>1, <2>3, <3>1, <3>2 DEF Follows
    <2>4. CASE page = "ran" /\ submitted = dir
      <3>1. Coming.action = "re-run" /\ Coming.dir = dir
        BY <2>4, ComingNext
      <3> QED
        BY <1>1, <2>1, <2>4, <3>1 DEF Follows, Runs
    <2> QED
      BY <1>3, <1>5, <2>2, <2>3, <2>4 DEF Answered
  <1> QED
    BY <1>3, <1>4, <1>5 DEF Answered

\* What a submission leaves to be read, wherever it leaves the wizard.
LEMMA SubmissionFollowed ==
  ASSUME AnyUser, Reads("submit"), NEW done, CalibTypeOK',
         \/ UNCHANGED <<page, dir>>
         \/ submitted # "none" /\ Answered(done)
  PROVE  /\ \A i \in 1..Len(requests') : Follows(Asked'[i], Asked'[i + 1])
         /\ Follows(requests[1], Asked'[1])
         /\ SavesInOrder'
  <1> DEFINE n == Len(requests)
  <1>1. /\ n \in Nat \ {0} /\ Len(requests') = n - 1 /\ requests' \in Seq(RequestSet)
        /\ \A i \in 1..(n - 1) : requests'[i] = requests[i + 1]
        /\ Asked[n + 1] = Coming
        /\ \A i \in 1..n : Asked[i] = requests[i] /\ Follows(Asked[i], Asked[i + 1])
    BY SubmissionRead
  <1>2. /\ \A i \in 1..(n - 1) : Asked'[i] = requests'[i]
        /\ Asked'[(n - 1) + 1] = Coming'
    <2>1. Coming' \in RequestSet
      BY ComingTypedNext
    <2> QED
      BY <1>1, <2>1, AppendedTo DEF Asked
  <1>3. Follows(requests[n], Coming')
    <2>1. CASE UNCHANGED <<page, dir>>
      <3>1. Coming' = Coming
        BY <2>1 DEF Coming, Request
      <3>2. n \in 1..n
        BY <1>1
      <3> QED
        BY <1>1, <3>1, <3>2
    <2>2. CASE submitted # "none" /\ Answered(done)
      BY <2>2, AnswerFollows
    <2> QED
      BY <2>1, <2>2
  <1>4. \A i \in 1..(n - 1) : Asked'[i] = requests[i + 1]
    BY <1>1, <1>2
  <1>5. \A i \in 1..n : Follows(requests[i], Asked'[i])
    <2> TAKE i \in 1..n
    <2>1. CASE i = n
      BY <1>1, <1>2, <1>3, <2>1
    <2>2. CASE i # n
      <3>1. i \in 1..(n - 1) /\ i + 1 \in 1..n
        BY <1>1, <2>2
      <3> QED
        BY <1>1, <1>4, <3>1
    <2> QED
      BY <2>1, <2>2
  <1>6. \A i \in 1..(n - 1) : Follows(Asked'[i], Asked'[i + 1])
    <2> TAKE i \in 1..(n - 1)
    <2>1. i + 1 \in 1..n
      BY <1>1
    <2> QED
      BY <1>4, <1>5, <2>1
  <1>7. 1 \in 1..n
    BY <1>1
  <1>8. ASSUME NEW i \in 1..(n - 1), requests'[i].action = "save", Asked'[i + 1].action = "run"
        PROVE  Opened(i + 1)
    <2>1. i + 1 \in 1..n /\ requests[i + 1].action = "save"
      BY <1>1, <1>8
    <2>2. CASE i + 1 = n /\ submitted # "none" /\ Answered(done)
      BY <1>2, <1>8, <2>1, <2>2, AnswerFollows
    <2>3. CASE i + 1 # n \/ UNCHANGED <<page, dir>>
      <3>1. Asked'[i + 1] = Asked[(i + 1) + 1]
        <4>1. CASE i + 1 # n
          <5>1. i + 1 \in 1..(n - 1) /\ (i + 1) + 1 \in 1..n
            BY <1>1, <4>1
          <5> QED
            BY <1>1, <1>2, <5>1
        <4>2. CASE i + 1 = n /\ UNCHANGED <<page, dir>>
          <5>1. Coming' = Coming
            BY <4>2 DEF Coming, Request
          <5> QED
            BY <1>1, <1>2, <4>2, <5>1
        <4> QED
          BY <2>3, <4>1, <4>2
      <3> QED
        BY <1>8, <2>1, <3>1, SaveReadNot
    <2> QED
      BY <2>2, <2>3
  <1>9. SavesInOrder'
    <2>1. requests[1].action = "submit"
      BY SubmissionRead
    <2> QED
      BY <1>1, <1>8, <2>1, ReadSaves DEF Openings
  <1> QED
    BY <1>1, <1>5, <1>6, <1>7, <1>9
\* The angles of one side.
LEMMA MeasuredOwn ==
  ASSUME CalibTypeOK, NEW d \in Turns, NEW a \in 1..MaxAngle, validAngles.of \subseteq {d}
  PROVE  /\ Measured(d, a) \in AngleInfo /\ Measured(d, a).of \subseteq {d}
         /\ Measured(d, a).angle > 0
  <1>1. /\ validAngles \in AngleInfo /\ validAngles.angle \in 0..MaxAngle /\ MaxAngle \in Nat
        /\ a \in 0..MaxAngle
    BY CalibrationAssumption DEF CalibTypeOK, AngleInfo
  <1>2. CASE a = validAngles.angle
    <2>1. Measured(d, a) = [angle |-> a, of |-> validAngles.of \cup {d}]
      BY <1>2 DEF Measured
    <2> QED
      BY <1>1, <2>1 DEF AngleInfo
  <1>3. CASE a # validAngles.angle /\ a > validAngles.angle
    <2>1. Measured(d, a) = [angle |-> a, of |-> {d}]
      BY <1>3 DEF Measured
    <2> QED
      BY <1>1, <2>1 DEF AngleInfo
  <1>4. CASE a # validAngles.angle /\ ~(a > validAngles.angle)
    <2>1. Measured(d, a) = validAngles
      BY <1>4 DEF Measured
    <2> QED
      BY <1>1, <1>4, <2>1
  <1> QED
    BY <1>2, <1>3, <1>4

LEMMA MaximaOwn ==
  ASSUME CalibTypeOK, MaxAngleOwn, NEW d \in Turns, NEW a \in 1..MaxAngle,
         validAngles.of \subseteq {d}
  PROVE  /\ NewMax(d, a) \in AngleInfo /\ NewMax(d, a).of \subseteq {d}
         /\ FinalMax(d, a) \in AngleInfo /\ FinalMax(d, a).of \subseteq {d}
         /\ FinalMax(d, a).angle > 0
         /\ maxAngle[d].angle > 0 => NewMax(d, a).angle > 0
  <1>1. /\ Measured(d, a) \in AngleInfo /\ Measured(d, a).of \subseteq {d}
        /\ Measured(d, a).angle > 0
    BY MeasuredOwn
  <1>2. maxAngle[d] \in AngleInfo /\ maxAngle[d].of \subseteq {d}
    BY DEF CalibTypeOK, MaxAngleOwn
  <1>3. /\ NewMax(d, a) \in AngleInfo /\ NewMax(d, a).of \subseteq {d}
        /\ maxAngle[d].angle > 0 => NewMax(d, a).angle > 0
    BY <1>1, <1>2 DEF NewMax
  <1>4. NewMax(d, a).angle \in Nat
    BY <1>3, CalibrationAssumption DEF AngleInfo
  <1> QED
    BY <1>1, <1>3, <1>4 DEF FinalMax

LEMMA SubmissionHandled == AnyUser /\ HandleSubmission => AnyUser'
  <1> SUFFICES ASSUME AnyUser, HandleSubmission PROVE AnyUser'
    OBVIOUS
  <1> DEFINE r == requests[1]
             d == r.dir
             done == step >= RunsOf[d]
             turn == d \in Turns
  <1>1. Reads("submit")
    BY DEF HandleSubmission
  <1>2. /\ serving.waits = "none" /\ Head(requests) = r /\ r \in RequestSet
        /\ d \in Directions /\ r.angle \in 1..MaxAngle
        /\ requests' \in Seq(RequestSet)
        /\ step \in 1..RunsOf[d] /\ DrivenTo(d, step) /\ validAngles.of \subseteq {d}
    BY <1>1, SubmissionRead
  <1>3. /\ table' = [table EXCEPT ![d][step].actual = TRUE]
        /\ validAngles' = IF done THEN NoAngle
                          ELSE IF turn THEN Measured(d, r.angle) ELSE validAngles
        /\ maxAngle' =
             IF ~turn THEN maxAngle
             ELSE [maxAngle EXCEPT ![d] =
                     IF done THEN FinalMax(d, r.angle) ELSE NewMax(d, r.angle)]
        /\ completed' = IF done THEN completed \cup {d} ELSE completed
        /\ IF r.mine /\ submitted # "none"
           THEN Answered(done) /\ submitted' = "none"
           ELSE UNCHANGED <<page, dir, submitted>>
    BY <1>2 DEF HandleSubmission
  <1>4. UNCHANGED <<busy, known, hasty, stale, serving, step, saved, board, pwmBox, doneBox>>
    BY DEF HandleSubmission, answers
  <1>5. /\ TableOK' /\ \A e \in Directions : table'[e] \in [1..RunsOf[e] -> Command]
        /\ \A e \in Directions : \A i \in 1..RunsOf[e] : table[e][i].pwm <=> table'[e][i].pwm
    BY <1>2, <1>3, ActualNoted
  <1>6. RunsOf[d] \in Nat \ {0} /\ step \in Nat /\ (done => step = RunsOf[d])
    BY <1>2, CalibrationAssumption DEF AnyUser, CalibTypeOK
  <1>7. /\ page' \in WizardPages /\ dir' \in Directions \cup {"test"}
        /\ submitted' \in Directions \cup {"none"}
    BY <1>3 DEF AnyUser, CalibTypeOK, Answered, WizardPages
  <1>8. CalibTypeOK /\ MaxAngleOwn
    BY DEF AnyUser
  <1>9. validAngles' \in AngleInfo /\ validAngles'.of \subseteq {d}
    <2>1. NoAngle \in AngleInfo /\ NoAngle.of = {}
      BY CalibrationAssumption DEF NoAngle, AngleInfo
    <2>2. turn => Measured(d, r.angle) \in AngleInfo /\ Measured(d, r.angle).of \subseteq {d}
      BY <1>2, <1>8, MeasuredOwn
    <2> QED
      BY <1>2, <1>3, <1>8, <2>1, <2>2 DEF CalibTypeOK
  <1>10. maxAngle' \in [Turns -> AngleInfo] /\ MaxAngleOwn'
    <2>1. CASE ~turn
      BY <1>3, <1>8, <2>1 DEF CalibTypeOK, MaxAngleOwn
    <2>2. CASE turn
      <3> DEFINE new == IF done THEN FinalMax(d, r.angle) ELSE NewMax(d, r.angle)
      <3>1. /\ new \in AngleInfo /\ new.of \subseteq {d}
            /\ done => new.angle > 0
            /\ maxAngle[d].angle > 0 => new.angle > 0
        BY <1>2, <1>8, <2>2, MaximaOwn
      <3>2. maxAngle' = [maxAngle EXCEPT ![d] = new] /\ maxAngle \in [Turns -> AngleInfo]
        BY <1>3, <1>8, <2>2 DEF CalibTypeOK
      <3> HIDE DEF new
      <3>3. /\ maxAngle' \in [Turns -> AngleInfo] /\ maxAngle'[d] = new
            /\ \A e \in Turns : e # d => maxAngle'[e] = maxAngle[e]
        BY <2>2, <3>1, <3>2
      <3>4. \A e \in Turns : e \in completed' /\ e \notin completed => e = d /\ done
        BY <1>3
      <3> QED
        BY <1>8, <2>2, <3>1, <3>3, <3>4 DEF MaxAngleOwn
    <2> QED
      BY <2>1, <2>2
  <1>11. completed' \subseteq Directions \cup {"test"} /\ completed \subseteq completed'
    BY <1>2, <1>3, <1>8 DEF CalibTypeOK
  <1>12. CalibTypeOK'
    BY <1>2, <1>4, <1>5, <1>7, <1>8, <1>9, <1>10, <1>11 DEF CalibTypeOK, RequestSet
  <1>13. /\ \A i \in 1..Len(requests') : Follows(Asked'[i], Asked'[i + 1])
         /\ Follows(r, Asked'[1]) /\ SavesInOrder'
    <2>1. UNCHANGED <<page, dir>> \/ (submitted # "none" /\ Answered(done))
      BY <1>3
    <2> HIDE DEF done
    <2> QED
      BY <1>1, <1>12, <2>1, SubmissionFollowed
  <1>14. InOrder'
    BY <1>2, <1>4, <1>13 DEF InOrder
  <1>15. SubmittedOK'
    <2>1. CASE submitted' = "none"
      BY <2>1 DEF SubmittedOK
    <2>2. CASE ~r.mine /\ UNCHANGED <<page, dir, submitted>>
      BY <1>1, <2>2, ReadSubmittedOK
    <2> QED
      BY <1>3, <2>1, <2>2
  <1>16. RequestsOK'
    <2> SUFFICES ASSUME NEW i \in 1..Len(requests')
                 PROVE  /\ requests'[i].action = "submit" =>
                             /\ requests'[i].dir \in Directions
                             /\ requests'[i].angle \in 1..MaxAngle
                        /\ requests'[i].action = "test_run_done" => requests'[i].dir = "test"
                        /\ requests'[i].action = "save" /\ ~stale =>
                             /\ completed' = Directions \cup {"test"}
                             /\ \A j \in 1..i : requests'[j].action \notin {"start", "exit"}
      BY <1>4 DEF RequestsOK
    <2>1. /\ Len(requests) \in Nat \ {0} /\ Len(requests') = Len(requests) - 1
          /\ \A k \in 1..Len(requests') : requests'[k] = requests[k + 1]
      BY <1>1, SubmissionRead
    <2>2. i + 1 \in 1..Len(requests) /\ requests'[i] = requests[i + 1]
      BY <2>1
    <2>3. /\ requests[i + 1].action = "submit" =>
               requests[i + 1].dir \in Directions /\ requests[i + 1].angle \in 1..MaxAngle
          /\ requests[i + 1].action = "test_run_done" => requests[i + 1].dir = "test"
          /\ requests[i + 1].action = "save" /\ ~stale =>
               /\ completed = Directions \cup {"test"}
               /\ \A j \in 1..(i + 1) : requests[j].action \notin {"start", "exit"}
      BY <2>2 DEF AnyUser, RequestsOK
    <2>4. \A j \in 1..i : requests'[j] = requests[j + 1] /\ j + 1 \in 1..(i + 1)
      BY <2>1
    <2> QED
      BY <1>11, <2>2, <2>3, <2>4
  <1>17. CompletedDriven'
    <2> SUFFICES ASSUME NEW e \in Directions, e \in completed', NEW i \in 1..RunsOf[e]
                 PROVE  table'[e][i].pwm
      BY DEF CompletedDriven, DrivenTo
    <2>1. CASE e \in completed
      BY <1>5, <2>1 DEF AnyUser, CompletedDriven, DrivenTo
    <2>2. CASE e = d /\ done
      BY <1>2, <1>5, <1>6, <2>2 DEF DrivenTo
    <2> QED
      BY <1>3, <2>1, <2>2
  <1>18. Suits(Asked[1])'
    <2> SUFFICES ASSUME Asked'[1].action \in Runs
                 PROVE  /\ Asked'[1].dir = d /\ step' <= RunsOf[d]
                        /\ \A i \in 1..step : table'[d][i].pwm
                        /\ validAngles'.of \subseteq {d} /\ step' >= 1
      <3>1. "test" \notin Directions
        BY DEF Directions, Turns
      <3> QED
        BY <1>2, <1>4, <3>1 DEF Suits, DrivenTo
    <2>1. Asked'[1].dir = d
      BY <1>1, <1>13, SubmissionRead DEF Follows, Openings
    <2>2. \A i \in 1..step : i \in 1..RunsOf[d] /\ table[d][i].pwm
      BY <1>2, <1>6 DEF DrivenTo
    <2>3. \A i \in 1..step : table'[d][i].pwm
      BY <1>2, <1>5, <2>2
    <2> QED
      BY <1>2, <1>4, <1>6, <1>9, <2>1, <2>3
  <1>19. ServerSuits'
    BY <1>2, <1>4, <1>18 DEF ServerSuits
  <1> QED
    BY <1>5, <1>10, <1>12, <1>13, <1>14, <1>15, <1>16, <1>17, <1>19 DEF AnyUser

LEMMA BoardKeeps ==
  AnyUser /\ (BoardSendsPwm \/ BoardSendsDone \/ SendCalibrationStatus \/ UNCHANGED calibVars)
    => AnyUser'
  <1> SUFFICES ASSUME AnyUser, \/ BoardSendsPwm \/ BoardSendsDone \/ SendCalibrationStatus
                               \/ UNCHANGED calibVars
               PROVE  AnyUser'
    OBVIOUS
  <1>1. UNCHANGED <<page, dir, busy, submitted, hasty, stale, requests, serving, step, table,
                    validAngles, maxAngle, completed, saved>>
    BY DEF BoardSendsPwm, BoardSendsDone, SendCalibrationStatus, calibVars, wizard, results,
           serverPart
  <1>2. /\ board' \in {"idle", "run", "driving"} /\ pwmBox' \in BOOLEAN /\ doneBox' \in BOOLEAN
        /\ known' \subseteq Directions \cup {"test"}
    BY DEF BoardSendsPwm, BoardSendsDone, SendCalibrationStatus, calibVars, wizard, serverPart,
           answers, AnyUser, CalibTypeOK
  <1>3. CalibTypeOK'
    BY <1>1, <1>2 DEF AnyUser, CalibTypeOK
  <1>4. Asked' = Asked /\ Served' = Served
    BY <1>1 DEF Asked, Coming, Served, Request
  <1>5. /\ TableOK' /\ RequestsOK' /\ SavesInOrder' /\ SubmittedOK' /\ CompletedDriven'
        /\ MaxAngleOwn'
    BY <1>1, <1>4 DEF AnyUser, TableOK, RequestsOK, SavesInOrder, SubmittedOK, Opened, AtFirstTo,
                      AtFirst, CompletedDriven, DrivenTo, MaxAngleOwn
  <1>6. InOrder' /\ ServerSuits'
    BY <1>1, <1>4 DEF AnyUser, InOrder, ServerSuits, Suits, DrivenTo
  <1> QED
    BY <1>3, <1>5, <1>6 DEF AnyUser
LEMMA AnyUserInit == CalibInit => AnyUser
  <1> SUFFICES ASSUME CalibInit PROVE AnyUser
    OBVIOUS
  <1>1. NoAngle \in AngleInfo /\ NoAngle.of = {}
    BY CalibrationAssumption DEF NoAngle, AngleInfo
  <1>2. CalibTypeOK
    <2>1. \A d \in Directions : table[d] \in [1..RunsOf[d] -> Command]
      BY DEF CalibInit, EmptyTable, Command
    <2>2. requests = <<>> /\ <<>> \in Seq(RequestSet)
      BY DEF CalibInit
    <2>3. maxAngle \in [Turns -> AngleInfo] /\ validAngles \in AngleInfo
      BY <1>1 DEF CalibInit
    <2>4. serving \in [waits : {"none", "pwm", "done"}, dir : Directions \cup {"test"},
                       mine : BOOLEAN]
      BY DEF CalibInit, NoRun
    <2>5. /\ page \in WizardPages /\ dir \in Directions \cup {"test"} /\ busy \in BOOLEAN
          /\ submitted \in Directions \cup {"none"} /\ hasty \in BOOLEAN /\ stale \in BOOLEAN
          /\ known \subseteq Directions \cup {"test"} /\ step \in Nat
          /\ completed \subseteq Directions \cup {"test"} /\ saved \in {"none", "whole", "part"}
          /\ board \in {"idle", "run", "driving"} /\ pwmBox \in BOOLEAN /\ doneBox \in BOOLEAN
      BY DEF CalibInit, WizardPages
    <2> QED
      BY <2>1, <2>2, <2>3, <2>4, <2>5 DEF CalibTypeOK, RequestSet
  <1>3. /\ requests = <<>> /\ Len(requests) = 0 /\ serving.waits = "none" /\ page = "away"
        /\ submitted = "none" /\ completed = {} /\ \A d \in Turns : maxAngle[d] = NoAngle
        /\ TableOK
    BY DEF CalibInit, NoRun, TableOK, EmptyTable
  <1>4. Asked[1] = Coming /\ Coming.action = "exit"
    BY <1>3, ComingNext DEF Asked
  <1>5. RequestsOK /\ InOrder /\ SavesInOrder /\ SubmittedOK /\ CompletedDriven /\ MaxAngleOwn
    BY <1>1, <1>3 DEF RequestsOK, InOrder, SavesInOrder, SubmittedOK, CompletedDriven, MaxAngleOwn
  <1>6. ServerSuits
    BY <1>3, <1>4 DEF ServerSuits, Suits, Runs
  <1> QED
    BY <1>2, <1>3, <1>5, <1>6 DEF AnyUser

\* Whatever the user does, and however late it is read.
THEOREM AnyUserInvariant == CalibSpec => []AnyUser
  <1>1. AnyUser /\ [CalibNext]_calibVars => AnyUser'
    BY UserKeeps, ResetKeeps, ContinueHandled, ReRunHandled, RunHandled, PwmHandled,
       RunDoneHandled, TestRunDoneHandled, SubmissionHandled, SaveHandled, BoardKeeps
       DEF CalibNext, CalibServer
  <1> QED
    BY AnyUserInit, <1>1, PTL DEF CalibSpec

\* The steering limit of a side was measured on that side, in spite of one list of
\* angles for both.
THEOREM MaxAngleSafe == CalibSpec => []MaxAngleOwn
  <1>1. AnyUser => MaxAngleOwn
    BY DEF AnyUser
  <1> QED
    BY <1>1, AnyUserInvariant, PTL

\* The error "Invalid command index" cannot occur.
THEOREM SubmissionSafe == CalibSpec => []SubmissionsFit
  <1>1. AnyUser => SubmissionsFit
    <2> SUFFICES ASSUME AnyUser, serving.waits = "none", requests # <<>>,
                        Head(requests).action = "submit"
                 PROVE  LET d == Head(requests).dir
                        IN step \in 1..RunsOf[d] /\ table[d][step].pwm
      BY DEF SubmissionsFit
    <2>1. /\ requests \in Seq(RequestSet)
      BY RequestsTyped DEF AnyUser
    <2>2. /\ Head(requests) = requests[1] /\ requests[1] \in RequestSet
          /\ Len(requests) \in Nat \ {0} /\ 1 \in 1..Len(requests)
      BY <2>1
    <2>3. Asked[1] = requests[1]
      <3>1. Coming \in RequestSet
        BY ComingTyped DEF AnyUser
      <3> QED
        BY <2>1, <2>2, <3>1, AppendedTo DEF Asked
    <2> DEFINE d == requests[1].dir
    <2>4. d \in Directions
      BY <2>2 DEF AnyUser, RequestsOK
    <2>5. step <= RunsOf[d] /\ DrivenTo(d, step) /\ step >= 1
      BY <2>2, <2>3, <2>4 DEF AnyUser, ServerSuits, Suits, Runs
    <2>6. step \in Nat /\ RunsOf[d] \in Nat
      BY <2>4, CalibrationAssumption DEF AnyUser, CalibTypeOK
    <2> QED
      BY <2>2, <2>5, <2>6 DEF DrivenTo
  <1> QED
    BY <1>1, AnyUserInvariant, PTL
----------------------------------------------------------------------------
(* A user who waits for the answer to each submission. *)

\* What such a user may ask next, and what the server is asked then.
Due == IF submitted = "none" THEN Coming ELSE Request("exit", dir, 0)
Plan == Append(requests, Due)

\* Runs, and repetitions and submissions of them, take turns.
Duly(a, b) ==
  /\ b.action = "run" => a.action \in {"continue", "re-run"}
  /\ b.action \in {"re-run", "submit"} => a.action = "run"

TakingTurns ==
  /\ \A i \in 1..Len(requests) : Duly(Plan[i], Plan[i + 1])
  /\ serving.waits # "none" => Duly(Served, Plan[1])

\* The page's own submission is its last request, and its answer is waited for.
OneSubmission ==
  /\ submitted # "none" => page = "ran"
  /\ \A i \in 1..Len(requests) :
       requests[i].action = "submit" /\ requests[i].mine => i = Len(requests) /\ submitted # "none"

\* The wizard waits only for a run that is served or asked for.
NotLocked ==
  page = "ran" /\ busy =>
    \/ serving.waits # "none" /\ serving.mine
    \/ \E i \in 1..Len(requests) : requests[i].mine /\ requests[i].action = "run"

MeasuredTo(d, n) == \A i \in 1..n : table[d][i].actual

\* What was run before was measured, here and in ServerReady.
Ready(r) ==
  r.dir \in Directions =>
    /\ r.action = "run" => step < RunsOf[r.dir] /\ MeasuredTo(r.dir, step)
    /\ r.action \in {"re-run", "submit"} => MeasuredTo(r.dir, step - 1)

ServerReady ==
  IF serving.waits = "none" THEN Ready(Plan[1])
  ELSE serving.dir \in Directions => MeasuredTo(serving.dir, step)

CompletedActual == \A d \in Directions \cap completed : MeasuredTo(d, RunsOf[d])

\* A save of less was asked for on flags that a reset had overtaken.
SavedWhole == saved = "part" => stale

WaitingInv ==
  /\ TakingTurns /\ OneSubmission /\ NotLocked /\ ServerReady
  /\ CompletedActual /\ SavedWhole

WaitingUser == ~hasty => WaitingInv
LEMMA DueTyped == CalibTypeOK => Due \in RequestSet
  <1> SUFFICES ASSUME CalibTypeOK PROVE Due \in RequestSet
    OBVIOUS
  <1>1. "exit" \in Actions /\ dir \in Directions \cup {"test"} /\ 0 \in 0..MaxAngle
    BY CalibrationAssumption DEF CalibTypeOK, Actions
  <1> QED
    BY <1>1, ComingTyped, RequestTyped DEF Due

LEMMA DueTypedNext == CalibTypeOK' => Due' \in RequestSet
  <1>1. CalibTypeOK => Due \in RequestSet
    BY DueTyped
  <1>2. (CalibTypeOK => Due \in RequestSet)'
    BY <1>1, PTL
  <1> QED
    BY <1>2 DEF RequestSet

\* The requests as the plan has them, and as a user who waits may continue it.
LEMMA PlanOf ==
  CalibTypeOK =>
    /\ requests \in Seq(RequestSet) /\ Len(requests) \in Nat
    /\ Plan \in Seq(RequestSet) /\ Plan[Len(requests) + 1] = Due
    /\ \A i \in 1..Len(requests) : Plan[i] = requests[i] /\ Asked[i] = requests[i]
    /\ Asked[Len(requests) + 1] = Coming
    /\ Due = Coming \/ Due.action = "exit"
  <1> SUFFICES ASSUME CalibTypeOK
               PROVE  /\ requests \in Seq(RequestSet) /\ Len(requests) \in Nat
                      /\ Plan \in Seq(RequestSet) /\ Plan[Len(requests) + 1] = Due
                      /\ \A i \in 1..Len(requests) : Plan[i] = requests[i] /\ Asked[i] = requests[i]
                      /\ Asked[Len(requests) + 1] = Coming
                      /\ Due = Coming \/ Due.action = "exit"
    OBVIOUS
  <1>1. requests \in Seq(RequestSet) /\ Due \in RequestSet /\ Coming \in RequestSet
    BY RequestsTyped, DueTyped, ComingTyped
  <1>2. Due = Coming \/ Due.action = "exit"
    BY DEF Due, Request
  <1> QED
    BY <1>1, <1>2, AppendedTo DEF Plan, Asked

LEMMA PlanOfNext ==
  CalibTypeOK' =>
    /\ requests' \in Seq(RequestSet) /\ Len(requests') \in Nat
    /\ Plan' \in Seq(RequestSet) /\ Plan'[Len(requests') + 1] = Due'
    /\ \A i \in 1..Len(requests') : Plan'[i] = requests'[i]
  <1> SUFFICES ASSUME CalibTypeOK'
               PROVE  /\ requests' \in Seq(RequestSet) /\ Len(requests') \in Nat
                      /\ Plan' \in Seq(RequestSet) /\ Plan'[Len(requests') + 1] = Due'
                      /\ \A i \in 1..Len(requests') : Plan'[i] = requests'[i]
    OBVIOUS
  <1>1. requests' \in Seq(RequestSet) /\ Due' \in RequestSet
    BY DueTypedNext DEF CalibTypeOK, RequestSet
  <1> QED
    BY <1>1, AppendedTo DEF Plan

LEMMA SentWaiting ==
  ASSUME AnyUser, AnyUser', WaitingInv, submitted = "none", UNCHANGED serverPart,
         NEW action \in Actions, NEW d \in Directions \cup {"test"}, NEW a \in 0..MaxAngle,
         Send(action, d, a),
         action # "test_run_done" => Like(Request(action, d, a), Coming),
         Duly(Request(action, d, a), Due'),
         action = "submit" <=> submitted' # "none",
         action = "submit" => page' = "ran",
         page' = "ran" /\ busy' => action = "run",
         stale => stale'
  PROVE  WaitingInv'
  <1> DEFINE new == Request(action, d, a)
             n == Len(requests)
  <1>1. new \in RequestSet /\ new.action = action /\ new.dir = d /\ new.mine
    BY RequestTyped
  <1>2. /\ requests \in Seq(RequestSet) /\ n \in Nat /\ Plan[n + 1] = Coming
        /\ \A i \in 1..n : Plan[i] = requests[i]
    BY PlanOf DEF AnyUser, Due
  <1>3. /\ Len(requests') = n + 1 /\ requests'[n + 1] = new
        /\ \A i \in 1..n : requests'[i] = requests[i]
    BY <1>1, <1>2, AppendedTo DEF Send
  <1> HIDE DEF new
  <1>4. /\ \A i \in 1..n : Plan'[i] = Plan[i]
        /\ Plan'[n + 1] = new /\ Plan'[n + 2] = Due'
    <2>1. /\ Plan'[Len(requests') + 1] = Due'
          /\ \A i \in 1..Len(requests') : Plan'[i] = requests'[i]
      BY PlanOfNext DEF AnyUser
    <2> QED
      BY <1>2, <1>3, <2>1
  <1>5. UNCHANGED <<serving, step, table, validAngles, maxAngle, completed, saved>>
        /\ Served' = Served
    BY DEF serverPart, results, Served
  <1>15. new.action \in {"run", "re-run", "submit"} =>
           /\ Coming.action \in {"run", "re-run"} /\ Coming.dir = d
           /\ new.action = "run" <=> Coming.action = "run"
    BY <1>1, ComingNext DEF Like, Runs, new
  <1>6. \A x : Duly(x, Coming) => Duly(x, new)
    BY <1>15 DEF Duly
  <1>7. Duly(new, Due')
    BY DEF new
  <1>8. /\ \A i \in 1..n : Duly(Plan[i], Plan[i + 1])
        /\ serving.waits # "none" => Duly(Served, Plan[1])
    BY DEF WaitingInv, TakingTurns
  <1>9. Plan'[1] = Plan[1] \/ (Plan[1] = Coming /\ Plan'[1] = new)
    <2>1. CASE n = 0
      BY <1>2, <1>4, <2>1
    <2>2. CASE n > 0
      <3>1. 1 \in 1..n
        BY <1>2, <2>2
      <3> QED
        BY <1>4, <3>1
    <2> QED
      BY <1>2, <2>1, <2>2
  <1>10. TakingTurns'
    <2>1. ASSUME NEW i \in 1..(n + 1) PROVE Duly(Plan'[i], Plan'[i + 1])
      <3>1. CASE i \in 1..(n - 1)
        <4>1. i \in 1..n /\ i + 1 \in 1..n
          BY <1>2, <3>1
        <4> QED
          BY <1>4, <1>8, <4>1
      <3>2. CASE i = n /\ n > 0
        <4>1. i \in 1..n
          BY <1>2, <3>2
        <4> QED
          BY <1>2, <1>4, <1>6, <1>8, <3>2, <4>1
      <3>3. CASE i = n + 1
        <4>1. i + 1 = n + 2
          BY <1>2, <3>3
        <4> QED
          BY <1>4, <1>7, <3>3, <4>1
      <3> QED
        BY <1>2, <3>1, <3>2, <3>3
    <2>2. serving.waits # "none" => Duly(Served, Plan'[1])
      BY <1>6, <1>8, <1>9
    <2> QED
      BY <1>3, <1>5, <2>1, <2>2 DEF TakingTurns
  <1>11. OneSubmission'
    <2> SUFFICES ASSUME NEW i \in 1..(n + 1), requests'[i].action = "submit", requests'[i].mine
                 PROVE  i = n + 1 /\ submitted' # "none"
      BY <1>3 DEF OneSubmission
    <2>1. i \notin 1..n
      BY <1>3 DEF WaitingInv, OneSubmission
    <2>2. i = n + 1
      BY <1>2, <2>1
    <2> QED
      BY <1>1, <1>3, <2>2
  <1>12. NotLocked'
    <2> SUFFICES ASSUME page' = "ran", busy'
                 PROVE  \E i \in 1..(n + 1) : requests'[i].mine /\ requests'[i].action = "run"
      BY <1>3 DEF NotLocked
    <2>1. n + 1 \in 1..(n + 1)
      BY <1>2
    <2> QED
      BY <1>1, <1>3, <2>1
  <1>13. ServerReady'
    <2>1. Ready(Coming) => Ready(new)
      BY <1>1, <1>15 DEF Ready
    <2>2. serving.waits = "none" => Ready(Plan'[1])
      BY <1>9, <2>1 DEF WaitingInv, ServerReady
    <2> QED
      BY <1>5, <2>2 DEF WaitingInv, ServerReady, Ready, MeasuredTo
  <1>14. CompletedActual' /\ SavedWhole'
    BY <1>5 DEF WaitingInv, CompletedActual, SavedWhole, MeasuredTo
  <1> QED
    BY <1>10, <1>11, <1>12, <1>13, <1>14 DEF WaitingInv

LEMMA DueNext ==
  /\ submitted' # "none" => Due'.action = "exit"
  /\ submitted' = "none" => Due'.action = IF page' = "ready" THEN "run"
                                          ELSE IF page' = "ran" THEN "re-run" ELSE "exit"
  BY DEF Due, Coming, Request

\* A button that does not hurry the wizard was pressed when no answer was waited for.
LEMMA NotHasty ==
  ASSUME NEW action, NEW d, NEW a, Send(action, d, a), ~hasty'
  PROVE  ~hasty /\ submitted = "none"
  BY DEF Send

LEMMA UserWaits == AnyUser /\ AnyUser' /\ WaitingUser /\ CalibUser => WaitingUser'
  <1> SUFFICES ASSUME AnyUser, AnyUser', WaitingUser, CalibUser, ~hasty' PROVE WaitingInv'
    BY DEF WaitingUser
  <1>1. dir \in Directions \cup {"test"} /\ 0 \in 0..MaxAngle
        /\ {"start", "exit", "continue", "run", "re-run", "submit", "test_run_done", "save"} = Actions
    BY CalibrationAssumption DEF AnyUser, CalibTypeOK, Actions
  <1>2. ASSUME NEW action, NEW d, NEW a
        PROVE  Request(action, d, a).action = action /\ Request(action, d, a).dir = d
    BY DEF Request
  <1>3. ASSUME NEW action \in {"start", "exit", "continue", "test_run_done", "save"},
               NEW d \in Directions \cup {"test"}, Send(action, d, 0), UNCHANGED serverPart,
               submitted' = submitted, page' # "ran",
               action = "continue" \/ page' # "ready", stale => stale'
        PROVE  WaitingInv'
    <2>1. ~hasty /\ submitted = "none"
      BY <1>3, NotHasty
    <2>2. WaitingInv
      BY <2>1 DEF WaitingUser
    <2>3. action # "test_run_done" => Like(Request(action, d, 0), Coming)
      BY <1>2, <1>3 DEF Like, Runs
    <2>4. Duly(Request(action, d, 0), Due')
      BY <1>2, <1>3, <2>1, DueNext DEF Duly
    <2> QED
      BY <1>1, <1>3, <2>1, <2>2, <2>3, <2>4, SentWaiting
  <1>4. CASE OpenWizard
    BY <1>1, <1>3, <1>4 DEF OpenWizard, Ask
  <1>13. CASE Recalibrate
    BY <1>1, <1>3, <1>13 DEF Recalibrate, Ask
  <1>5. CASE ExitWizard
    <2>1. /\ page' = "away" /\ Send("exit", dir, 0)
          /\ submitted' \in {submitted, "none"} /\ UNCHANGED <<dir, stale, serverPart>>
      BY <1>5 DEF ExitWizard, Ask
    <2>2. submitted' = submitted
      BY <2>1, NotHasty
    <2> QED
      BY <1>1, <1>3, <2>1, <2>2
  <1>6. ASSUME NEW d \in Directions \cup {"test"}, ContinueDirection(d) PROVE WaitingInv'
    BY <1>3, <1>6 DEF ContinueDirection
  <1>7. CASE TestRunStraight
    BY <1>1, <1>3, <1>7 DEF TestRunStraight, Ask
  <1>8. CASE SaveCalibration
    BY <1>1, <1>3, <1>8 DEF SaveCalibration, Ask
  <1>9. CASE StartRun
    <2>1. /\ page = "ready" /\ page' = "ran" /\ Send("run", dir, 0)
          /\ submitted' = submitted /\ UNCHANGED <<stale, serverPart>>
      BY <1>9 DEF StartRun, Ask
    <2>2. ~hasty /\ submitted = "none"
      BY <2>1, NotHasty
    <2>3. Like(Request("run", dir, 0), Coming)
      BY <1>2, <2>1, ComingNext DEF Like, Runs
    <2>4. Duly(Request("run", dir, 0), Due')
      BY <1>2, <2>1, <2>2, DueNext DEF Duly
    <2>5. WaitingInv /\ "run" \in Actions
      BY <1>1, <2>2 DEF WaitingUser
    <2> QED
      BY <1>1, <2>1, <2>2, <2>3, <2>4, <2>5, SentWaiting
  <1>10. CASE ReRun
    <2>1. /\ page = "ran" /\ page' = "ready" /\ Send("re-run", dir, 0)
          /\ submitted' = submitted /\ UNCHANGED <<stale, serverPart>>
      BY <1>10 DEF ReRun, Ask
    <2>2. ~hasty /\ submitted = "none"
      BY <2>1, NotHasty
    <2>3. Like(Request("re-run", dir, 0), Coming)
      BY <1>2, <2>1, ComingNext DEF Like, Runs
    <2>4. Duly(Request("re-run", dir, 0), Due')
      BY <1>2, <2>1, <2>2, DueNext DEF Duly
    <2>5. WaitingInv /\ "re-run" \in Actions
      BY <1>1, <2>2 DEF WaitingUser
    <2> QED
      BY <1>1, <2>1, <2>2, <2>3, <2>4, <2>5, SentWaiting
  <1>11. CASE SubmitMeasurements
    <2>1. /\ page = "ran" /\ dir # "test" /\ ~busy /\ submitted' = dir
          /\ UNCHANGED <<page, dir, busy, stale, serverPart>>
      BY <1>11 DEF SubmitMeasurements
    <2>2. PICK a \in 1..MaxAngle : Send("submit", dir, a)
      BY <1>11 DEF SubmitMeasurements
    <2>3. ~hasty /\ submitted = "none" /\ a \in 0..MaxAngle
      BY <2>2, NotHasty, CalibrationAssumption
    <2>4. Like(Request("submit", dir, a), Coming)
      BY <1>2, <2>1, ComingNext DEF Like, Runs
    <2>5. submitted' # "none"
      BY <1>1, <2>1 DEF Directions, Turns
    <2>6. Duly(Request("submit", dir, a), Due')
      BY <2>5, DueNext DEF Duly
    <2>7. WaitingInv /\ "submit" \in Actions
      BY <1>1, <2>3 DEF WaitingUser
    <2> QED
      BY <1>1, <2>1, <2>2, <2>3, <2>4, <2>5, <2>6, <2>7, SentWaiting
  <1>12. CASE ReloadPage
    <2> DEFINE n == Len(requests)
    <2>1. /\ Len(requests') = n /\ n \in Nat
          /\ \A i \in 1..n : /\ requests'[i].action = requests[i].action
                             /\ requests'[i].dir = requests[i].dir /\ ~requests'[i].mine
          /\ serving' = [serving EXCEPT !.mine = FALSE]
          /\ page' = "away" /\ submitted' = "none"
          /\ UNCHANGED <<dir, hasty, stale, step, table, completed, saved>>
      BY <1>12, Reloaded DEF AnyUser
    <2>2. WaitingInv /\ serving'.waits = serving.waits /\ serving'.dir = serving.dir
      BY <2>1 DEF WaitingUser, AnyUser, CalibTypeOK
    <2>3. /\ \A i \in 1..n : Plan[i] = requests[i]
          /\ Plan[n + 1] = Due
          /\ \A i \in 1..n : Plan'[i] = requests'[i]
          /\ Plan'[n + 1] = Due' /\ Due'.action = "exit"
      BY <2>1, PlanOf, PlanOfNext, DueNext DEF AnyUser
    <2>4. \A i \in 1..n : Duly(Plan'[i], Plan'[i + 1])
      <3> TAKE i \in 1..n
      <3>1. CASE i = n
        BY <2>3, <3>1 DEF Duly
      <3>2. CASE i # n
        <4>1. i + 1 \in 1..n
          BY <2>1, <3>2
        <4>2. Duly(Plan[i], Plan[i + 1])
          BY <2>2 DEF WaitingInv, TakingTurns
        <4> QED
          BY <2>1, <2>3, <4>1, <4>2 DEF Duly
      <3> QED
        BY <3>1, <3>2
    <2>5. Plan'[1].action = "exit" \/ (Plan'[1].action = Plan[1].action /\ Plan'[1].dir = Plan[1].dir)
      <3>1. CASE n = 0
        BY <2>3, <3>1
      <3>2. CASE n > 0
        <4>1. 1 \in 1..n
          BY <2>1, <3>2
        <4> QED
          BY <2>1, <2>3, <4>1
      <3> QED
        BY <2>1, <3>1, <3>2
    <2>6. TakingTurns'
      <3>1. Served'.action = Served.action
        BY DEF Served, Request
      <3>2. serving.waits # "none" => Duly(Served, Plan[1])
        BY <2>2 DEF WaitingInv, TakingTurns
      <3>3. serving'.waits # "none" => Duly(Served', Plan'[1])
        BY <2>2, <2>5, <3>1, <3>2 DEF Duly
      <3> QED
        BY <2>1, <2>4, <3>3 DEF TakingTurns
    <2>7. OneSubmission' /\ NotLocked'
      BY <2>1 DEF OneSubmission, NotLocked
    <2>8. ServerReady'
      <3>1. serving.waits = "none" => Ready(Plan[1])
        BY <2>2 DEF WaitingInv, ServerReady
      <3>2. serving.waits = "none" => Ready(Plan[1])'
        BY <2>1, <2>5, <3>1 DEF Ready, MeasuredTo
      <3> QED
        BY <2>1, <2>2, <3>2 DEF WaitingInv, ServerReady, MeasuredTo
    <2>9. CompletedActual' /\ SavedWhole'
      BY <2>1, <2>2 DEF WaitingInv, CompletedActual, SavedWhole, MeasuredTo
    <2> QED
      BY <2>6, <2>7, <2>8, <2>9 DEF WaitingInv
  <1> QED
    BY <1>4, <1>5, <1>6, <1>7, <1>8, <1>9, <1>10, <1>11, <1>12, <1>13 DEF CalibUser

\* What is asked first, if it is about a run, is what may come anyway.
LEMMA PlanFirst == CalibTypeOK => Plan[1] = Asked[1] \/ Plan[1].action = "exit"
  <1> SUFFICES ASSUME CalibTypeOK PROVE Plan[1] = Asked[1] \/ Plan[1].action = "exit"
    OBVIOUS
  <1>1. /\ Len(requests) \in Nat /\ Plan[Len(requests) + 1] = Due
        /\ \A i \in 1..Len(requests) : Plan[i] = requests[i] /\ Asked[i] = requests[i]
        /\ Asked[Len(requests) + 1] = Coming
        /\ Due = Coming \/ Due.action = "exit"
    BY PlanOf
  <1>2. CASE Len(requests) = 0
    BY <1>1, <1>2
  <1>3. CASE Len(requests) > 0
    <2>1. 1 \in 1..Len(requests)
      BY <1>1, <1>3
    <2> QED
      BY <1>1, <2>1
  <1> QED
    BY <1>1, <1>2, <1>3

\* What reading a request leaves of the plan, the page and its answer being the same.
LEMMA PlanRead ==
  ASSUME AnyUser, AnyUser', WaitingInv, NEW action, Reads(action),
         UNCHANGED <<page, dir, submitted>>
  PROVE  /\ Len(requests) \in Nat \ {0} /\ Len(requests') = Len(requests) - 1
         /\ Head(requests) = requests[1] /\ requests[1] \in RequestSet
         /\ requests[1].action = action /\ serving.waits = "none"
         /\ \A i \in 1..Len(requests') : requests'[i] = requests[i + 1]
         /\ Ready(requests[1]) /\ Suits(requests[1])
         /\ Duly(requests[1], Plan'[1]) /\ Follows(requests[1], Plan'[1])
         /\ \A i \in 1..Len(requests') : Duly(Plan'[i], Plan'[i + 1])
  <1> DEFINE n == Len(requests)
  <1>1. /\ n \in Nat \ {0} /\ Len(requests') = n - 1
        /\ Head(requests) = requests[1] /\ requests[1] \in RequestSet
        /\ requests[1].action = action /\ serving.waits = "none"
        /\ \A i \in 1..Len(requests') : requests'[i] = requests[i + 1]
        /\ Asked'[1] = Asked[2] /\ Follows(requests[1], Asked'[1]) /\ Suits(requests[1])
    BY WasRead
  <1>2. Due' = Due
    BY DEF Due, Coming, Request
  <1>3. /\ Plan[n + 1] = Due
        /\ \A i \in 1..n : Plan[i] = requests[i] /\ Asked[i] = requests[i]
        /\ Asked[n + 1] = Coming /\ (Due = Coming \/ Due.action = "exit")
    BY PlanOf DEF AnyUser
  <1>4. /\ \A i \in 1..(n - 1) : Plan'[i] = requests'[i]
        /\ Plan'[n] = Due
    BY <1>1, <1>2, PlanOfNext DEF AnyUser
  <1>5. \A i \in 1..n : Plan'[i] = Plan[i + 1]
    BY <1>1, <1>3, <1>4
  <1>6. \A i \in 1..n : Duly(Plan[i], Plan[i + 1])
    BY DEF WaitingInv, TakingTurns
  <1>7. \A i \in 1..(n - 1) : Duly(Plan'[i], Plan'[i + 1])
    <2> TAKE i \in 1..(n - 1)
    <2>1. i \in 1..n /\ i + 1 \in 1..n
      BY <1>1
    <2> QED
      BY <1>5, <1>6, <2>1
  <1>8. 1 \in 1..n /\ Plan[1] = requests[1] /\ Plan'[1] = Plan[2]
    BY <1>1, <1>3, <1>5
  <1>9. Duly(requests[1], Plan'[1])
    BY <1>6, <1>8
  <1>10. Ready(requests[1])
    BY <1>1, <1>8 DEF WaitingInv, ServerReady
  <1>11. Follows(requests[1], Plan'[1])
    <2>1. CASE Plan'[1].action = "exit"
      BY <2>1 DEF Follows, Runs
    <2>2. CASE Plan'[1] = Asked[2]
      BY <1>1, <2>2
    <2>3. Plan[2] = Asked[2] \/ Plan[2].action = "exit"
      <3>1. CASE n = 1
        BY <1>3, <3>1
      <3>2. CASE n > 1
        <4>1. 2 \in 1..n
          BY <1>1, <3>2
        <4> QED
          BY <1>3, <4>1
      <3> QED
        BY <1>1, <3>1, <3>2
    <2> QED
      BY <1>8, <2>1, <2>2, <2>3
  <1> QED
    BY <1>1, <1>7, <1>9, <1>10, <1>11

\* A request is read that is neither the page's own submission nor a run.
LEMMA ReadWaits ==
  ASSUME AnyUser, AnyUser', WaitingInv, NEW action, Reads(action), action # "run",
         UNCHANGED <<page, dir, submitted, serving>>, busy' => busy
  PROVE  TakingTurns' /\ OneSubmission' /\ NotLocked'
  <1>1. /\ Len(requests) \in Nat \ {0} /\ Len(requests') = Len(requests) - 1
        /\ requests[1].action = action /\ serving.waits = "none"
        /\ \A i \in 1..Len(requests') : requests'[i] = requests[i + 1]
        /\ \A i \in 1..Len(requests') : Duly(Plan'[i], Plan'[i + 1])
    BY PlanRead
  <1>2. TakingTurns'
    BY <1>1 DEF TakingTurns
  <1>3. OneSubmission'
    <2> SUFFICES ASSUME NEW i \in 1..Len(requests'), requests'[i].action = "submit",
                        requests'[i].mine
                 PROVE  i = Len(requests') /\ submitted # "none"
      BY DEF WaitingInv, OneSubmission
    <2>1. i + 1 \in 1..Len(requests) /\ requests'[i] = requests[i + 1]
      BY <1>1
    <2>2. i + 1 = Len(requests) /\ submitted # "none"
      BY <2>1 DEF WaitingInv, OneSubmission
    <2> QED
      BY <1>1, <2>2
  <1>4. NotLocked'
    <2> SUFFICES ASSUME page = "ran", busy
                 PROVE  \E i \in 1..Len(requests') :
                          requests'[i].mine /\ requests'[i].action = "run"
      BY DEF NotLocked
    <2>1. PICK i \in 1..Len(requests) : requests[i].mine /\ requests[i].action = "run"
      BY <1>1 DEF WaitingInv, NotLocked
    <2>2. i # 1
      BY <1>1, <2>1
    <2>3. i - 1 \in 1..Len(requests') /\ requests'[i - 1] = requests[i]
      BY <1>1, <2>2
    <2> QED
      BY <2>1, <2>3
  <1> QED
    BY <1>2, <1>3, <1>4

LEMMA ResetWaits == AnyUser /\ AnyUser' /\ WaitingInv /\ HandleStartOrExit => WaitingInv'
  <1> SUFFICES ASSUME AnyUser, AnyUser', WaitingInv, HandleStartOrExit PROVE WaitingInv'
    OBVIOUS
  <1>1. PICK action \in {"start", "exit"} : Reads(action)
    BY DEF HandleStartOrExit
  <1>2. /\ step' = 0 /\ completed' = {}
        /\ UNCHANGED <<page, dir, busy, submitted, stale, serving, saved>>
    BY DEF HandleStartOrExit, wizard, answers
  <1>3. TakingTurns' /\ OneSubmission' /\ NotLocked'
    BY <1>1, <1>2, ReadWaits
  <1>4. serving.waits = "none" /\ requests[1].action = action /\ Duly(requests[1], Plan'[1])
    BY <1>1, <1>2, PlanRead
  <1>5. ServerReady'
    <2>1. Plan'[1].action \notin {"run", "re-run", "submit"}
      BY <1>1, <1>4 DEF Duly
    <2> QED
      BY <1>2, <1>4, <2>1 DEF ServerReady, Ready
  <1>6. CompletedActual' /\ SavedWhole'
    BY <1>2 DEF WaitingInv, SavedWhole, CompletedActual
  <1> QED
    BY <1>3, <1>5, <1>6 DEF WaitingInv

LEMMA ContinueWaits == AnyUser /\ AnyUser' /\ WaitingInv /\ HandleContinue => WaitingInv'
  <1> SUFFICES ASSUME AnyUser, AnyUser', WaitingInv, HandleContinue PROVE WaitingInv'
    OBVIOUS
  <1>1. /\ Reads("continue") /\ step' = 0
        /\ UNCHANGED <<page, dir, busy, submitted, stale, serving, table, completed, saved>>
    BY DEF HandleContinue, wizard, answers, FirstStep
  <1>2. TakingTurns' /\ OneSubmission' /\ NotLocked'
    BY <1>1, ReadWaits
  <1>3. serving.waits = "none" /\ requests[1].action = "continue" /\ Duly(requests[1], Plan'[1])
    BY <1>1, PlanRead
  <1>4. ServerReady'
    <2>1. Plan'[1].action \notin {"re-run", "submit"}
      BY <1>3 DEF Duly
    <2>2. \A d \in Directions : RunsOf[d] \in Nat \ {0}
      BY CalibrationAssumption
    <2> QED
      BY <1>1, <1>3, <2>1, <2>2 DEF ServerReady, Ready, MeasuredTo
  <1>5. CompletedActual' /\ SavedWhole'
    BY <1>1 DEF WaitingInv, SavedWhole, CompletedActual, MeasuredTo
  <1> QED
    BY <1>2, <1>4, <1>5 DEF WaitingInv

LEMMA ReRunWaits == AnyUser /\ AnyUser' /\ WaitingInv /\ HandleReRun => WaitingInv'
  <1> SUFFICES ASSUME AnyUser, AnyUser', WaitingInv, HandleReRun PROVE WaitingInv'
    OBVIOUS
  <1>1. /\ Reads("re-run") /\ step' = StepBack
        /\ UNCHANGED <<page, dir, busy, submitted, stale, serving, table, completed, saved>>
    BY DEF HandleReRun, wizard, results, answers
  <1>2. TakingTurns' /\ OneSubmission' /\ NotLocked'
    BY <1>1, ReadWaits
  <1>3. /\ serving.waits = "none" /\ requests[1].action = "re-run"
        /\ Duly(requests[1], Plan'[1]) /\ Follows(requests[1], Plan'[1])
        /\ Ready(requests[1]) /\ Suits(requests[1])
    BY <1>1, PlanRead
  <1>4. Ready(Plan[1])'
    <2> SUFFICES ASSUME Plan'[1].dir \in Directions, Plan'[1].action \in {"run", "re-run", "submit"}
                 PROVE  /\ Plan'[1].action = "run" /\ step' < RunsOf[Plan'[1].dir]
                        /\ MeasuredTo(Plan'[1].dir, step')
      BY <1>1 DEF Ready, MeasuredTo
    <2>1. Plan'[1].action = "run" /\ Plan'[1].dir = requests[1].dir
      BY <1>3 DEF Follows, Duly, Runs, Openings
    <2>2. LET d == requests[1].dir
          IN step <= RunsOf[d] /\ step >= 1 /\ MeasuredTo(d, step - 1)
      BY <1>3, <2>1 DEF Suits, Ready, Runs
    <2>3. step \in Nat /\ RunsOf[requests[1].dir] \in Nat
      BY <2>1, CalibrationAssumption DEF AnyUser, CalibTypeOK
    <2>4. step' = step - 1
      BY <1>1, <2>2, <2>3 DEF StepBack
    <2> QED
      BY <2>1, <2>2, <2>3, <2>4
  <1>5. ServerReady'
    BY <1>1, <1>3, <1>4 DEF ServerReady
  <1>6. CompletedActual' /\ SavedWhole'
    BY <1>1 DEF WaitingInv, SavedWhole, CompletedActual, MeasuredTo
  <1> QED
    BY <1>2, <1>5, <1>6 DEF WaitingInv

\* A run such a user asks for is never ignored.
LEMMA RunWaits == AnyUser /\ AnyUser' /\ WaitingInv /\ HandleRun => WaitingInv'
  <1> SUFFICES ASSUME AnyUser, AnyUser', WaitingInv, HandleRun PROVE WaitingInv'
    OBVIOUS
  <1> DEFINE r == requests[1]
  <1>1. /\ Reads("run")
        /\ UNCHANGED <<page, dir, busy, submitted, stale, step, table, completed, saved>>
    BY DEF HandleRun, wizard, results
  <1>2. /\ Len(requests) \in Nat \ {0} /\ Len(requests') = Len(requests) - 1
        /\ Head(requests) = r /\ r \in RequestSet /\ r.action = "run" /\ serving.waits = "none"
        /\ \A i \in 1..Len(requests') : requests'[i] = requests[i + 1]
        /\ Ready(r) /\ Duly(r, Plan'[1])
        /\ \A i \in 1..Len(requests') : Duly(Plan'[i], Plan'[i + 1])
    BY <1>1, PlanRead
  <1>3. r.dir \in Directions => step < RunsOf[r.dir] /\ MeasuredTo(r.dir, step)
    BY <1>2 DEF Ready
  <1>4. /\ r.dir \in Directions \cup {"test"} /\ step \in Nat
        /\ \A d \in Directions : RunsOf[d] \in Nat
    BY <1>2, CalibrationAssumption DEF RequestSet, AnyUser, CalibTypeOK
  <1>5. serving' = [waits |-> "pwm", dir |-> r.dir, mine |-> r.mine]
    BY <1>2, <1>3, <1>4 DEF HandleRun
  <1>6. serving'.waits = "pwm" /\ serving'.dir = r.dir /\ serving'.mine = r.mine
    BY <1>5
  <1>7. TakingTurns'
    <2>1. Served'.action = "run"
      BY DEF Served, Request
    <2>2. Duly(Served', Plan'[1])
      BY <1>2, <2>1 DEF Duly
    <2> QED
      BY <1>2, <2>2 DEF TakingTurns
  <1>8. OneSubmission'
    <2> SUFFICES ASSUME NEW i \in 1..Len(requests'), requests'[i].action = "submit",
                        requests'[i].mine
                 PROVE  i = Len(requests') /\ submitted # "none"
      BY <1>1 DEF WaitingInv, OneSubmission
    <2>1. i + 1 \in 1..Len(requests) /\ requests'[i] = requests[i + 1]
      BY <1>2
    <2>2. i + 1 = Len(requests) /\ submitted # "none"
      BY <2>1 DEF WaitingInv, OneSubmission
    <2> QED
      BY <1>2, <2>2
  <1>9. NotLocked'
    <2> SUFFICES ASSUME page = "ran", busy
                 PROVE  \/ r.mine
                        \/ \E i \in 1..Len(requests') :
                             requests'[i].mine /\ requests'[i].action = "run"
      BY <1>1, <1>6 DEF NotLocked
    <2>1. PICK i \in 1..Len(requests) : requests[i].mine /\ requests[i].action = "run"
      BY <1>2 DEF WaitingInv, NotLocked
    <2>2. CASE i = 1
      BY <2>1, <2>2
    <2>3. CASE i # 1
      <3>1. i - 1 \in 1..Len(requests') /\ requests'[i - 1] = requests[i]
        BY <1>2, <2>3
      <3> QED
        BY <2>1, <3>1
    <2> QED
      BY <2>2, <2>3
  <1>10. ServerReady'
    BY <1>1, <1>3, <1>6 DEF ServerReady, MeasuredTo
  <1>11. CompletedActual' /\ SavedWhole'
    BY <1>1 DEF WaitingInv, SavedWhole, CompletedActual, MeasuredTo
  <1> QED
    BY <1>7, <1>8, <1>9, <1>10, <1>11 DEF WaitingInv

LEMMA PwmWaits == AnyUser /\ AnyUser' /\ WaitingInv /\ ReceivePwm => WaitingInv'
  <1> SUFFICES ASSUME AnyUser, AnyUser', WaitingInv, ReceivePwm PROVE WaitingInv'
    OBVIOUS
  <1> DEFINE d == serving.dir
  <1>1. /\ serving.waits = "pwm" /\ serving' = [serving EXCEPT !.waits = "done"]
        /\ table' = IF d = "test" THEN table ELSE [table EXCEPT ![d][step + 1].pwm = TRUE]
        /\ UNCHANGED <<page, dir, busy, submitted, stale, requests, step, completed, saved>>
    BY DEF ReceivePwm, RunAtHand, wizard
  <1>2. /\ serving'.waits = "done" /\ serving'.dir = d /\ serving'.mine = serving.mine
        /\ d \in Directions \cup {"test"} /\ step \in Nat
        /\ \A e \in Directions : RunsOf[e] \in Nat
    BY <1>1, CalibrationAssumption DEF AnyUser, CalibTypeOK
  <1>3. Plan' = Plan /\ Served' = Served
    BY <1>1, <1>2 DEF Plan, Due, Coming, Served, Request
  <1>4. d \in Directions => step < RunsOf[d]
    BY <1>1 DEF AnyUser, ServerSuits
  <1>5. \A e \in Directions : \A i \in 1..RunsOf[e] : table[e][i].actual <=> table'[e][i].actual
    <2>1. CASE d \in Directions
      <3>1. step + 1 \in 1..RunsOf[d] /\ (d # "test")
        BY <1>2, <1>4, <2>1 DEF Directions, Turns
      <3>2. table' = [table EXCEPT ![d][step + 1].pwm = TRUE]
        BY <1>1, <3>1
      <3> QED
        BY <2>1, <3>1, <3>2, PwmNoted
    <2>2. CASE d = "test"
      BY <1>1, <2>2
    <2> QED
      BY <1>2, <2>1, <2>2
  <1>6. TakingTurns' /\ OneSubmission' /\ NotLocked'
    BY <1>1, <1>2, <1>3 DEF WaitingInv, TakingTurns, OneSubmission, NotLocked
  <1>7. ServerReady'
    <2> SUFFICES ASSUME d \in Directions, NEW i \in 1..step PROVE table'[d][i].actual
      BY <1>1, <1>2 DEF ServerReady, MeasuredTo
    <2>1. table[d][i].actual
      BY <1>1 DEF WaitingInv, ServerReady, MeasuredTo
    <2>2. i \in 1..RunsOf[d]
      BY <1>2, <1>4
    <2> QED
      BY <1>5, <2>1, <2>2
  <1>8. CompletedActual' /\ SavedWhole'
    BY <1>1, <1>5 DEF WaitingInv, SavedWhole, CompletedActual, MeasuredTo
  <1> QED
    BY <1>6, <1>7, <1>8 DEF WaitingInv

LEMMA RunDoneWaits == AnyUser /\ AnyUser' /\ WaitingInv /\ ReceiveRunDone => WaitingInv'
  <1> SUFFICES ASSUME AnyUser, AnyUser', WaitingInv, ReceiveRunDone PROVE WaitingInv'
    OBVIOUS
  <1> DEFINE d == serving.dir
  <1>1. /\ serving.waits = "done" /\ serving' = NoRun
        /\ step' = IF d = "test" THEN step ELSE step + 1
        /\ busy' = (busy /\ ~serving.mine)
        /\ UNCHANGED <<page, dir, submitted, stale, requests, table, completed, saved>>
    BY DEF ReceiveRunDone, results
  <1>2. serving'.waits = "none" /\ step \in Nat /\ "test" \notin Directions
    BY <1>1 DEF NoRun, AnyUser, CalibTypeOK, Directions, Turns
  <1>3. Plan' = Plan
    BY <1>1 DEF Plan, Due, Coming, Request
  <1>4. TakingTurns' /\ OneSubmission' /\ NotLocked'
    BY <1>1, <1>2, <1>3 DEF WaitingInv, TakingTurns, OneSubmission, NotLocked
  <1>5. Ready(Plan[1])'
    <2> SUFFICES ASSUME Plan[1].dir \in Directions, Plan[1].action \in {"run", "re-run", "submit"}
                 PROVE  Plan[1].action # "run" /\ MeasuredTo(Plan[1].dir, step' - 1)
      BY <1>1, <1>3 DEF Ready, MeasuredTo
    <2>1. Served.action = "run" /\ Served.dir = d
      BY DEF Served, Request
    <2>2. Duly(Served, Plan[1])
      BY <1>1 DEF WaitingInv, TakingTurns
    <2>3. Plan[1] = Asked[1]
      BY PlanFirst DEF AnyUser
    <2>4. Follows(Served, Plan[1])
      BY <1>1, <2>3 DEF AnyUser, InOrder
    <2>5. Plan[1].action # "run" /\ Plan[1].dir = d
      BY <2>1, <2>2, <2>4 DEF Duly, Follows, Runs
    <2>6. MeasuredTo(d, step) /\ step' = step + 1
      BY <1>1, <1>2, <2>5 DEF WaitingInv, ServerReady
    <2>7. step' - 1 = step
      BY <1>2, <2>6
    <2> QED
      BY <2>5, <2>6, <2>7
  <1>6. ServerReady'
    BY <1>2, <1>5 DEF ServerReady
  <1>7. CompletedActual' /\ SavedWhole'
    BY <1>1 DEF WaitingInv, SavedWhole, CompletedActual, MeasuredTo
  <1> QED
    BY <1>4, <1>6, <1>7 DEF WaitingInv

LEMMA TestRunDoneWaits ==
  AnyUser /\ AnyUser' /\ WaitingInv /\ HandleTestRunDone => WaitingInv'
  <1> SUFFICES ASSUME AnyUser, AnyUser', WaitingInv, HandleTestRunDone PROVE WaitingInv'
    OBVIOUS
  <1>1. /\ Reads("test_run_done") /\ completed' = completed \cup {"test"} /\ (busy' => busy)
        /\ UNCHANGED <<page, dir, submitted, stale, serving, step, table, saved>>
    BY DEF HandleTestRunDone
  <1>2. TakingTurns' /\ OneSubmission' /\ NotLocked'
    BY <1>1, ReadWaits
  <1>3. /\ serving.waits = "none" /\ requests[1].action = "test_run_done"
        /\ Follows(requests[1], Plan'[1])
    BY <1>1, PlanRead
  <1>4. ServerReady'
    <2>1. Duly(requests[1], Plan'[1])
      BY <1>1, PlanRead
    <2>2. Plan'[1].action \notin {"run", "re-run", "submit"}
      BY <1>3, <2>1 DEF Duly
    <2> QED
      BY <1>1, <1>3, <2>2 DEF ServerReady, Ready
  <1>5. CompletedActual' /\ SavedWhole'
    BY <1>1 DEF WaitingInv, SavedWhole, CompletedActual, MeasuredTo, Directions, Turns
  <1> QED
    BY <1>2, <1>4, <1>5 DEF WaitingInv

\* What is saved is whole: a save is read only when everything is completed.
LEMMA SaveWaits == AnyUser /\ AnyUser' /\ WaitingInv /\ HandleSave => WaitingInv'
  <1> SUFFICES ASSUME AnyUser, AnyUser', WaitingInv, HandleSave PROVE WaitingInv'
    OBVIOUS
  <1>1. /\ Reads("save")
        /\ UNCHANGED <<page, dir, busy, submitted, stale, serving, step, table, completed>>
    BY DEF HandleSave, wizard, results, answers
  <1>2. TakingTurns' /\ OneSubmission' /\ NotLocked'
    BY <1>1, ReadWaits
  <1>3. /\ serving.waits = "none" /\ requests[1].action = "save"
        /\ Len(requests) \in Nat \ {0} /\ Follows(requests[1], Plan'[1])
    BY <1>1, PlanRead
  <1>4. ServerReady'
    <2>1. Duly(requests[1], Plan'[1])
      BY <1>1, PlanRead
    <2>2. Plan'[1].action \notin {"run", "re-run", "submit"}
      BY <1>3, <2>1 DEF Duly
    <2> QED
      BY <1>1, <1>3, <2>2 DEF ServerReady, Ready
  <1>5. SavedWhole'
    <2> SUFFICES ASSUME ~stale PROVE saved' # "part"
      BY <1>1 DEF SavedWhole
    <2>1. 1 \in 1..Len(requests)
      BY <1>3
    <2>2. completed = Directions \cup {"test"}
      BY <1>3, <2>1 DEF AnyUser, RequestsOK
    <2>3. \A d \in Directions : \A i \in 1..RunsOf[d] : table[d][i].pwm /\ table[d][i].actual
      BY <2>2 DEF AnyUser, CompletedDriven, DrivenTo, WaitingInv, CompletedActual, MeasuredTo
    <2> QED
      BY <2>3 DEF HandleSave
  <1>6. CompletedActual'
    BY <1>1 DEF WaitingInv, CompletedActual, MeasuredTo
  <1> QED
    BY <1>2, <1>4, <1>5, <1>6 DEF WaitingInv

\* The answer to the page's own submission leaves it at the run that is next, if the
\* direction has one.
LEMMA OwnSubmission ==
  ASSUME AnyUser, AnyUser', WaitingInv, Reads("submit"), requests[1].mine,
         NEW done, Answered(done), submitted' = "none", UNCHANGED <<serving, step>>,
         ~done =>
           step < RunsOf[requests[1].dir] /\ \A i \in 1..step : table'[requests[1].dir][i].actual
  PROVE  TakingTurns' /\ OneSubmission' /\ NotLocked' /\ ServerReady'
  <1>1. /\ serving.waits = "none" /\ requests[1].action = "submit"
        /\ Len(requests) \in Nat \ {0} /\ Len(requests') = Len(requests) - 1
    BY SubmissionRead
  <1>2. 1 \in 1..Len(requests)
    BY <1>1
  <1>3. Len(requests) = 1 /\ submitted # "none"
    BY <1>1, <1>2 DEF WaitingInv, OneSubmission
  <1>4. page = "ran" /\ requests[1].dir = submitted
    BY <1>3 DEF WaitingInv, OneSubmission, AnyUser, SubmittedOK
  <1>5. page' = "menu" \/ (~done /\ page' = "ready" /\ dir' = requests[1].dir)
    BY <1>4 DEF Answered
  <1>6. Len(requests') = 0
    <2>1. Len(requests') = Len(requests) - 1
      BY <1>1
    <2>2. Len(requests) = 1
      BY <1>3
    <2> QED
      BY <2>1, <2>2
  <1>7. TakingTurns' /\ OneSubmission' /\ NotLocked'
    <2>1. 1..Len(requests') = {}
      BY <1>6
    <2>2. serving'.waits = "none" /\ page' # "ran"
      BY <1>1, <1>5
    <2> QED
      BY <2>1, <2>2 DEF TakingTurns, OneSubmission, NotLocked
  <1>8. Plan'[1] = Due'
    BY <1>6, PlanOfNext DEF AnyUser
  <1>9. Due' = Coming'
    BY DEF Due
  <1>10. CASE page' = "menu"
    <2>1. Plan'[1].action = "exit"
      BY <1>8, <1>10, DueNext
    <2> QED
      BY <1>1, <1>7, <2>1 DEF ServerReady, Ready
  <1>11. CASE ~done /\ page' = "ready" /\ dir' = requests[1].dir
    <2>1. Plan'[1].action = "run" /\ Plan'[1].dir = requests[1].dir
      BY <1>8, <1>9, <1>11, ComingNext
    <2>2. Ready(Plan[1])'
      BY <1>11, <2>1 DEF Ready, MeasuredTo
    <2> QED
      BY <1>1, <1>7, <2>2 DEF ServerReady
  <1> QED
    BY <1>5, <1>10, <1>11

LEMMA SubmissionWaits ==
  AnyUser /\ AnyUser' /\ WaitingInv /\ HandleSubmission => WaitingInv'
  <1> SUFFICES ASSUME AnyUser, AnyUser', WaitingInv, HandleSubmission PROVE WaitingInv'
    OBVIOUS
  <1> DEFINE r == requests[1]
             d == r.dir
             done == step >= RunsOf[d]
  <1>1. Reads("submit")
    BY DEF HandleSubmission
  <1>2. /\ serving.waits = "none" /\ Head(requests) = r /\ r.action = "submit"
        /\ d \in Directions /\ step \in 1..RunsOf[d]
        /\ Len(requests) \in Nat \ {0}
        /\ \A i \in 1..Len(requests) : Asked[i] = requests[i]
    BY <1>1, SubmissionRead
  <1>3. /\ table' = [table EXCEPT ![d][step].actual = TRUE]
        /\ completed' = IF done THEN completed \cup {d} ELSE completed
        /\ IF r.mine /\ submitted # "none"
           THEN Answered(done) /\ submitted' = "none"
           ELSE UNCHANGED <<page, dir, submitted>>
    BY <1>2 DEF HandleSubmission
  <1>4. UNCHANGED <<busy, stale, serving, step, saved>>
    BY DEF HandleSubmission
  <1>5. RunsOf[d] \in Nat \ {0} /\ step \in Nat
    BY <1>2, CalibrationAssumption DEF AnyUser, CalibTypeOK
  <1>6. /\ table'[d][step].actual
        /\ \A e \in Directions : \A i \in 1..RunsOf[e] : table[e][i].actual => table'[e][i].actual
    BY <1>2, <1>3, ActualNoted
  <1>7. \A i \in 1..step : table'[d][i].actual
    <2>1. 1 \in 1..Len(requests) /\ Plan[1] = r
      BY <1>2, PlanOf DEF AnyUser
    <2>2. MeasuredTo(d, step - 1)
      BY <1>2, <2>1 DEF WaitingInv, ServerReady, Ready
    <2> TAKE i \in 1..step
    <2>3. CASE i = step
      BY <1>6, <2>3
    <2>4. CASE i # step
      <3>1. i \in 1..(step - 1) /\ i \in 1..RunsOf[d]
        BY <1>2, <1>5, <2>4
      <3> QED
        BY <1>2, <1>6, <2>2, <3>1 DEF MeasuredTo
    <2> QED
      BY <2>3, <2>4
  <1>8. CompletedActual' /\ SavedWhole'
    <2>1. ASSUME NEW e \in Directions, e \in completed', NEW i \in 1..RunsOf[e]
          PROVE  table'[e][i].actual
      <3>1. CASE e \in completed
        BY <1>6, <2>1, <3>1 DEF WaitingInv, CompletedActual, MeasuredTo
      <3>2. CASE e = d /\ done
        <4>1. i \in 1..step
          BY <1>5, <2>1, <3>2
        <4> QED
          BY <1>7, <3>2, <4>1
      <3> QED
        BY <1>3, <2>1, <3>1, <3>2
    <2> QED
      BY <1>4, <2>1 DEF WaitingInv, CompletedActual, SavedWhole, MeasuredTo
  <1>9. CASE ~r.mine
    <2>1. UNCHANGED <<page, dir, submitted>>
      BY <1>3, <1>9
    <2>2. TakingTurns' /\ OneSubmission' /\ NotLocked'
      BY <1>1, <1>4, <2>1, ReadWaits
    <2>3. Duly(r, Plan'[1])
      BY <1>1, <2>1, PlanRead
    <2>4. Plan'[1].action \notin {"run", "re-run", "submit"}
      BY <1>2, <2>3 DEF Duly
    <2>5. ServerReady'
      BY <1>2, <1>4, <2>4 DEF ServerReady, Ready
    <2> QED
      BY <1>8, <2>2, <2>5 DEF WaitingInv
  <1>10. CASE r.mine
    <2>1. 1 \in 1..Len(requests)
      BY <1>2
    <2>2. submitted # "none"
      BY <1>2, <1>10, <2>1 DEF WaitingInv, OneSubmission
    <2>3. Answered(done) /\ submitted' = "none" /\ (~done => step < RunsOf[d])
      BY <1>3, <1>5, <1>10, <2>2
    <2> HIDE DEF done
    <2>4. TakingTurns' /\ OneSubmission' /\ NotLocked' /\ ServerReady'
      BY <1>1, <1>4, <1>7, <1>10, <2>3, OwnSubmission
    <2> QED
      BY <1>8, <2>4 DEF WaitingInv
  <1> QED
    BY <1>9, <1>10

LEMMA BoardWaits ==
  WaitingInv /\ (BoardSendsPwm \/ BoardSendsDone \/ SendCalibrationStatus \/ UNCHANGED calibVars)
    => WaitingInv'
  <1> SUFFICES ASSUME WaitingInv, \/ BoardSendsPwm \/ BoardSendsDone \/ SendCalibrationStatus
                                  \/ UNCHANGED calibVars
               PROVE  WaitingInv'
    OBVIOUS
  <1>1. UNCHANGED <<page, dir, busy, submitted, stale, requests, serving, step, table, completed,
                    saved>>
    BY DEF BoardSendsPwm, BoardSendsDone, SendCalibrationStatus, calibVars, wizard, results,
           serverPart
  <1>2. Plan' = Plan /\ Served' = Served
    BY <1>1 DEF Plan, Due, Coming, Served, Request
  <1>3. TakingTurns' /\ OneSubmission' /\ NotLocked' /\ CompletedActual' /\ SavedWhole'
    BY <1>1, <1>2 DEF WaitingInv, TakingTurns, OneSubmission, NotLocked, CompletedActual,
                      SavedWhole, MeasuredTo
  <1>4. ServerReady'
    BY <1>1, <1>2 DEF WaitingInv, ServerReady, Ready, MeasuredTo
  <1> QED
    BY <1>3, <1>4 DEF WaitingInv

LEMMA WaitingUserInit == CalibInit => WaitingUser
  <1> SUFFICES ASSUME CalibInit PROVE WaitingInv
    BY DEF WaitingUser
  <1>1. /\ Len(requests) = 0 /\ serving.waits = "none" /\ page = "away"
        /\ submitted = "none" /\ completed = {} /\ SavedWhole
    BY DEF CalibInit, NoRun, SavedWhole
  <1>2. Plan[1].action = "exit"
    <2>1. Plan[1] = Due
      BY <1>1, AnyUserInit, PlanOf DEF AnyUser
    <2> QED
      BY <1>1, <2>1 DEF Due, Coming, Request
  <1>3. TakingTurns /\ OneSubmission /\ NotLocked /\ CompletedActual
    BY <1>1 DEF TakingTurns, OneSubmission, NotLocked, CompletedActual
  <1>4. ServerReady
    BY <1>1, <1>2 DEF ServerReady, Ready
  <1> QED
    BY <1>1, <1>3, <1>4 DEF WaitingInv

\* Of a user who waits for each answer, what runs and measures next.
THEOREM WaitingInvariant == CalibSpec => [](AnyUser /\ WaitingUser)
  <1>1. AnyUser /\ AnyUser' /\ WaitingUser /\ [CalibNext]_calibVars => WaitingUser'
    <2> SUFFICES ASSUME AnyUser, AnyUser', WaitingUser, [CalibNext]_calibVars, ~hasty'
                 PROVE  WaitingInv'
      BY DEF WaitingUser
    <2>1. CASE CalibUser
      BY <2>1, UserWaits DEF WaitingUser
    <2>2. CASE ~CalibUser
      <3>1. UNCHANGED hasty
        BY <2>2 DEF CalibNext, CalibServer, HandleStartOrExit, HandleContinue, HandleReRun,
                    HandleRun, ReceivePwm, ReceiveRunDone, HandleTestRunDone, HandleSubmission,
                    HandleSave, SendCalibrationStatus, BoardSendsPwm, BoardSendsDone, calibVars,
                    wizard
      <3>2. WaitingInv
        BY <3>1 DEF WaitingUser
      <3> QED
        BY <2>2, <3>2, ResetWaits, ContinueWaits, ReRunWaits, RunWaits, PwmWaits, RunDoneWaits,
           TestRunDoneWaits, SubmissionWaits, SaveWaits, BoardWaits
           DEF CalibNext, CalibServer
    <2> QED
      BY <2>1, <2>2
  <1> QED
    BY WaitingUserInit, AnyUserInvariant, <1>1, PTL DEF CalibSpec

\* A completed direction was driven command by command, and measured by a user who
\* waits for each answer.  Nothing less is then saved, unless Save was pressed while what
\* the page knew to be completed no longer was, or a reset was unread.
THEOREM CalibSafe == CalibSpec => []CalibInv
  <1>1. AnyUser /\ WaitingUser => CalibInv
    BY DEF AnyUser, CompletedDriven, DrivenTo, WaitingUser, WaitingInv, CompletedActual, SavedWhole,
           MeasuredTo, CalibInv, CompletedMeasured
  <1> QED
    BY <1>1, WaitingInvariant, PTL

\* When the server has read everything, it and the page of such a user agree on what
\* is to be run and measured next.
THEOREM WizardSafe == CalibSpec => []WizardAgrees
  <1>1. AnyUser /\ WaitingUser => WizardAgrees
    <2> SUFFICES ASSUME AnyUser, WaitingInv, serving.waits = "none", requests = <<>>
                 PROVE  /\ page = "ready" /\ dir # "test" => step < RunsOf[dir]
                        /\ page = "ran" =>
                             /\ ~busy
                             /\ dir # "test" => step \in 1..RunsOf[dir] /\ table[dir][step].pwm
      BY DEF WaitingUser, WizardAgrees
    <2>1. Len(requests) = 0
      OBVIOUS
    <2>2. submitted = "none"
      BY <2>1 DEF AnyUser, SubmittedOK
    <2>3. Plan[1] = Coming /\ Asked[1] = Coming
      BY <2>1, <2>2, PlanOf DEF AnyUser, Due
    <2>4. Ready(Coming) /\ Suits(Coming)
      BY <2>3 DEF WaitingInv, ServerReady, AnyUser, ServerSuits
    <2>5. CalibTypeOK
      BY DEF AnyUser
    <2>6. /\ Coming.dir = dir /\ page = "ready" => Coming.action = "run"
          /\ page = "ran" => Coming.action = "re-run"
      BY <2>5, ComingTyped
    <2>7. Coming.dir = dir
      BY <2>5, ComingTyped
    <2>8. page = "ready" /\ dir # "test" => step < RunsOf[dir]
      BY <2>4, <2>5, <2>6, <2>7 DEF Ready, CalibTypeOK
    <2>9. page = "ran" => ~busy
      BY <2>1 DEF WaitingInv, NotLocked
    <2>10. ASSUME page = "ran", dir # "test" PROVE step \in 1..RunsOf[dir] /\ table[dir][step].pwm
      <3>1. dir \in Directions /\ step \in Nat /\ RunsOf[dir] \in Nat
        BY <2>5, <2>10, CalibrationAssumption DEF CalibTypeOK
      <3>2. step <= RunsOf[dir] /\ DrivenTo(dir, step) /\ step >= 1
        BY <2>4, <2>6, <2>7, <2>10, <3>1 DEF Suits, Runs
      <3>3. step \in 1..RunsOf[dir] /\ step \in 1..step
        BY <3>1, <3>2
      <3> QED
        BY <3>2, <3>3 DEF DrivenTo
    <2> QED
      BY <2>8, <2>9, <2>10
  <1> QED
    BY <1>1, WaitingInvariant, PTL
=============================================================================
