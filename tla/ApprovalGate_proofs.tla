---- MODULE ApprovalGate_proofs ----
(***************************************************************************)
(* The nightly restore never applies a tree that no attended run applied   *)
(* before it, for any policies and any number of commits, nights, failures *)
(* and re-runs.  The property alone is not inductive: the restore is       *)
(* cleared long before it runs, and between the two other runs of the      *)
(* queue change the outcomes the check has read.  What carries it is that  *)
(* an applied commit is never queued again (QueuedOnce), so nothing that   *)
(* happens to the queue can take an applied outcome away.                  *)
(***************************************************************************)
EXTENDS ApprovalGate, SequenceTheorems, TLAPS

Backed(c) == \E d \in Commits : outcome[d] = "applied" /\ main[d] = main[c]

QueuedOnce ==
    /\ \A r \in {running, pending} : Attended(r) => outcome[r.commit] = "queued"
    /\ Attended(running) /\ Attended(pending) => running.commit # pending.commit
    /\ running.phase = "waiting" => Attended(running)
    /\ outcome[1] = "applied"

ClearedIsBacked ==
    /\ \A r \in {running, pending} : r.unattended => Backed(r.commit)
    /\ night.at = "cleared" => Backed(night.commit)

GInv == TypeOK /\ QueuedOnce /\ ClearedIsBacked

----
(* Lemmas about the queue.                                                 *)

\* Recording how one run stands leaves the outcomes of the others.
LEMMA ExceptOutcome ==
    ASSUME NEW s \in Seq(Outcomes), NEW c \in 1 .. Len(s), NEW o \in Outcomes
    PROVE  /\ [s EXCEPT ![c] = o] \in Seq(Outcomes)
           /\ Len([s EXCEPT ![c] = o]) = Len(s)
           /\ \A d \in 1 .. Len(s) : [s EXCEPT ![c] = o][d] = IF d = c THEN o ELSE s[d]
<1>1. \A T : \A q \in Seq(T) : \A i \in 1 .. Len(q) : \A e \in T :
        /\ [q EXCEPT ![i] = e] \in Seq(T)
        /\ Len([q EXCEPT ![i] = e]) = Len(q)
        /\ \A j \in 1 .. Len(q) : [q EXCEPT ![i] = e][j] = IF j = i THEN e ELSE q[j]
  BY ExceptSeq, Zenon
<1>2. QED
  BY <1>1, SMTT(40)

\* Cancelling the waiting run keeps every applied outcome and that of the run
\* holding the group.
LEMMA DisplacedKeeps ==
    ASSUME GInv, NEW b \in BOOLEAN
    PROVE  /\ Displaced(b) \in Seq(Outcomes)
           /\ Len(Displaced(b)) = Len(main)
           /\ \A c \in Commits : outcome[c] = "applied" => Displaced(b)[c] = "applied"
           /\ Attended(running) => Displaced(b)[running.commit] = "queued"
<1> DEFINE o == IF b THEN "displaced" ELSE "evicted"
<1>1. CASE ~Attended(pending)
  BY <1>1 DEF Displaced, GInv, TypeOK, QueuedOnce
<1>2. CASE Attended(pending)
  <2>1. pending.commit \in 1 .. Len(outcome)
    BY <1>2 DEF GInv, TypeOK, Attended, Commits
  <2>2. outcome \in Seq(Outcomes) /\ o \in Outcomes
    BY DEF GInv, TypeOK, Outcomes
  <2>3. Displaced(b) = [outcome EXCEPT ![pending.commit] = o]
    BY <1>2 DEF Displaced
  <2>4. /\ Displaced(b) \in Seq(Outcomes)
        /\ Len(Displaced(b)) = Len(outcome)
        /\ \A c \in 1 .. Len(outcome) :
             Displaced(b)[c] = IF c = pending.commit THEN o ELSE outcome[c]
    BY <2>1, <2>2, <2>3, ExceptOutcome
  <2>5. outcome[pending.commit] = "queued"
    BY <1>2 DEF GInv, QueuedOnce
  <2>6. Commits = 1 .. Len(outcome) /\ Len(outcome) = Len(main)
    BY DEF GInv, TypeOK, Commits
  <2>7. ASSUME Attended(running)
        PROVE  /\ running.commit \in Commits
               /\ running.commit # pending.commit
               /\ outcome[running.commit] = "queued"
    BY <1>2, <2>7 DEF GInv, TypeOK, QueuedOnce, Attended
  <2>8. QED
    BY <2>4, <2>5, <2>6, <2>7
<1>3. QED
  BY <1>1, <1>2

\* Appending a commit keeps the trees and outcomes of the earlier ones.
LEMMA AppendKeeps ==
    ASSUME NEW S, NEW s \in Seq(S), NEW e \in S
    PROVE  /\ Append(s, e) \in Seq(S)
           /\ Len(Append(s, e)) = Len(s) + 1
           /\ Append(s, e) # <<>>
           /\ \A i \in 1 .. Len(s) : Append(s, e)[i] = s[i]
           /\ Append(s, e)[Len(s) + 1] = e
BY AppendProperties

----
(* Every step keeps the invariant.                                         *)

LEMMA GInvInit == Init => GInv
<1> SUFFICES ASSUME Init PROVE GInv
  OBVIOUS
<1>1. PICK t \in SUBSET (Policies \ High) : main = <<t>>
  BY DEF Init
<1>2. main \in Seq(Trees) \ {<<>>} /\ Len(main) = 1
  BY <1>1 DEF Trees
<1>3. outcome \in Seq(Outcomes) /\ Len(outcome) = 1
  BY DEF Init, Outcomes
<1>4. declared \in Trees /\ reviewed \in Trees
  BY <1>1 DEF Init, Trees
<1>5. QED
  BY <1>2, <1>3, <1>4, BoundsAssumption
  DEF Init, GInv, TypeOK, QueuedOnce, ClearedIsBacked, Runs, NoRun, Asleep, Attended


\* What no step but the ending of a run, a merge and a re-run disturbs.
LEMMA OthersKeep ==
    ASSUME GInv,
           \/ StartRun \/ Approve \/ Schedule \/ AlreadyApplied \/ Restore
    PROVE  GInv'
<1> USE DEF GInv, TypeOK, QueuedOnce, ClearedIsBacked, Attended, Commits,
            Runs, NoRun, Asleep
<1>1. CASE StartRun
  <2>1. PICK ph \in {"waiting", "applying"} :
          /\ running' = [pending EXCEPT !.phase = ph]
          /\ pending.unattended => ph = "applying"
    BY <1>1 DEF StartRun
  <2>2. /\ running' \in Runs /\ running' # NoRun
        /\ running'.commit = pending.commit /\ running'.commit \in Commits
        /\ running'.unattended = pending.unattended
        /\ running'.phase = ph
    BY <1>1, <2>1 DEF StartRun, Waiting
  <2>3. \A c : Backed(c)' <=> Backed(c)
    BY <1>1 DEF StartRun, Backed
  <2>4. /\ pending' = NoRun
        /\ UNCHANGED <<main, outcome, night, declared, reviewed, nights, reruns>>
    BY <1>1 DEF StartRun
  <2>5. TypeOK'
    BY <2>2, <2>4
  <2>6. QueuedOnce'
    BY <2>1, <2>2, <2>4
  <2>7. ClearedIsBacked'
    BY <2>2, <2>3, <2>4
  <2>8. QED
    BY <2>5, <2>6, <2>7
<1>2. CASE Approve
  <2>1. running.commit \in Commits \ {1}
    BY <1>2 DEF Approve
  <2>2. main[running.commit] \in Trees /\ main[running.commit - 1] \in Trees
    BY <2>1
  <2>3. reviewed' \in Trees
    BY <1>2, <2>2 DEF Approve, Changeset, Trees
  <2>4. \A c : Backed(c)' <=> Backed(c)
    BY <1>2 DEF Approve, Backed
  <2>5. QED
    BY <1>2, <2>3, <2>4 DEF Approve
<1>3. CASE Schedule
  <2>1. Len(main) \in 1 .. Len(main)
    OBVIOUS
  <2>2. nights' \in 0 .. MaxNights
    BY <1>3, BoundsAssumption DEF Schedule
  <2>3. \A c : Backed(c)' <=> Backed(c)
    BY <1>3 DEF Schedule, Backed
  <2>4. QED
    BY <1>3, <2>1, <2>2, <2>3 DEF Schedule
<1>4. CASE AlreadyApplied
  <2>1. night'.at = "cleared" => Backed(night.commit) /\ night'.commit = night.commit
    BY <1>4 DEF AlreadyApplied, IsLastApplied, Applied, Backed
  <2>2. \A c : Backed(c)' <=> Backed(c)
    BY <1>4 DEF AlreadyApplied, Backed
  <2>3. night' = Asleep \/ night' = [commit |-> night.commit, at |-> "cleared"]
    BY <1>4 DEF AlreadyApplied
  <2>4. QED
    BY <1>4, <2>1, <2>2, <2>3 DEF AlreadyApplied
<1>5. CASE Restore
  <2>1. /\ outcome' \in Seq(Outcomes)
        /\ Len(outcome') = Len(main)
        /\ \A c \in Commits : outcome[c] = "applied" => outcome'[c] = "applied"
        /\ Attended(running) => outcome'[running.commit] = "queued"
    BY <1>5, DisplacedKeeps DEF Restore
  <2>2. night.commit \in 1 .. Len(main) /\ Backed(night.commit)
    BY <1>5 DEF Restore
  <2>3. /\ pending' = [commit |-> night.commit, unattended |-> TRUE, phase |-> "queued"]
        /\ night' = Asleep
        /\ UNCHANGED <<main, running, declared, reviewed, nights, reruns>>
    BY <1>5 DEF Restore, Queue
  <2>4. \A c : Backed(c) => Backed(c)'
    BY <2>1, <2>3 DEF Backed
  <2>5. TypeOK'
    BY <2>1, <2>2, <2>3
  <2>6. QueuedOnce'
    BY <2>1, <2>3
  <2>7. ClearedIsBacked'
    BY <2>2, <2>3, <2>4
  <2>8. QED
    BY <2>5, <2>6, <2>7
<1>6. QED
  BY <1>1, <1>2, <1>3, <1>4, <1>5


LEMMA MergeKeeps == ASSUME GInv, NEW tree \in Trees, Merge(tree) PROVE GInv'
<1> USE DEF GInv, TypeOK, QueuedOnce, ClearedIsBacked, Attended, Commits,
            Runs, NoRun, Asleep
<1>1. /\ Displaced(FALSE) \in Seq(Outcomes)
      /\ Len(Displaced(FALSE)) = Len(main)
      /\ \A c \in Commits : outcome[c] = "applied" => Displaced(FALSE)[c] = "applied"
      /\ Attended(running) => Displaced(FALSE)[running.commit] = "queued"
  BY DisplacedKeeps
<1>2. /\ main' \in Seq(Trees) \ {<<>>}
      /\ Len(main') = Len(main) + 1
      /\ \A c \in Commits : main'[c] = main[c]
  BY AppendKeeps DEF Merge
<1>3. "queued" \in Outcomes
  BY DEF Outcomes
<1>4. /\ outcome' \in Seq(Outcomes)
      /\ Len(outcome') = Len(main) + 1
      /\ \A c \in Commits : outcome'[c] = Displaced(FALSE)[c]
      /\ outcome'[Len(main) + 1] = "queued"
  <2> DEFINE q == "queued"
             o == Displaced(FALSE)
  <2>1. outcome' = Append(o, q) /\ q \in Outcomes
    BY <1>3 DEF Merge
  <2>2. o \in Seq(Outcomes) /\ Len(o) = Len(main) /\ Commits = 1 .. Len(o)
    BY <1>1
  <2> HIDE DEF q, o
  <2>3. /\ outcome' \in Seq(Outcomes)
        /\ Len(outcome') = Len(o) + 1
        /\ \A d \in 1 .. Len(o) : outcome'[d] = o[d]
        /\ outcome'[Len(o) + 1] = q
    BY <2>1, <2>2, AppendKeeps
  <2>4. QED
    BY <2>2, <2>3 DEF q, o
<1>5. /\ pending' = [commit |-> Len(main) + 1, unattended |-> FALSE, phase |-> "queued"]
      /\ UNCHANGED <<running, night, declared, reviewed, nights, reruns>>
  BY DEF Merge, Queue
<1>6. Commits \subseteq Commits' /\ Len(main) + 1 \in Commits' /\ Len(main) + 1 \notin Commits
  BY <1>2
<1>7. ASSUME NEW c \in Commits, Backed(c)
      PROVE  Backed(c)'
  <2>1. PICK d \in Commits : outcome[d] = "applied" /\ main[d] = main[c]
    BY <1>7 DEF Backed
  <2>2. d \in Commits' /\ outcome'[d] = "applied" /\ main'[d] = main'[c]
    BY ZenonT(60), <1>1, <1>2, <1>4, <1>6, <2>1
  <2>3. QED
    BY <2>2 DEF Backed
<1>8. TypeOK'
  BY <1>2, <1>4, <1>5, <1>6
<1>9. QueuedOnce'
  <2>1. Attended(pending') /\ outcome'[pending'.commit] = "queued"
    BY <1>4, <1>5
  <2>2. ASSUME Attended(running)
        PROVE  outcome'[running.commit] = "queued" /\ running.commit # pending'.commit
    BY <1>1, <1>4, <1>5, <1>6, <2>2
  <2>3. outcome'[1] = "applied"
    <3>1. 1 \in Commits /\ outcome[1] = "applied"
      OBVIOUS
    <3>2. QED
      BY ZenonT(60), <1>1, <1>4, <3>1
  <2>4. QED
    BY <1>5, <2>1, <2>2, <2>3
<1>10. ClearedIsBacked'
  BY <1>5, <1>7
<1>11. QED
  BY <1>8, <1>9, <1>10

LEMMA RerunKeeps == ASSUME GInv, NEW c \in Commits, Rerun(c) PROVE GInv'
<1> USE DEF GInv, TypeOK, QueuedOnce, ClearedIsBacked, Attended, Commits,
            Runs, NoRun, Asleep
<1>1. /\ Displaced(FALSE) \in Seq(Outcomes)
      /\ Len(Displaced(FALSE)) = Len(main)
      /\ \A d \in Commits : outcome[d] = "applied" => Displaced(FALSE)[d] = "applied"
      /\ Attended(running) => Displaced(FALSE)[running.commit] = "queued"
  BY DisplacedKeeps
<1>2. "queued" \in Outcomes
  BY DEF Outcomes
<1>3. /\ outcome' \in Seq(Outcomes)
      /\ Len(outcome') = Len(main)
      /\ \A d \in Commits : outcome'[d] = IF d = c THEN "queued" ELSE Displaced(FALSE)[d]
  <2> DEFINE q == "queued"
             o == Displaced(FALSE)
  <2>1. outcome' = [o EXCEPT ![c] = q] /\ q \in Outcomes
    BY <1>2 DEF Rerun
  <2>2. o \in Seq(Outcomes) /\ c \in 1 .. Len(o) /\ Commits = 1 .. Len(o)
    BY <1>1
  <2> HIDE DEF q, o
  <2>3. /\ outcome' \in Seq(Outcomes)
        /\ Len(outcome') = Len(o)
        /\ \A d \in 1 .. Len(o) : outcome'[d] = IF d = c THEN q ELSE o[d]
    BY <2>1, <2>2, ExceptOutcome
  <2>4. QED
    BY <1>1, <2>2, <2>3 DEF q, o
<1>4. outcome[c] \notin {"applied", "queued"}
  BY DEF Rerun
<1>5. /\ pending' = [commit |-> c, unattended |-> FALSE, phase |-> "queued"]
      /\ reruns' \in 0 .. MaxReruns
      /\ UNCHANGED <<main, running, night, declared, reviewed, nights>>
  BY BoundsAssumption DEF Rerun, Queue
<1>6. \A d \in Commits : outcome[d] = "applied" => outcome'[d] = "applied"
  BY <1>1, <1>3, <1>4
<1>7. \A d : Backed(d) => Backed(d)'
  BY <1>5, <1>6 DEF Backed
<1>8. TypeOK'
  BY <1>3, <1>5
<1>9. QueuedOnce'
  <2>1. Attended(pending') /\ outcome'[pending'.commit] = "queued"
    BY <1>3, <1>5
  <2>2. ASSUME Attended(running)
        PROVE  outcome'[running.commit] = "queued" /\ running.commit # pending'.commit
    BY <1>1, <1>3, <1>4, <1>5, <2>2
  <2>3. outcome'[1] = "applied"
    BY <1>6
  <2>4. QED
    BY <1>5, <2>1, <2>2, <2>3
<1>10. ClearedIsBacked'
  BY <1>5, <1>7
<1>11. QED
  BY <1>8, <1>9, <1>10

\* A run that ends changes the outcome of a commit that was queued.
LEMMA EndKeeps ==
    ASSUME GInv, running # NoRun, NEW result \in Outcomes, Ended(result),
           declared' \in Trees,
           UNCHANGED <<main, pending, night, reviewed, nights, reruns>>
    PROVE  GInv'
<1> USE DEF GInv, TypeOK, QueuedOnce, ClearedIsBacked, Attended, Commits,
            Runs, NoRun, Asleep
<1>1. /\ outcome' \in Seq(Outcomes)
      /\ Len(outcome') = Len(main)
      /\ \A d \in Commits : outcome'[d] = IF d = running.commit /\ ~running.unattended
                                          THEN result ELSE outcome[d]
  <2>1. CASE running.unattended
    BY <2>1 DEF Ended
  <2>2. CASE ~running.unattended
    <3>1. outcome' = [outcome EXCEPT ![running.commit] = result]
      BY <2>2 DEF Ended
    <3>2. running.commit \in 1 .. Len(outcome) /\ Commits = 1 .. Len(outcome)
      OBVIOUS
    <3>3. outcome \in Seq(Outcomes) /\ Len(outcome) = Len(main)
      OBVIOUS
    <3> HIDE DEF Commits, GInv, TypeOK, QueuedOnce, ClearedIsBacked, Backed
    <3>4. QED
      BY <2>2, <3>1, <3>2, <3>3, ExceptOutcome
  <2>3. QED
    BY <2>1, <2>2
<1>2. \A d \in Commits : outcome[d] = "applied" => outcome'[d] = "applied"
  BY <1>1
<1>3. \A d : Backed(d) => Backed(d)'
  BY <1>2 DEF Backed
<1>4. running' = NoRun
  BY DEF Ended
<1>5. TypeOK'
  BY <1>1, <1>4
<1>6. QueuedOnce'
  BY <1>1, <1>2, <1>4
<1>7. ClearedIsBacked'
  BY <1>3, <1>4
<1>8. QED
  BY <1>5, <1>6, <1>7

LEMMA RunEndsKeeps == ASSUME GInv, Reject \/ Succeed \/ FailApply PROVE GInv'
<1>1. running # NoRun
  BY DEF Reject, Succeed, FailApply, NoRun
<1>2. running.commit \in Commits
  BY <1>1 DEF GInv, TypeOK
<1>3. main[running.commit] \in Trees /\ declared \in Trees
  BY <1>2 DEF GInv, TypeOK, Commits
<1>4. CASE Reject
  BY <1>1, <1>3, <1>4, EndKeeps DEF Reject, Outcomes
<1>5. CASE Succeed
  BY <1>1, <1>3, <1>5, EndKeeps DEF Succeed, Outcomes
<1>6. CASE FailApply
  <2>1. declared' \in Trees
    BY <1>3, <1>6 DEF FailApply, Trees
  <2>2. QED
    BY <1>1, <1>6, <2>1, EndKeeps DEF FailApply, Outcomes
<1>7. QED
  BY <1>4, <1>5, <1>6

LEMMA GInvStep == GInv /\ [Next]_vars => GInv'
<1> SUFFICES ASSUME GInv, [Next]_vars PROVE GInv'
  OBVIOUS
<1>1. CASE \E tree \in Trees : Merge(tree)
  BY <1>1, MergeKeeps
<1>2. CASE \E c \in Commits : Rerun(c)
  BY <1>2, RerunKeeps
<1>3. CASE StartRun \/ Approve \/ Schedule \/ AlreadyApplied \/ Restore
  BY <1>3, OthersKeep
<1>4. CASE Reject \/ Succeed \/ FailApply
  BY <1>4, RunEndsKeeps
<1>5. CASE UNCHANGED vars
  BY <1>5 DEF vars, GInv, TypeOK, QueuedOnce, ClearedIsBacked, Backed, Commits, Attended
<1>6. QED
  BY <1>1, <1>2, <1>3, <1>4, <1>5 DEF Next

----
(* The gate, while no run is skipped.                                      *)

\* No run was cancelled in the queue, rejected, failed or started again.
Undisturbed ==
    /\ reruns = 0
    /\ \A c \in Commits : outcome[c] \in {"queued", "applied"}

\* Then the runs still queued hold the newest commits, oldest first, and what
\* the applied ones made the firewalls hold was let through.
InOrder ==
    /\ \A c \in Commits : outcome[c] = "queued" =>
          \E r \in {running, pending} : Attended(r) /\ r.commit = c
    /\ Attended(running) /\ Attended(pending) => running.commit < pending.commit
    /\ \A c \in Commits : outcome[c] = "applied" => main[c] \cap High \subseteq reviewed
    /\ declared \cap High \subseteq reviewed

\* A run that applies was let through, or tiered LOW.
LetThrough ==
    Attended(running) /\ running.phase = "applying" =>
        Changeset(running.commit) \cap High \subseteq reviewed

GateInv == LetThrough /\ (Undisturbed => InOrder)

LEMMA GateInvInit == Init => GateInv
<1> SUFFICES ASSUME Init PROVE GateInv
  OBVIOUS
<1>1. PICK t \in SUBSET (Policies \ High) : main = <<t>>
  BY DEF Init
<1>2. Commits = {1} /\ outcome = <<"applied">> /\ declared = t /\ main[1] = t
  BY <1>1 DEF Init, Commits
<1>3. ~Attended(running) /\ ~Attended(pending)
  BY DEF Init, Attended
<1>4. QED
  BY <1>2, <1>3 DEF GateInv, LetThrough, Undisturbed, InOrder

\* A queue that is cancelled or started again is disturbed from then on; so an
\* undisturbed one was undisturbed before, and its waiting run was not evicted.
LEMMA WasUndisturbed ==
    ASSUME GInv, [Next]_vars, Undisturbed'
    PROVE  /\ Undisturbed
           /\ (\E tree \in Trees : Merge(tree)) \/ Restore => ~Attended(pending)
           /\ ~\E c \in Commits : Rerun(c)
<1> USE DEF GInv, TypeOK
<1>1. ~\E c \in Commits : Rerun(c)
  <2>1. reruns' = 0 /\ reruns \in 0 .. MaxReruns
    BY DEF Undisturbed
  <2>2. ASSUME NEW c \in Commits, Rerun(c) PROVE reruns' = reruns + 1
    BY <2>2 DEF Rerun
  <2>3. QED
    BY <2>1, <2>2
<1>2. ASSUME NEW b \in BOOLEAN, Attended(pending)
      PROVE  /\ pending.commit \in Commits
             /\ Displaced(b)[pending.commit] \notin {"queued", "applied"}
  <2>1. pending.commit \in 1 .. Len(outcome) /\ outcome \in Seq(Outcomes)
    BY <1>2 DEF Attended, Commits
  <2>2. Displaced(b) = [outcome EXCEPT ![pending.commit] = IF b THEN "displaced" ELSE "evicted"]
    BY <1>2 DEF Displaced
  <2>3. Displaced(b)[pending.commit] = IF b THEN "displaced" ELSE "evicted"
    BY <2>1, <2>2
  <2>4. QED
    BY <1>2, <2>3 DEF Attended
<1>3. CASE \E tree \in Trees : Merge(tree)
  <2>1. PICK tree \in Trees : Merge(tree)
    BY <1>3
  <2>2. /\ Displaced(FALSE) \in Seq(Outcomes)
        /\ Len(Displaced(FALSE)) = Len(main)
    BY DisplacedKeeps
  <2>3. \A c \in Commits : outcome'[c] = Displaced(FALSE)[c]
    <3> DEFINE o == Displaced(FALSE)
               q == "queued"
    <3>1. o \in Seq(Outcomes) /\ q \in Outcomes /\ Commits = 1 .. Len(o)
      BY <2>2 DEF Outcomes, Commits
    <3>2. outcome' = Append(o, q)
      BY <2>1 DEF Merge
    <3> HIDE DEF o, q
    <3>3. \A c \in 1 .. Len(o) : outcome'[c] = o[c]
      BY <3>1, <3>2, AppendKeeps
    <3>4. QED
      BY <3>1, <3>3 DEF o
  <2>4. Commits \subseteq Commits' /\ reruns' = reruns
    BY <2>1, AppendKeeps DEF Merge, Commits
  <2>5. ~Attended(pending)
    BY <1>2, <2>3, <2>4 DEF Undisturbed
  <2>6. Displaced(FALSE) = outcome
    BY <2>5 DEF Displaced
  <2>7. Undisturbed
    BY <2>3, <2>4, <2>6 DEF Undisturbed
  <2>8. QED
    BY <1>1, <2>5, <2>7
<1>4. CASE Restore
  <2>1. outcome' = Displaced(TRUE) /\ Commits' = Commits /\ reruns' = reruns
    BY <1>4 DEF Restore, Commits
  <2>2. ~Attended(pending)
    BY <1>2, <2>1 DEF Undisturbed
  <2>3. Displaced(TRUE) = outcome
    BY <2>2 DEF Displaced
  <2>4. QED
    BY <1>1, <2>1, <2>2, <2>3 DEF Undisturbed
<1>5. CASE Reject \/ Succeed \/ FailApply
  <2>1. PICK o \in {"rejected", "applied", "failed"} : Ended(o)
    BY <1>5 DEF Reject, Succeed, FailApply
  <2>2. main' = main /\ reruns' = reruns
    BY <1>5 DEF Reject, Succeed, FailApply
  <2>3. running # NoRun /\ running.commit \in Commits
    BY <1>5 DEF Reject, Succeed, FailApply, NoRun
  <2>4. ~running.unattended => outcome[running.commit] = "queued"
    BY <2>3 DEF QueuedOnce, Attended
  <2>5. \A c \in Commits : outcome[c] = "queued" \/ outcome'[c] = outcome[c]
    BY <2>1, <2>3, <2>4 DEF Ended, Commits
  <2>6. Undisturbed
    BY <2>2, <2>5 DEF Undisturbed, Commits
  <2>7. running' = NoRun
    BY <2>1 DEF Ended
  <2>8. ~(\E tree \in Trees : Merge(tree)) /\ ~Restore
    BY <2>3, <2>7 DEF Merge, Restore
  <2>9. QED
    BY <1>1, <2>6, <2>8
<1>6. CASE UNCHANGED <<main, outcome, reruns>>
  <2>1. Undisturbed
    BY <1>6 DEF Undisturbed, Commits
  <2>2. (\E tree \in Trees : Merge(tree)) => FALSE
    BY <1>6, AppendKeeps DEF Merge
  <2>3. QED
    BY <1>1, <1>4, <2>1, <2>2
<1>7. QED
  BY <1>1, <1>3, <1>4, <1>5, <1>6
  DEF Next, vars, StartRun, Approve, Schedule, AlreadyApplied

\* What an attended run applies was let through, if it runs in its turn.
LEMMA TurnLetThrough ==
    ASSUME GInv, GateInv, Undisturbed, Attended(running), running.phase = "applying"
    PROVE  main[running.commit] \cap High \subseteq reviewed
<1> USE DEF GInv, TypeOK, QueuedOnce
<1> DEFINE c == running.commit
<1>1. c \in Commits /\ outcome[c] = "queued" /\ c # 1
  BY DEF Attended
<1>2. c - 1 \in Commits /\ c - 1 # c /\ c \in Nat
  BY SMTT(60), <1>1 DEF Commits
<1>3. outcome[c - 1] = "applied"
  <2>1. SUFFICES ASSUME outcome[c - 1] = "queued" PROVE FALSE
    BY <1>2 DEF Undisturbed
  <2>2. PICK r \in {running, pending} : Attended(r) /\ r.commit = c - 1
    BY <1>2, <2>1 DEF GateInv, InOrder
  <2>3. Attended(pending) /\ pending.commit = c - 1
    BY <1>2, <2>2
  <2>4. QED
    BY <1>2, <2>3 DEF GateInv, InOrder
<1>4. main[c - 1] \cap High \subseteq reviewed
  BY <1>2, <1>3 DEF GateInv, InOrder
<1>5. Changeset(c) \cap High \subseteq reviewed
  BY DEF GateInv, LetThrough
<1>6. QED
  BY <1>4, <1>5 DEF Changeset

\* The policies of the tree a restore applies were let through.
LEMMA BackedLetThrough ==
    ASSUME GInv, GateInv, Undisturbed, running.unattended
    PROVE  main[running.commit] \cap High \subseteq reviewed
<1>1. PICK d \in Commits : outcome[d] = "applied" /\ main[d] = main[running.commit]
  BY DEF GInv, ClearedIsBacked, Backed
<1>2. QED
  BY <1>1 DEF GateInv, InOrder

LEMMA GateInvStep == GInv /\ GateInv /\ [Next]_vars => GateInv'
<1> SUFFICES ASSUME GInv, GateInv, [Next]_vars PROVE GateInv'
  OBVIOUS
<1> USE DEF GInv, TypeOK, QueuedOnce
<1>0. ASSUME Undisturbed'
      PROVE  /\ Undisturbed /\ InOrder
             /\ (\E tree \in Trees : Merge(tree)) \/ Restore => ~Attended(pending)
             /\ ~\E c \in Commits : Rerun(c)
  BY <1>0, WasUndisturbed DEF GateInv
<1>1. CASE \E tree \in Trees : Merge(tree)
  <2>1. PICK tree \in Trees : Merge(tree)
    BY <1>1
  <2>2. /\ Len(main') = Len(main) + 1
        /\ \A c \in Commits : main'[c] = main[c]
    BY <2>1, AppendKeeps DEF Merge, Commits
  <2>3. /\ pending' = [commit |-> Len(main) + 1, unattended |-> FALSE, phase |-> "queued"]
        /\ UNCHANGED <<running, night, declared, reviewed, nights, reruns>>
    BY <2>1 DEF Merge, Queue
  <2>4. LetThrough'
    <3>1. ASSUME Attended(running)
          PROVE  Changeset(running.commit)' = Changeset(running.commit)
      <4>1. running.commit \in Commits /\ running.commit # 1
        BY <3>1 DEF Attended
      <4>2. running.commit - 1 \in Commits
        BY <4>1 DEF Commits
      <4>3. QED
        BY <2>2, <2>3, <4>1, <4>2 DEF Changeset
    <3>2. QED
      BY <2>3, <3>1 DEF GateInv, LetThrough, Attended
  <2>5. ASSUME Undisturbed' PROVE InOrder'
    <3>1. InOrder /\ ~Attended(pending)
      BY <1>0, <1>1, <2>5
    <3>2. outcome' = Append(outcome, "queued")
      BY <2>1, <3>1 DEF Merge, Displaced
    <3>3. /\ \A c \in Commits : outcome'[c] = outcome[c]
          /\ outcome'[Len(main) + 1] = "queued"
          /\ Commits' = Commits \cup {Len(main) + 1}
      BY <2>2, <3>2 DEF Outcomes, Commits
    <3>4. Attended(pending)' /\ pending'.commit = Len(main) + 1
      BY <2>3 DEF Attended, NoRun
    <3>5. Attended(running)' <=> Attended(running)
      BY <2>3 DEF Attended
    <3>6. Attended(running) => running.commit < Len(main) + 1
      BY DEF Attended, Commits
    <3>7. \A c \in Commits' : outcome'[c] = "queued" =>
            \E r \in {running', pending'} : r # NoRun /\ ~r.unattended /\ r.commit = c
      BY <2>3, <3>1, <3>3, <3>4 DEF InOrder, Attended
    <3>8. \A c \in Commits' : outcome'[c] = "applied" => main'[c] \cap High \subseteq reviewed'
      BY <2>2, <2>3, <3>1, <3>3 DEF InOrder
    <3>9. QED
      BY <2>3, <3>1, <3>4, <3>5, <3>6, <3>7, <3>8 DEF InOrder, Attended
  <2>6. QED
    BY <2>4, <2>5 DEF GateInv
<1>2. CASE \E c \in Commits : Rerun(c)
  <2>1. ~Undisturbed'
    BY <1>0, <1>2
  <2>2. LetThrough'
    BY <1>2 DEF Rerun, GateInv, LetThrough, Attended, Changeset
  <2>3. QED
    BY <2>1, <2>2 DEF GateInv
<1>3. CASE StartRun
  <2>1. PICK ph \in {"waiting", "applying"} :
          /\ running' = [pending EXCEPT !.phase = ph]
          /\ ~pending.unattended /\ ph = "applying" => Tier(pending.commit) = "LOW"
    BY <1>3 DEF StartRun
  <2>2. /\ running' # NoRun
        /\ running'.commit = pending.commit
        /\ running'.unattended = pending.unattended
        /\ running'.phase = ph
    BY <1>3, <2>1 DEF StartRun, Waiting, NoRun, Runs
  <2>3. /\ running = NoRun /\ pending' = NoRun
        /\ UNCHANGED <<main, outcome, night, declared, reviewed, nights, reruns>>
    BY <1>3 DEF StartRun
  <2>4. Attended(running)' <=> Attended(pending)
    BY <1>3, <2>2 DEF Attended, StartRun, Waiting
  <2>5. LetThrough'
    BY <2>1, <2>2, <2>3, <2>4 DEF LetThrough, Attended, Tier, Changeset
  <2>6. ASSUME Undisturbed' PROVE InOrder'
    <3>1. InOrder
      BY <1>0, <2>6
    <3>2. \A c \in Commits' : outcome'[c] = "queued" => Attended(running)' /\ running'.commit = c
      BY <2>2, <2>3, <2>4, <3>1 DEF InOrder, Attended, Commits
    <3>3. ~Attended(pending)'
      BY <2>3 DEF Attended
    <3>4. QED
      BY <2>3, <3>1, <3>2, <3>3 DEF InOrder, Attended, Commits
  <2>7. QED
    BY <2>5, <2>6 DEF GateInv
<1>4. CASE Approve
  <2>1. /\ running' = [running EXCEPT !.phase = "applying"]
        /\ reviewed' = reviewed \cup Changeset(running.commit)
        /\ UNCHANGED <<main, outcome, pending, night, declared, nights, reruns>>
    BY <1>4 DEF Approve
  <2>2. running'.commit = running.commit /\ running'.unattended = running.unattended
    BY <2>1 DEF Runs
  <2>3. running # NoRun /\ running' # NoRun
    BY <1>4, <2>1 DEF Approve, NoRun, Runs
  <2>4. LetThrough'
    BY <2>1, <2>2 DEF LetThrough, Changeset
  <2>5. ASSUME Undisturbed' PROVE InOrder'
    <3>1. InOrder
      BY <1>0, <2>5
    <3>2. Attended(running') <=> Attended(running)
      BY <2>2, <2>3 DEF Attended
    <3>3. QED
      BY <2>1, <2>2, <3>1, <3>2 DEF InOrder, Attended, Commits
  <2>6. QED
    BY <2>4, <2>5 DEF GateInv
<1>5. CASE Reject
  <2>1. /\ running' = NoRun
        /\ running \in Runs /\ Attended(running) /\ running.commit \in Commits
    BY <1>5 DEF Reject, Ended, NoRun, Attended
  <2>2. outcome' = [outcome EXCEPT ![running.commit] = "rejected"] /\ main' = main
    BY <1>5, <2>1 DEF Reject, Ended, Attended
  <2>3. outcome'[running.commit] = "rejected" /\ running.commit \in Commits'
    BY <2>1, <2>2 DEF Commits
  <2>4. QED
    BY <2>1, <2>3 DEF GateInv, LetThrough, Attended, Undisturbed
<1>6. CASE Succeed
  <2>1. /\ running' = NoRun /\ running # NoRun /\ running.phase = "applying"
        /\ declared' = main[running.commit]
        /\ UNCHANGED <<main, pending, night, reviewed, nights, reruns>>
    BY <1>6 DEF Succeed, Ended, NoRun
  <2>2. running.commit \in Commits
    BY <2>1
  <2>3. LetThrough'
    BY <2>1 DEF LetThrough, Attended
  <2>4. ASSUME Undisturbed' PROVE InOrder'
    <3>1. Undisturbed /\ InOrder
      BY <1>0, <2>4
    <3>2. main[running.commit] \cap High \subseteq reviewed
      BY <2>1, <3>1, TurnLetThrough, BackedLetThrough DEF Attended
    <3>3. \A c \in Commits : outcome'[c] = IF c = running.commit /\ ~running.unattended
                                           THEN "applied" ELSE outcome[c]
      BY <1>6, <2>2 DEF Succeed, Ended, Commits
    <3>4. ~Attended(running)'
      BY <2>1 DEF Attended
    <3>5. \A c \in Commits : outcome'[c] = "queued" =>
            Attended(pending)' /\ pending'.commit = c
      <4>1. SUFFICES ASSUME NEW c \in Commits, outcome'[c] = "queued"
                     PROVE  Attended(pending) /\ pending.commit = c
        BY <2>1 DEF Attended
      <4>2. outcome[c] = "queued" /\ ~(c = running.commit /\ ~running.unattended)
        BY <3>3, <4>1
      <4>3. PICK r \in {running, pending} : Attended(r) /\ r.commit = c
        BY <3>1, <4>2 DEF InOrder
      <4>4. QED
        BY <4>2, <4>3 DEF Attended
    <3>6. \A c \in Commits : outcome'[c] = "applied" => main[c] \cap High \subseteq reviewed
      BY <3>1, <3>2, <3>3 DEF InOrder
    <3>7. QED
      BY <2>1, <3>2, <3>4, <3>5, <3>6 DEF InOrder, Attended, Commits
  <2>5. QED
    BY <2>3, <2>4 DEF GateInv
<1>7. CASE FailApply
  <2>1. /\ running' = NoRun /\ running # NoRun /\ running.phase = "applying"
        /\ UNCHANGED <<main, pending, night, reviewed, nights, reruns>>
    BY <1>7 DEF FailApply, Ended, NoRun
  <2>2. running.commit \in Commits
    BY <2>1
  <2>3. LetThrough'
    BY <2>1 DEF LetThrough, Attended
  <2>4. ASSUME Undisturbed' PROVE InOrder'
    <3>1. Undisturbed /\ InOrder
      BY <1>0, <2>4
    <3>2. running.unattended
      <4>1. SUFFICES ASSUME ~running.unattended PROVE FALSE
        OBVIOUS
      <4>2. outcome'[running.commit] = "failed"
        BY <1>7, <2>2, <4>1 DEF FailApply, Ended, Commits
      <4>3. QED
        BY <2>1, <2>2, <2>4, <4>2 DEF Undisturbed, Commits
    <3>3. outcome' = outcome
      BY <1>7, <3>2 DEF FailApply, Ended
    <3>4. main[running.commit] \cap High \subseteq reviewed
      BY <3>1, <3>2, BackedLetThrough
    <3>5. declared' \subseteq declared \cup main[running.commit]
      BY <1>7 DEF FailApply
    <3>6. declared' \cap High \subseteq reviewed
      BY <3>1, <3>4, <3>5 DEF InOrder
    <3>7. ~Attended(running)' /\ ~Attended(running)
      BY <2>1, <3>2 DEF Attended
    <3>8. QED
      BY <2>1, <3>1, <3>3, <3>6, <3>7 DEF InOrder, Attended, Commits
  <2>5. QED
    BY <2>3, <2>4 DEF GateInv
<1>8. CASE Schedule \/ AlreadyApplied
  <2>1. UNCHANGED <<main, outcome, running, pending, declared, reviewed, reruns>>
    BY <1>8 DEF Schedule, AlreadyApplied
  <2>2. QED
    BY <1>0, <2>1 DEF GateInv, LetThrough, InOrder, Attended, Changeset, Commits
<1>9. CASE Restore
  <2>1. /\ pending' = [commit |-> night.commit, unattended |-> TRUE, phase |-> "queued"]
        /\ outcome' = Displaced(TRUE)
        /\ UNCHANGED <<main, running, declared, reviewed, nights, reruns>>
    BY <1>9 DEF Restore, Queue
  <2>2. LetThrough'
    BY <2>1 DEF GateInv, LetThrough, Attended, Changeset
  <2>3. ASSUME Undisturbed' PROVE InOrder'
    <3>1. InOrder /\ ~Attended(pending)
      BY <1>0, <1>9, <2>3
    <3>2. outcome' = outcome
      BY <2>1, <3>1 DEF Displaced
    <3>3. ~Attended(pending)'
      BY <2>1 DEF Attended
    <3>4. QED
      BY ZenonT(60), <2>1, <3>1, <3>2, <3>3 DEF InOrder, Attended, Commits
  <2>4. QED
    BY <2>2, <2>3 DEF GateInv
<1>10. CASE UNCHANGED vars
  BY <1>0, <1>10 DEF vars, GateInv, LetThrough, InOrder, Attended, Changeset, Commits
<1>11. QED
  BY <1>1, <1>2, <1>3, <1>4, <1>5, <1>6, <1>7, <1>8, <1>9, <1>10 DEF Next

----
(* The theorems.                                                           *)

\* Every reachable state of the queue, the runs and the nightly job is typed.
THEOREM GateTypeCorrect == Spec => []TypeOK
<1>1. GInv => TypeOK
  BY DEF GInv
<1>2. QED
  BY <1>1, GInvInit, GInvStep, PTL DEF Spec

\* The unattended restore applies only trees some attended run has applied
\* (remediate.yml:176), however the queue, failures and re-runs interleave.
THEOREM RestoresOnlyAppliedTrees == Spec => []RestoreOnlyAppliedTrees
<1>1. GInv => RestoreOnlyAppliedTrees
  BY DEF GInv, ClearedIsBacked, Backed, RestoreOnlyAppliedTrees, Applied
<1>2. QED
  BY <1>1, GInvInit, GInvStep, PTL DEF Spec

\* While no run is skipped, no HIGH policy is on a firewall that a reviewer has
\* not let through (apply.yml:239), however merges, nights and restores fall
\* between the runs.
THEOREM GateHoldsUnlessSkipped == Spec => []UnreviewedOnlyAfterSkip
<1>1. GateInv => UnreviewedOnlyAfterSkip
  BY DEF GateInv, Undisturbed, InOrder, UnreviewedOnlyAfterSkip
<1>2. QED
  BY <1>1, GInvInit, GInvStep, GateInvInit, GateInvStep, PTL DEF Spec

====
