-------------------------- MODULE CheckRun_proofs --------------------------
(***************************************************************************)
(* What CheckRun promises for any number of reviews and pushes.  The       *)
(* invariant follows a conclusion to whoever wrote it: a check run is on   *)
(* the head its review read, and its conclusion is what the last of        *)
(* review, reaper and bypass to write it had to say.                       *)
(***************************************************************************)
EXTENDS CheckRun, TLAPS

Writers == {"review", "reaper", "bypass"}

\* A check run is on the commit its review read, and exists from when the
\* review created it; only a completed one has a conclusion.
ChecksInPlace ==
  /\ \A i \in DOMAIN created : check[created[i]].status # "none"
  /\ \A r \in Reviews :
       /\ check[r].status # "none" =>
            check[r].head = at[r] /\ pc[r] \notin {"idle", "started"}
       /\ pc[r] \in {"queued", "decided", "published"} => check[r].status # "none"
       /\ IF check[r].status = "completed"
          THEN check[r].by \in Writers /\ check[r].conclusion \in Conclusions
          ELSE check[r].conclusion = "none"

\* A review that wrote its conclusion is over, and wrote its verdict.
ReviewsReport ==
  \A r \in Reviews :
    /\ pc[r] \in {"decided", "published"} => verdict[r] # "none"
    /\ r \in reported =>
         pc[r] = "gone" /\ check[r].status = "completed" /\ verdict[r] # "none"
    /\ check[r].status = "completed" /\ check[r].by = "review" =>
         r \in reported /\ check[r].conclusion = Conclusion(verdict[r], Neutral)
    /\ check[r].status = "completed" /\ check[r].by = "reaper" =>
         check[r].conclusion = ReaperConclusion

\* The reaper and the bypass write check runs that exist, the bypass one of
\* the head it read.
OthersInPlace ==
  /\ sweep.found # Nobody => check[sweep.found].status # "none"
  /\ sweep.pc = "stuck" => sweep.found # Nobody
  /\ bypass.found # Nobody =>
       /\ bypass.pc \in {"found", "done"}
       /\ check[bypass.found].status # "none"
       /\ check[bypass.found].head = bypass.head
  /\ bypass.pc = "found" => bypass.found # Nobody
  /\ \A r \in Reviews :
       check[r].status = "completed" /\ check[r].by = "bypass" => bypass.found = r

Inv == TypeOK /\ ChecksInPlace /\ ReviewsReport /\ OthersInPlace
-----------------------------------------------------------------------------
CheckType ==
  [head : Heads, status : {"none", "queued", "completed"},
   conclusion : Conclusions \cup {"none"}, by : Writers \cup {"none"}]

ChecksTyped == check \in [Reviews -> CheckType]

\* Of all check runs only r's is written, and stays where it is.
OnlyWrites(r) ==
  \A q \in Reviews : /\ check[q].status # "none" => check'[q].status # "none"
                     /\ check'[q].head = check[q].head
                     /\ q # r => check'[q] = check[q]

\* Every verdict has a conclusion.
LEMMA ConclusionType ==
  ASSUME NEW v \in Verdicts
  PROVE  Conclusion(v, Neutral) \in Conclusions
  BY FlagsAssumption DEF Conclusion, Conclusions, Verdicts

\* The reaper never turns a check run green.
LEMMA ReaperConclusionType ==
  ReaperConclusion \in Conclusions /\ ReaperConclusion # "success"
  BY FlagsAssumption DEF ReaperConclusion, Conclusion, Conclusions

\* A completed check run is a check run.
LEMMA CompletedType ==
  ASSUME NEW h \in Heads, NEW c \in Conclusions, NEW w \in Writers
  PROVE  /\ Completed(h, c, w) \in CheckType
         /\ Completed(h, c, w).head = h /\ Completed(h, c, w).status = "completed"
         /\ Completed(h, c, w).conclusion = c /\ Completed(h, c, w).by = w
  BY DEF Completed, CheckType

\* What the reaper looks at, or nothing.
SweepType == [pc : {"idle", "listed", "stuck"}, head : Heads, found : Reviews \cup {Nobody}]

LEMMA NoSweepType ==
  NoSweep \in SweepType /\ NoSweep.pc = "idle" /\ NoSweep.found = Nobody
  BY HeadsAssumption DEF NoSweep, SweepType, Heads

\* The one listed first is one of those listed.
LEMMA ListedType ==
  ASSUME TypeOK, NEW places, places \subseteq DOMAIN created, Listed(places) # Nobody
  PROVE  \E i \in places : Listed(places) = created[i] /\ created[i] \in Reviews
<1> DEFINE latest == {i \in places : \A j \in places : j <= i}
<1>1. latest # {} /\ Listed(places) = created[CHOOSE i \in latest : TRUE]
  BY DEF Listed
<1>2. PICK i \in latest : i = CHOOSE j \in latest : TRUE
  BY <1>1
<1>3. i \in places /\ i \in DOMAIN created
  BY <1>2
<1>4. created[i] \in Reviews
  BY <1>3 DEF TypeOK
<1> QED
  BY <1>1, <1>2, <1>3, <1>4

\* What the bypass, the reaper and branch protection find on a commit is a
\* check run of that commit.
LEMMA FoundType ==
  ASSUME Inv, NEW h
  PROVE  /\ PendingCiteCheck(h) # Nobody =>
              /\ PendingCiteCheck(h) \in Reviews
              /\ check[PendingCiteCheck(h)].status # "none"
              /\ check[PendingCiteCheck(h)].head = h
         /\ Newest(h) # Nobody =>
              /\ Newest(h) \in Reviews
              /\ check[Newest(h)].status # "none"
              /\ check[Newest(h)].head = h
         /\ Stuck(h) # Nobody => Stuck(h) = Newest(h)
<1>1. On(h) \subseteq DOMAIN created /\ Queued(h) \subseteq On(h)
  BY DEF On, Queued
<1>2. \A i \in On(h) : check[created[i]].head = h /\ check[created[i]].status # "none"
  BY DEF On, Inv, ChecksInPlace
<1>3. PendingCiteCheck(h) # Nobody =>
        \E i \in Queued(h) : PendingCiteCheck(h) = created[i] /\ created[i] \in Reviews
  BY <1>1, ListedType DEF PendingCiteCheck, Inv
<1>4. Newest(h) # Nobody =>
        \E i \in On(h) : Newest(h) = created[i] /\ created[i] \in Reviews
  BY <1>1, ListedType DEF Newest, Inv
<1> QED
  BY <1>1, <1>2, <1>3, <1>4 DEF Stuck
-----------------------------------------------------------------------------
LEMMA InitInv == Init => Inv
<1> SUFFICES ASSUME Init PROVE Inv
  OBVIOUS
<1>1. TypeOK
  <2>1. head \in 1..MaxHead /\ created \in Seq(Reviews)
    BY HeadsAssumption DEF Init
  <2>10. stale \in BOOLEAN
    BY DEF Init
  <2>2. 0 \in Heads
    BY HeadsAssumption DEF Heads
  <2>3. NoCheck \in CheckType
    BY <2>2 DEF NoCheck, CheckType
  <2>4. check \in [Reviews -> CheckType]
    BY <2>3 DEF Init
  <2>5. pc \in [Reviews -> {"idle", "started", "queued", "decided", "published", "gone"}]
    BY DEF Init
  <2>6. at \in [Reviews -> Heads] /\ verdict \in [Reviews -> Verdicts \cup {"none"}]
    BY <2>2 DEF Init
  <2>7. sweep \in [pc : {"idle", "listed", "stuck"}, head : Heads,
                   found : Reviews \cup {Nobody}]
    BY <2>2 DEF Init, NoSweep
  <2>8. bypass \in [pc : {"idle", "read", "found", "done"},
                    head : Heads, found : Reviews \cup {Nobody}]
    BY <2>2 DEF Init
  <2>9. reported \subseteq Reviews
    BY DEF Init
  <2> QED
    BY <2>1, <2>10, <2>4, <2>5, <2>6, <2>7, <2>8, <2>9 DEF TypeOK, CheckType, Writers
<1>2. ChecksInPlace
  BY DEF Init, ChecksInPlace, NoCheck
<1>3. ReviewsReport
  BY DEF Init, ReviewsReport, NoCheck
<1>4. OthersInPlace
  BY DEF Init, OthersInPlace, NoSweep, NoCheck, Nobody
<1> QED
  BY <1>1, <1>2, <1>3, <1>4 DEF Inv

\* A review that concludes, whatever it had decided.
LEMMA ConcludeInv ==
  ASSUME Inv, NEW r \in Reviews, NEW v \in Verdicts,
         pc[r] \in {"queued", "decided", "published"}, Conclude(r, v),
         verdict' = [verdict EXCEPT ![r] = v],
         UNCHANGED <<head, stale, created, at, sweep, bypass>>
  PROVE  Inv'
<1> DEFINE new == Completed(check[r].head, Conclusion(v, Neutral), "review")
<1>0. Conclusion(v, Neutral) \in Conclusions
  BY ConclusionType
<1>1. check[r].head \in Heads
  BY DEF Inv, TypeOK
<1>2. /\ new \in CheckType
      /\ new.head = check[r].head /\ new.status = "completed"
      /\ new.conclusion = Conclusion(v, Neutral) /\ new.by = "review"
  <2>1. "review" \in Writers
    BY DEF Writers
  <2> QED
    BY <1>0, <1>1, <2>1, CompletedType
<1>3. pc' = [pc EXCEPT ![r] = "gone"]
  BY DEF Conclude, Goto
<1>4. r \notin reported
  BY DEF Inv, ReviewsReport
<1>5. CASE check' = [check EXCEPT ![r] = new] /\ reported' = reported \cup {r}
  <2> HIDE DEF new
  <2>1. check' \in [Reviews -> CheckType]
    BY <1>2, <1>5 DEF Inv, TypeOK, CheckType, Writers
  <2>2. TypeOK'
    BY <2>1, <1>3, <1>5 DEF Inv, TypeOK, CheckType, Writers, Verdicts
  <2>3. ChecksInPlace'
    <3>1. \A i \in DOMAIN created : check'[created[i]].status # "none"
      BY <1>2, <1>5 DEF Inv, TypeOK, ChecksInPlace
    <3>2. ASSUME NEW q \in Reviews
          PROVE  /\ check'[q].status # "none" =>
                      check'[q].head = at[q] /\ pc'[q] \notin {"idle", "started"}
                 /\ pc'[q] \in {"queued", "decided", "published"} =>
                      check'[q].status # "none"
                 /\ IF check'[q].status = "completed"
                    THEN check'[q].by \in Writers /\ check'[q].conclusion \in Conclusions
                    ELSE check'[q].conclusion = "none"
      <4>1. CASE q = r
        <5>1. check'[q] = new /\ pc'[q] = "gone"
          BY <1>3, <1>5, <4>1 DEF Inv, TypeOK
        <5>2. check[r].head = at[r]
          BY DEF Inv, ChecksInPlace
        <5> QED
          BY <1>0, <1>2, <4>1, <5>1, <5>2 DEF Writers
      <4>2. CASE q # r
        BY <1>3, <1>5, <4>2 DEF Inv, TypeOK, ChecksInPlace
      <4> QED
        BY <4>1, <4>2
    <3> QED
      BY <3>1, <3>2 DEF ChecksInPlace
  <2>4. ReviewsReport'
    BY <1>2, <1>3, <1>5 DEF Inv, TypeOK, ReviewsReport, Verdicts, ReaperConclusion
  <2>5. OthersInPlace'
    BY <1>2, <1>5 DEF Inv, TypeOK, OthersInPlace, Nobody
  <2> QED
    BY <2>2, <2>3, <2>4, <2>5 DEF Inv
<1>6. CASE UNCHANGED <<check, reported>>
  <2>1. TypeOK'
    BY <1>3, <1>6 DEF Inv, TypeOK, Verdicts
  <2>2. ChecksInPlace'
    BY <1>3, <1>6 DEF Inv, TypeOK, ChecksInPlace
  <2>3. ReviewsReport'
    BY <1>3, <1>4, <1>6 DEF Inv, TypeOK, ReviewsReport, ReaperConclusion
  <2>4. OthersInPlace'
    BY <1>6 DEF Inv, OthersInPlace
  <2> QED
    BY <2>1, <2>2, <2>3, <2>4 DEF Inv
<1> QED
  BY <1>5, <1>6 DEF Conclude

\* A conclusion written by the reaper or the bypass.
LEMMA OverwriteInv ==
  ASSUME NEW r \in Reviews, NEW c \in Conclusions, NEW w \in {"reaper", "bypass"},
         Inv, check[r].status # "none", w = "reaper" => c = ReaperConclusion,
         check' = [check EXCEPT ![r] = Completed(check[r].head, c, w)],
         created' = created, pc' = pc, at' = at, verdict' = verdict, reported' = reported
  PROVE  /\ ChecksTyped'
         /\ ChecksInPlace' /\ ReviewsReport'
         /\ OnlyWrites(r) /\ check'[r].by = w
<1> DEFINE new == Completed(check[r].head, c, w)
<1>1. check[r].head \in Heads /\ w \in Writers
  BY DEF Inv, TypeOK, Writers
<1>2. /\ new \in CheckType
      /\ new.head = check[r].head /\ new.status = "completed"
      /\ new.conclusion = c /\ new.by = w
  BY <1>1, CompletedType
<1>3. check' = [check EXCEPT ![r] = new]
  OBVIOUS
<1> HIDE DEF new
<1>4. check' \in [Reviews -> CheckType]
  BY <1>2, <1>3 DEF Inv, TypeOK, CheckType, Writers
<1>5. /\ \A q \in Reviews : q # r => check'[q] = check[q]
      /\ check'[r] = new
  BY <1>3 DEF Inv, TypeOK
<1>6. ChecksInPlace'
  <2>1. \A i \in DOMAIN created : check'[created[i]].status # "none"
    BY <1>2, <1>3 DEF Inv, TypeOK, ChecksInPlace
  <2>2. ASSUME NEW q \in Reviews
        PROVE  /\ check'[q].status # "none" =>
                    check'[q].head = at[q] /\ pc[q] \notin {"idle", "started"}
               /\ pc[q] \in {"queued", "decided", "published"} =>
                    check'[q].status # "none"
               /\ IF check'[q].status = "completed"
                  THEN check'[q].by \in Writers /\ check'[q].conclusion \in Conclusions
                  ELSE check'[q].conclusion = "none"
    <3>1. CASE q = r
      BY <1>1, <1>2, <1>5, <3>1 DEF Inv, ChecksInPlace
    <3>2. CASE q # r
      BY <1>5, <3>2 DEF Inv, ChecksInPlace
    <3> QED
      BY <3>1, <3>2
  <2> QED
    BY <2>1, <2>2 DEF ChecksInPlace
<1>7. ReviewsReport'
  BY <1>2, <1>5 DEF Inv, ReviewsReport, ReaperConclusion
<1> QED
  BY <1>2, <1>4, <1>5, <1>6, <1>7 DEF ChecksTyped, OnlyWrites

LEMMA NextInv == Inv /\ [Next]_vars => Inv'
<1> SUFFICES ASSUME Inv, [Next]_vars PROVE Inv'
  OBVIOUS
<1> USE DEF Goto, reviewVars
<1>1. ASSUME NEW r \in Reviews, Start(r) PROVE Inv'
  <2>1. head \in Heads
    BY HeadsAssumption DEF Inv, TypeOK, Heads
  <2>2. TypeOK'
    BY <1>1, <2>1 DEF Start, Inv, TypeOK
  <2>3. ChecksInPlace'
    BY <1>1 DEF Start, Inv, TypeOK, ChecksInPlace
  <2>4. ReviewsReport'
    BY <1>1 DEF Start, Inv, TypeOK, ReviewsReport, ReaperConclusion
  <2>5. OthersInPlace'
    BY <1>1 DEF Start, Inv, OthersInPlace
  <2> QED
    BY <2>2, <2>3, <2>4, <2>5 DEF Inv
<1>2. ASSUME NEW r \in Reviews, KillSwitch(r) \/ Die(r) PROVE Inv'
  <2>1. /\ pc' = [pc EXCEPT ![r] = "gone"] /\ pc[r] # "gone"
        /\ UNCHANGED <<head, stale, check, created, at, reported, sweep, bypass>>
    BY <1>2 DEF KillSwitch, Die
  <2>2. verdict' \in {verdict, [verdict EXCEPT ![r] = "none"]} /\ r \notin reported
    BY <1>2, <2>1 DEF KillSwitch, Die, Inv, ReviewsReport
  <2>3. TypeOK'
    BY <2>1, <2>2 DEF Inv, TypeOK
  <2>4. ChecksInPlace'
    BY <2>1 DEF Inv, TypeOK, ChecksInPlace
  <2>5. ReviewsReport'
    BY <2>1, <2>2 DEF Inv, TypeOK, ReviewsReport, ReaperConclusion
  <2>6. OthersInPlace'
    BY <2>1 DEF Inv, OthersInPlace
  <2> QED
    BY <2>3, <2>4, <2>5, <2>6 DEF Inv
<1>3. ASSUME NEW r \in Reviews, CreateCheck(r) PROVE Inv'
  <2> DEFINE new == [NoCheck EXCEPT !.head = at[r], !.status = "queued"]
  <2>1. /\ new \in CheckType /\ new.head = at[r] /\ new.status = "queued"
        /\ new.conclusion = "none"
    BY DEF NoCheck, CheckType, Inv, TypeOK
  <2>2. check' = [check EXCEPT ![r] = new]
    BY <1>3 DEF CreateCheck
  <2> HIDE DEF new
  <2>3. check' \in [Reviews -> CheckType]
    BY <2>1, <2>2 DEF Inv, TypeOK, CheckType, Writers
  <2>4. check[r].status = "none"
    BY <1>3 DEF CreateCheck, Inv, ChecksInPlace
  <2>5. created' \in Seq(Reviews)
    BY <1>3 DEF CreateCheck, Inv, TypeOK
  <2>6. TypeOK'
    BY <1>3, <2>3, <2>5 DEF CreateCheck, Inv, TypeOK, CheckType, Writers
  <2>7. \A q \in Reviews : check'[q] = IF q = r THEN new ELSE check[q]
    BY <2>2 DEF Inv, TypeOK
  <2>8. ChecksInPlace'
    <3>1. ASSUME NEW i \in DOMAIN created' PROVE check'[created'[i]].status # "none"
      <4>1. created' = Append(created, r) /\ created \in Seq(Reviews)
        BY <1>3 DEF CreateCheck, Inv, TypeOK
      <4>2. created'[i] = r \/ (i \in DOMAIN created /\ created'[i] = created[i])
        BY <4>1
      <4>3. created'[i] \in Reviews
        BY <2>5
      <4> QED
        BY <2>1, <2>7, <4>2, <4>3 DEF Inv, ChecksInPlace
    <3>2. \A q \in Reviews :
               /\ check'[q].status # "none" =>
                    check'[q].head = at[q] /\ pc'[q] \notin {"idle", "started"}
               /\ pc'[q] \in {"queued", "decided", "published"} =>
                    check'[q].status # "none"
               /\ IF check'[q].status = "completed"
                  THEN check'[q].by \in Writers /\ check'[q].conclusion \in Conclusions
                  ELSE check'[q].conclusion = "none"
      BY <1>3, <2>1, <2>7 DEF CreateCheck, Inv, TypeOK, ChecksInPlace
    <3>3. at' = at
      BY <1>3 DEF CreateCheck
    <3> QED
      BY <3>1, <3>2, <3>3 DEF ChecksInPlace
  <2>9. ReviewsReport'
    BY <1>3, <2>1, <2>7 DEF CreateCheck, Inv, TypeOK, ReviewsReport, ReaperConclusion
  <2>10. OthersInPlace'
    BY <1>3, <2>1, <2>4, <2>7 DEF CreateCheck, Inv, TypeOK, OthersInPlace
  <2> QED
    BY <2>6, <2>8, <2>9, <2>10 DEF Inv
<1>4. ASSUME NEW r \in Reviews, GiveUp(r) PROVE Inv'
  <2>1. "COULD_NOT_EVALUATE" \in Verdicts
    BY DEF Verdicts
  <2> QED
    BY <1>4, <2>1, ConcludeInv DEF GiveUp
<1>5. ASSUME NEW r \in Reviews, PublishFails(r) \/ Finish(r) PROVE Inv'
  <2>1. pc[r] \in {"decided", "published"}
    BY <1>5 DEF PublishFails, Finish
  <2>2. verdict[r] \in Verdicts
    BY <2>1 DEF Inv, TypeOK, ReviewsReport
  <2>3. verdict' = [verdict EXCEPT ![r] = verdict[r]]
    BY <1>5 DEF PublishFails, Finish, Inv, TypeOK
  <2> QED
    BY <1>5, <2>1, <2>2, <2>3, ConcludeInv DEF PublishFails, Finish
<1>6. ASSUME NEW r \in Reviews, Evaluate(r) PROVE Inv'
  <2>1. PICK v \in Verdicts : verdict' = [verdict EXCEPT ![r] = v]
    BY <1>6 DEF Evaluate
  <2>2. v # "none"
    BY DEF Verdicts
  <2>3. TypeOK'
    BY <1>6, <2>1 DEF Evaluate, Inv, TypeOK
  <2>4. ChecksInPlace'
    BY <1>6 DEF Evaluate, Inv, TypeOK, ChecksInPlace
  <2>5. ReviewsReport'
    BY <1>6, <2>1, <2>2 DEF Evaluate, Inv, TypeOK, ReviewsReport, ReaperConclusion
  <2>6. OthersInPlace'
    BY <1>6 DEF Evaluate, Inv, OthersInPlace
  <2> QED
    BY <2>3, <2>4, <2>5, <2>6 DEF Inv
<1>7. ASSUME NEW r \in Reviews, Publish(r) PROVE Inv'
  <2>1. stale' \in BOOLEAN
    BY <1>7 DEF Publish, Inv, TypeOK
  <2>2. TypeOK'
    BY <1>7, <2>1 DEF Publish, Inv, TypeOK
  <2>3. ChecksInPlace'
    BY <1>7 DEF Publish, Inv, TypeOK, ChecksInPlace
  <2>4. ReviewsReport'
    BY <1>7 DEF Publish, Inv, TypeOK, ReviewsReport, ReaperConclusion
  <2>5. OthersInPlace'
    BY <1>7 DEF Publish, Inv, OthersInPlace
  <2> QED
    BY <2>2, <2>3, <2>4, <2>5 DEF Inv
<1>8. CASE Push \/ Elapse
  <2>1. stale' \in BOOLEAN
    BY <1>8 DEF Push, Elapse
  <2>2. head' \in 1..MaxHead
    BY <1>8, HeadsAssumption DEF Push, Elapse, Inv, TypeOK
  <2>3. TypeOK'
    BY <1>8, <2>1, <2>2 DEF Push, Elapse, Inv, TypeOK
  <2>4. ChecksInPlace' /\ ReviewsReport' /\ OthersInPlace'
    BY <1>8 DEF Push, Elapse, Inv, ChecksInPlace, ReviewsReport, OthersInPlace,
                ReaperConclusion
  <2> QED
    BY <2>3, <2>4 DEF Inv
<1>9. CASE Sweep \/ SweepFails
  <2>1. head \in Heads
    BY HeadsAssumption DEF Inv, TypeOK, Heads
  <2>5. sweep' \in SweepType /\ sweep'.pc # "stuck" /\ sweep'.found = Nobody
    BY <1>9, <2>1, NoSweepType DEF Sweep, SweepFails, SweepType
  <2>2. TypeOK'
    BY <1>9, <2>5 DEF Sweep, SweepFails, Inv, TypeOK, SweepType
  <2>3. ChecksInPlace' /\ ReviewsReport'
    BY <1>9 DEF Sweep, SweepFails, Inv, ChecksInPlace, ReviewsReport, ReaperConclusion
  <2>4. OthersInPlace'
    BY <1>9, <2>5 DEF Sweep, SweepFails, Inv, OthersInPlace
  <2> QED
    BY <2>2, <2>3, <2>4 DEF Inv
<1>10. CASE Look
  <2>1. Stuck(sweep.head) # Nobody =>
          /\ Stuck(sweep.head) \in Reviews
          /\ check[Stuck(sweep.head)].status # "none"
    BY FoundType
  <2>5. /\ sweep' \in SweepType
        /\ sweep'.found # Nobody => check[sweep'.found].status # "none"
        /\ sweep'.pc = "stuck" => sweep'.found # Nobody
    BY <1>10, <2>1, NoSweepType DEF Look, SweepType, Inv, TypeOK
  <2>2. TypeOK'
    BY <1>10, <2>5 DEF Look, Inv, TypeOK, SweepType
  <2>3. ChecksInPlace' /\ ReviewsReport'
    BY <1>10 DEF Look, Inv, ChecksInPlace, ReviewsReport, ReaperConclusion
  <2>4. OthersInPlace'
    BY <1>10, <2>5 DEF Look, Inv, OthersInPlace
  <2> QED
    BY <2>2, <2>3, <2>4 DEF Inv
<1>11. CASE Reap
  <2>1. sweep.found \in Reviews /\ check[sweep.found].status # "none"
    BY <1>11 DEF Reap, Inv, TypeOK, OthersInPlace
  <2>2. /\ ChecksTyped'
        /\ ChecksInPlace' /\ ReviewsReport'
        /\ OnlyWrites(sweep.found)
        /\ check'[sweep.found].by = "reaper"
    <3>1. check' = [check EXCEPT ![sweep.found] =
                      Completed(check[sweep.found].head, ReaperConclusion, "reaper")]
      BY <1>11 DEF Reap
    <3>2. /\ created' = created /\ pc' = pc /\ at' = at
          /\ verdict' = verdict /\ reported' = reported
      BY <1>11 DEF Reap
    <3>3. ReaperConclusion \in Conclusions /\ "reaper" \in {"reaper", "bypass"}
      BY ReaperConclusionType
    <3> QED
      BY <2>1, <3>1, <3>2, <3>3, OverwriteInv
  <2>5. sweep' \in SweepType /\ sweep'.pc = "idle" /\ sweep'.found = Nobody
    BY <1>11, NoSweepType DEF Reap
  <2>3. TypeOK'
    BY <1>11, <2>2, <2>5 DEF Reap, SweepType, Inv, TypeOK, ChecksTyped, CheckType, Writers
  <2>4. OthersInPlace'
    BY <1>11, <2>1, <2>2, <2>5 DEF Reap, Inv, TypeOK, OthersInPlace, OnlyWrites
  <2> QED
    BY <2>2, <2>3, <2>4 DEF Inv
<1>12. CASE Label
  <2>1. head \in Heads
    BY HeadsAssumption DEF Inv, TypeOK, Heads
  <2>2. stale' \in BOOLEAN
    BY <1>12 DEF Label
  <2>3. TypeOK'
    BY <1>12, <2>1, <2>2 DEF Label, Inv, TypeOK
  <2>4. ChecksInPlace' /\ ReviewsReport'
    BY <1>12 DEF Label, Inv, ChecksInPlace, ReviewsReport, ReaperConclusion
  <2>5. OthersInPlace'
    BY <1>12 DEF Label, Inv, TypeOK, OthersInPlace
  <2> QED
    BY <2>3, <2>4, <2>5 DEF Inv
<1>13. CASE BypassFinds
  <2> DEFINE found == PendingCiteCheck(bypass.head)
  <2>1. found # Nobody =>
          found \in Reviews /\ check[found].status # "none" /\ check[found].head = bypass.head
    BY FoundType
  <2>2. bypass' = [bypass EXCEPT !.found = found,
                                 !.pc = IF found = Nobody THEN "done" ELSE "found"]
    BY <1>13 DEF BypassFinds
  <2>3. bypass.found = Nobody
    BY <1>13 DEF BypassFinds, Inv, OthersInPlace
  <2> HIDE DEF found
  <2>4. TypeOK'
    BY <1>13, <2>1, <2>2 DEF BypassFinds, Inv, TypeOK
  <2>5. ChecksInPlace' /\ ReviewsReport'
    BY <1>13 DEF BypassFinds, Inv, ChecksInPlace, ReviewsReport, ReaperConclusion
  <2>6. \A q \in Reviews : ~(check[q].status = "completed" /\ check[q].by = "bypass")
    BY <2>3, ReviewsAssumption DEF Inv, OthersInPlace, Nobody
  <2>7. OthersInPlace'
    BY <1>13, <2>1, <2>2, <2>6 DEF BypassFinds, Inv, TypeOK, OthersInPlace
  <2> QED
    BY <2>4, <2>5, <2>7 DEF Inv
<1>14. CASE BypassConcludes
  <2>1. bypass.found \in Reviews /\ check[bypass.found].status # "none"
    BY <1>14 DEF BypassConcludes, Inv, TypeOK, OthersInPlace
  <2>2. "success" \in Conclusions
    BY DEF Conclusions
  <2>3. /\ ChecksTyped'
        /\ ChecksInPlace' /\ ReviewsReport'
        /\ OnlyWrites(bypass.found)
    <3>1. check' = [check EXCEPT ![bypass.found] =
                      Completed(check[bypass.found].head, "success", "bypass")]
      BY <1>14 DEF BypassConcludes
    <3>2. /\ created' = created /\ pc' = pc /\ at' = at
          /\ verdict' = verdict /\ reported' = reported
      BY <1>14 DEF BypassConcludes
    <3>3. "bypass" \in {"reaper", "bypass"} /\ "bypass" # "reaper"
      OBVIOUS
    <3> QED
      BY <2>1, <2>2, <3>1, <3>2, <3>3, OverwriteInv
  <2>4. TypeOK'
    BY <1>14, <2>3 DEF BypassConcludes, Inv, TypeOK, ChecksTyped, CheckType, Writers
  <2>5. OthersInPlace'
    BY <1>14, <2>1, <2>3 DEF BypassConcludes, Inv, TypeOK, OthersInPlace,
                                OnlyWrites
  <2> QED
    BY <2>3, <2>4, <2>5 DEF Inv
<1>15. CASE BypassFails
  <2>1. TypeOK'
    BY <1>15 DEF BypassFails, Inv, TypeOK
  <2>2. ChecksInPlace' /\ ReviewsReport'
    BY <1>15 DEF BypassFails, Inv, ChecksInPlace, ReviewsReport, ReaperConclusion
  <2>3. OthersInPlace'
    BY <1>15 DEF BypassFails, Inv, TypeOK, OthersInPlace
  <2> QED
    BY <2>1, <2>2, <2>3 DEF Inv
<1>16. CASE UNCHANGED vars
  BY <1>16 DEF vars, Inv, TypeOK, ChecksInPlace, ReviewsReport, OthersInPlace,
               ReaperConclusion
<1> QED
  BY <1>1, <1>2, <1>3, <1>4, <1>5, <1>6, <1>7, <1>8, <1>9, <1>10, <1>11, <1>12,
     <1>13, <1>14, <1>15, <1>16 DEF Next, Review, Bypass
-----------------------------------------------------------------------------
\* The invariant holds throughout.
THEOREM CheckInvariance == Spec => []Inv
  BY InitInv, NextInv, PTL DEF Spec

\* CheckRun's type invariant, for every number of reviews and pushes.
THEOREM CheckTypeCorrect == Spec => []TypeOK
<1>1. Inv => TypeOK
  BY DEF Inv
<1> QED
  BY <1>1, CheckInvariance, PTL

\* A green commit was passed by a review of that very commit, or bypassed.
THEOREM GreenEarned == Spec => []GreenIsEarned
<1>1. Inv => GreenIsEarned
  <2> SUFFICES ASSUME Inv, NEW h \in 1..MaxHead, GateOf(h) = "success"
               PROVE  \/ \E r \in Reviews :
                           at[r] = h /\ verdict[r] = "PASS" /\ r \in reported
                      \/ bypass.head = h /\ bypass.found = Newest(h)
    BY DEF GreenIsEarned
  <2>1. Newest(h) # Nobody /\ check[Newest(h)].conclusion = "success"
    BY DEF GateOf
  <2>2. /\ Newest(h) \in Reviews /\ check[Newest(h)].status # "none"
        /\ check[Newest(h)].head = h
    BY <2>1, FoundType
  <2>3. at[Newest(h)] = h
    BY <2>2 DEF Inv, ChecksInPlace
  <2>4. check[Newest(h)].status = "completed" /\ check[Newest(h)].by \in Writers
    BY <2>1, <2>2 DEF Inv, ChecksInPlace
  <2>5. CASE check[Newest(h)].by = "review"
    <3>1. /\ Newest(h) \in reported
          /\ Conclusion(verdict[Newest(h)], Neutral) = "success"
      BY <2>1, <2>2, <2>4, <2>5 DEF Inv, ReviewsReport
    <3>2. verdict[Newest(h)] = "PASS"
      BY <3>1 DEF Conclusion
    <3> QED
      BY <2>2, <2>3, <3>1, <3>2
  <2>6. CASE check[Newest(h)].by = "reaper"
    BY <2>1, <2>2, <2>4, <2>6, ReaperConclusionType DEF Inv, ReviewsReport
  <2>7. CASE check[Newest(h)].by = "bypass"
    BY <2>2, <2>4, <2>7, ReviewsAssumption DEF Inv, OthersInPlace, Nobody
  <2> QED
    BY <2>4, <2>5, <2>6, <2>7 DEF Writers
<1> QED
  BY <1>1, CheckInvariance, PTL

\* Where a tool failure blocks, as by default, a block that a review reported
\* gives way to nothing but the bypass.
THEOREM BlocksStand ==
  ASSUME Neutral = FALSE
  PROVE  Spec => []BlockStands
<1>1. Inv => BlockStands
  <2> SUFFICES ASSUME Inv, NEW r \in reported, verdict[r] = "FOUND",
                      check[r].by # "bypass"
               PROVE  check[r].conclusion = "failure"
    BY DEF BlockStands
  <2>1. r \in Reviews /\ check[r].status = "completed"
    BY DEF Inv, TypeOK, ReviewsReport
  <2>2. check[r].by \in {"review", "reaper"}
    BY <2>1 DEF Inv, ChecksInPlace, Writers
  <2>3. CASE check[r].by = "review"
    BY <2>1, <2>3 DEF Inv, ReviewsReport, Conclusion
  <2>4. CASE check[r].by = "reaper"
    BY <2>1, <2>4 DEF Inv, ReviewsReport, ReaperConclusion, Conclusion
  <2> QED
    BY <2>2, <2>3, <2>4
<1> QED
  BY <1>1, CheckInvariance, PTL
=============================================================================
