------------------------------ MODULE MCIntake ------------------------------
(***************************************************************************)
(* An instance of Intake, and of the judgement of a page, for TLC.         *)
(***************************************************************************)
EXTENDS Intake, PageClassifier, TLC

CONSTANTS f1, f2

(***************************************************************************)
(* Intake                                                                  *)
(***************************************************************************)
TwoFlows == {f1, f2}
AllFlows == Permutations(Flows)

JobPage(form) == [site |-> "acme", job |-> "1", form |-> form]
LinkedIn      == [site |-> "linkedin", job |-> "1", form |-> "view"]
\* The same page with tracking parameters, a job whose id is in the path, on the
\* site of the company and on LinkedIn, and a query with an encoded character.
SomeUrls ==
  {JobPage("plain"), JobPage("tracked"), JobPage("view"), LinkedIn,
   JobPage("encoded"), JobPage("decoded"), JobPage("mangled")}

(***************************************************************************)
(* No opinion, or what a chunk leads to: scores are in tenths, and a       *)
(* confidence of 4 stands for 0.45.                                        *)
(***************************************************************************)
Scores(s) == [job_post |-> s[1], resume |-> s[2], other |-> 10 - s[1] - s[2]]
Scored    == {FromScores(Scores(s)) :
                s \in {<<10, 0>>, <<6, 4>>, <<4, 4>>, <<4, 6>>, <<0, 10>>, <<0, 0>>,
                       <<3, 3>>, <<5, 5>>, <<4, 0>>, <<4, 2>>}}
SomeOpinions == {NoOpinion} \cup {aggregate(<<c>>) : c \in Scored}

(***************************************************************************)
(* Pages: all texts of up to three lines, whose lines are broken at their  *)
(* markers, and longer ones, whose lines are left as they are.             *)
(***************************************************************************)
SomeLines ==
  {<<"word">>, <<"word", "word">>, <<"about the job">>, <<"overview">>, <<"benefits">>,
   <<"determine your fit">>, <<"easy apply">>, <<"word", "requirements", ":", "word">>,
   <<"word", "overview", "see who you know", "word">>, <<"word", "nice to have", "word">>,
   <<"page title:">>, <<"page title:", "title">>, <<"title">>, <<"title", "word">>}

FewLines == {<<"word">>, <<"word", "word">>, <<"about the job">>, <<"description">>,
             <<"similar jobs">>, <<"easy apply">>,
             <<"word", "requirements", ":", "word">>, <<"word", "benefits", "similar jobs">>}

Words == <<<<"word">>, <<"word", "word">>, <<"word">>>>

SomePages == BoundedSeq(SomeLines, 3) \cup {Words \o text : text \in BoundedSeq(FewLines, 3)}

UsualSetting == [classifier |-> "on", size |-> 4, overlap |-> 1]
SomeSettings ==
  [classifier : {"on"}, size : {4}, overlap : {0, 1, 4}]
    \cup [classifier : {"off", "not installed"}, size : {4}, overlap : {1}]

SomeScorings == {Scores(s) : s \in {<<6, 4>>, <<4, 6>>, <<4, 0>>}}

(***************************************************************************)
(* The calls that judge pages share nothing with the flows, which may get  *)
(* any of the opinions they come to: a call, or the flows, run.            *)
(***************************************************************************)
FlowsRest == restarts = 0 /\ \A f \in Flows : flow[f] = NewFlow
CallRests == stage = "new" /\ page = <<>> /\ setting = UsualSetting

FlowsOnly == CallRests /\ UNCHANGED pageVars
CallOnly  == FlowsRest /\ UNCHANGED vars

IntakeNext ==
  \/ \E f \in Flows :
       \/ (Capture(f) /\ FlowsOnly) \/ (LookUp(f) /\ FlowsOnly) \/ (Judge(f) /\ FlowsOnly)
       \/ (Parse(f) /\ FlowsOnly) \/ (HandOff(f) /\ FlowsOnly) \/ (OpenReview(f) /\ FlowsOnly)
       \/ (Reload(f) /\ FlowsOnly) \/ (Paste(f) /\ FlowsOnly) \/ (Save(f) /\ FlowsOnly)
       \/ (Promote(f) /\ FlowsOnly) \/ (Structure(f) /\ FlowsOnly) \/ (Insert(f) /\ FlowsOnly)
       \/ (NoProfile(f) /\ FlowsOnly)
  \/ \E u \in Urls :
       \/ (DeleteJob(u) /\ FlowsOnly)
       \/ \E v \in Urls : (UpdateJob(u, v) /\ FlowsOnly)
  \/ (Tick /\ FlowsOnly)
  \/ (Restart /\ FlowsOnly)
  \/ (Prepare /\ CallOnly) \/ (Skip /\ CallOnly) \/ (RefuseSetting /\ CallOnly)
  \/ (Chunk /\ CallOnly) \/ (Classify /\ CallOnly) \/ (ClassifierFails /\ CallOnly)
  \/ (Aggregate /\ CallOnly)

IntakeInit == Init /\ PageInit

IntakeSpec ==
  IntakeInit /\ [][IntakeNext]_<<vars, pageVars>>
=============================================================================
