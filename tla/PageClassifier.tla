--------------------------- MODULE PageClassifier ---------------------------
(***************************************************************************)
(* The judgement of one captured page: its text is prepared, cut into      *)
(* chunks, each chunk is classified, and their scores decide together      *)
(* (services/document_classifier/page_classifier.py).  A call may end      *)
(* without an opinion, and it may fail.  Lengths are counted in tokens.    *)
(***************************************************************************)
EXTENDS CaptureText, Classifier, Integers

CONSTANTS
  Pages,      \* texts that are captured
  Settings,   \* whether there is a classifier, its chunk size and the overlap
  Scorings    \* scores a classifier may give a chunk

ASSUME PageAssumption ==
  /\ \A text \in Pages : text \in Seq(Seq(Tokens) \ {<<>>})
  /\ \A s \in Settings : /\ s.classifier \in {"on", "off", "not installed"}
                         /\ s.size \in Int /\ s.overlap \in Int
  /\ \A s \in Scorings : s \in [Labels -> Nat]

VARIABLES
  page,      \* the text that was captured
  setting,   \* the settings of this server
  stage,     \* where the call is
  prepared,  \* what is left of the text
  chunks,    \* from where to where each chunk is
  results,   \* the classifications of the first of them
  opinion    \* what the call answers

pageVars == <<page, setting, stage, prepared, chunks, results, opinion>>

PageInit ==
  /\ page \in Pages /\ setting \in Settings
  /\ stage = "new" /\ prepared = <<>> /\ chunks = <<>> /\ results = <<>>
  /\ opinion = NoOpinion

Ends(how) == stage' = how /\ UNCHANGED <<chunks, results, opinion>>

\* Nothing may be left of a page.
Prepare ==
  /\ stage = "new"
  /\ prepared' = prepare_capture_text_for_classification(page)
  /\ Ends(IF prepared' = <<>> THEN "no opinion" ELSE "prepared")
  /\ UNCHANGED <<page, setting>>

\* The classifier is turned off, or its extra is not installed.
Skip ==
  /\ stage = "prepared" /\ setting.classifier # "on"
  /\ Ends("no opinion")
  /\ UNCHANGED <<page, setting, prepared>>

\* chunk_text_for_classification raises a ValueError.
Cuts(s) == 0 <= s.overlap /\ s.overlap < s.size

RefuseSetting ==
  /\ stage = "prepared" /\ setting.classifier = "on" /\ ~Cuts(setting)
  /\ Ends("failed")
  /\ UNCHANGED <<page, setting, prepared>>

Chunk ==
  /\ stage = "prepared" /\ setting.classifier = "on" /\ Cuts(setting)
  /\ stage' = "classifying"
  /\ chunks' = chunk_text(Size(prepared), setting.size, setting.overlap)
  /\ UNCHANGED <<page, setting, prepared, results, opinion>>

\* classify, of the next chunk; it may raise.
Classify ==
  /\ stage = "classifying" /\ Len(results) < Len(chunks)
  /\ \E s \in Scorings : results' = Append(results, FromScores(s))
  /\ UNCHANGED <<page, setting, stage, prepared, chunks, opinion>>

ClassifierFails ==
  /\ stage = "classifying" /\ Len(results) < Len(chunks)
  /\ Ends("failed")
  /\ UNCHANGED <<page, setting, prepared>>

Aggregate ==
  /\ stage = "classifying" /\ Len(results) = Len(chunks)
  /\ stage' = "judged" /\ opinion' = aggregate(results)
  /\ UNCHANGED <<page, setting, prepared, chunks, results>>

PageNext ==
  Prepare \/ Skip \/ RefuseSetting \/ Chunk \/ Classify \/ ClassifierFails \/ Aggregate

PageSpec == PageInit /\ [][PageNext]_pageVars

(***************************************************************************)
(* Property                                                                *)
(***************************************************************************)

\* A page that is judged is judged on the posting that is on it, on every part of it
\* with its neighbours, and by a vote in which more of a posting does no harm; it is
\* let in only if a part of it is a posting by itself.  A page with something to say is
\* let in without an opinion only where there is no classifier.  page_classifier.py,
\* chunking.py, capture_text_normalization.py, intake_validation.py.
JudgedOnThePosting ==
  /\ stage = "judged" =>
       /\ PreparedRight(page, prepared)
       /\ DOMAIN results = DOMAIN chunks
       /\ ChunkedRight(chunks, Size(prepared), setting.size, setting.overlap)
       /\ JudgedRight(results)
       /\ job_capture_from_document(opinion) =>
            \E i \in DOMAIN results : Passes(<<results[i]>>)
  /\ stage = "no opinion" => setting.classifier # "on" \/ ~HasWord(page)
=============================================================================
