----------------------------- MODULE Classifier -----------------------------
(***************************************************************************)
(* Whether a page is a job posting (services/document_classifier and       *)
(* intake_validation.py): its text is cut into chunks, each is classified, *)
(* and the scores decide together.  Scores and lengths are integers.       *)
(***************************************************************************)
EXTENDS Naturals, Sequences, FiniteSets

CONSTANTS
  MIN_CONFIDENCE,     \* document_classifier_min_confidence
  NoOpinion           \* None: no classifier is installed, or it is turned off

Labels == {"job_post", "resume", "other"}

ASSUME ClassifierAssumption ==
  MIN_CONFIDENCE \in Nat /\ NoOpinion \notin [label : Labels, confidence : Nat]

\* Bug: chunks follow each other without an overlap.
NextStart(start, size, overlap) == start + size

StepFrom(start, size, overlap) == start + (size - overlap)

\* chunk_text_for_classification: the chunks, from where to where.
chunk_text(length, size, overlap) ==
  LET Rest[start \in 0..length] ==
        IF start + size >= length THEN <<<<start, length>>>>
        ELSE <<<<start, start + size>>>> \o Rest[StepFrom(start, size, overlap)]
  IN  IF length = 0 THEN <<>> ELSE Rest[0]

\* A classification: its label, its confidence and the score of each label; the
\* label is the one with the highest score (_classification_from_pipeline_results).
FromScores(scores) ==
  LET best == CHOOSE l \in Labels : \A m \in Labels : scores[l] >= scores[m]
  IN  [label |-> best, confidence |-> scores[best], scores |-> scores]

\* The chunks that speak for a label, and against the other; and their best score.
Qualifying(chunks, l, m) ==
  {i \in DOMAIN chunks : /\ chunks[i].scores[l] >= MIN_CONFIDENCE
                         /\ chunks[i].scores[l] > chunks[i].scores[m]}
Posts(chunks)   == Qualifying(chunks, "job_post", "resume")
Resumes(chunks) == Qualifying(chunks, "resume", "job_post")
BestScore(chunks, set, l) ==
  CHOOSE n \in {chunks[i].scores[l] : i \in set} : \A i \in set : chunks[i].scores[l] <= n

\* More of them, or as many with a score that is not lower.
JobsWin(chunks) ==
  \/ Cardinality(Posts(chunks)) > Cardinality(Resumes(chunks))
  \/ Resumes(chunks) = {}
  \/ /\ Cardinality(Posts(chunks)) = Cardinality(Resumes(chunks))
     /\ BestScore(chunks, Posts(chunks), "job_post") >=
          BestScore(chunks, Resumes(chunks), "resume")

\* max(chunks, key=confidence): the first of the most confident.
IsFallback(chunks, i) ==
  /\ \A j \in DOMAIN chunks : chunks[j].confidence <= chunks[i].confidence
  /\ \A j \in 1..(i - 1) : chunks[j].confidence < chunks[i].confidence

\* aggregate_chunk_classifications: the label, with the confidence.
aggregate(chunks) ==
  LET posts    == Posts(chunks)
      resumes  == Resumes(chunks)
      fallback == CHOOSE i \in DOMAIN chunks : IsFallback(chunks, i)
  IN  IF chunks = <<>> THEN [label |-> "other", confidence |-> MIN_CONFIDENCE]
      ELSE IF posts # {} /\ JobsWin(chunks)
           THEN [label |-> "job_post", confidence |-> BestScore(chunks, posts, "job_post")]
      ELSE IF resumes # {}
           THEN [label |-> "resume", confidence |-> BestScore(chunks, resumes, "resume")]
      ELSE [label |-> chunks[fallback].label, confidence |-> chunks[fallback].confidence]

\* job_capture_from_document: no opinion lets the page through.
job_capture_from_document(classification) ==
  \/ classification = NoOpinion
  \/ /\ classification.label = "job_post"
     /\ classification.confidence >= MIN_CONFIDENCE

(***************************************************************************)
(* What the two promise                                                    *)
(***************************************************************************)

\* Every character is in a chunk, no chunk is too long for the classifier, each
\* repeats the end of the one before it, and each adds something.
ChunkedRight(c, length, size, overlap) ==
  /\ \A at \in 0..(length - 1) : \E i \in DOMAIN c : c[i][1] <= at /\ at < c[i][2]
  /\ \A i \in DOMAIN c : c[i][1] < c[i][2] /\ c[i][2] - c[i][1] <= size
  /\ \A i \in 1..(Len(c) - 1) : /\ c[i][2] - c[i + 1][1] = overlap
                                /\ c[i][2] < c[i + 1][2]

\* More of a posting never gets a page refused that passed without it; and no page
\* passes of which no chunk is, by itself, a posting.
Passes(chunks) == job_capture_from_document(aggregate(chunks))
Without(chunks, i) == SubSeq(chunks, 1, i - 1) \o SubSeq(chunks, i + 1, Len(chunks))

JudgedRight(chunks) ==
  /\ \A i \in DOMAIN chunks :
       Passes(<<chunks[i]>>) /\ Passes(Without(chunks, i)) => Passes(chunks)
  /\ Passes(chunks) => \E i \in DOMAIN chunks : Passes(<<chunks[i]>>)
=============================================================================
