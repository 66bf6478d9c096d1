----------------------------- MODULE CoverLetter -----------------------------
(***************************************************************************)
(* How the body of a cover letter is cut to the length that is asked for   *)
(* (services/cover_letter_normalize.py).  A text is a sequence of kinds of *)
(* character: the schema, the prompts and the page tell no more apart.     *)
(***************************************************************************)
EXTENDS Naturals, SequencesExt, FiniteSetsExt

\* A letter, a blank, a line break, an end of sentence, a comma, and a closing quote.
Characters == {"w", " ", "n", ".", ",", "q"}
Whitespace == {" ", "n"}

LStripped(s) == LET kept == {i \in DOMAIN s : s[i] \notin Whitespace}
                IN  IF kept = {} THEN <<>> ELSE SubSeq(s, Min(kept), Len(s))

\* s without what it ends in of cs.
RStripped(s, cs) == LET kept == {i \in DOMAIN s : s[i] \notin cs}
                    IN  IF kept = {} THEN <<>> ELSE SubSeq(s, 1, Max(kept))
Stripped(s) == LStripped(RStripped(s, Whitespace))

\* Where a match of _SENTENCE_END ends, less the whitespace it may take in: an end
\* of sentence, closing quotes, and whitespace or the end of the text.
EndsSentence(s, i) ==
  /\ i = Len(s) \/ s[i + 1] \in Whitespace
  /\ \E j \in 1..i : s[j] = "." /\ \A k \in (j + 1)..i : s[k] = "q"

\* Bug: the text is cut wherever the limit falls.
CutAnywhere(body, limit) ==
  LET s == Stripped(body)
  IN  IF Len(s) <= limit THEN s ELSE RStripped(SubSeq(s, 1, limit), Whitespace)

\* What is no sentence is cut at a blank, never at a line break.
cap_cover_letter_body(body, limit) ==
  LET s     == Stripped(body)
      t     == RStripped(SubSeq(s, 1, limit), Whitespace)
      ends  == {i \in DOMAIN t : EndsSentence(t, i)}
      best  == Max(ends)
      blank == {i \in DOMAIN t : t[i] = " "}
  IN  CASE Len(s) <= limit -> s
        [] Len(s) > limit /\ ends # {}
             /\ 10 * (IF best = Len(t) THEN best ELSE best + 1) > 4 * limit ->
             SubSeq(t, 1, best)
        [] OTHER -> IF blank = {} THEN t
                    ELSE RStripped(SubSeq(t, 1, Max(blank) - 1), {".", ","})

\* A body that fits is kept.  One that does not is cut to a beginning of itself that
\* is short enough and breaks no word, unless no blank comes before; and when a
\* sentence ends in the last six tenths of what fits, the cut is at the last such end.
CutsFit(texts, limit) ==
  \A body \in texts :
    LET s   == Stripped(body)
        cut == cap_cover_letter_body(body, limit)
        n   == Len(cut)
        full == {i \in 1..limit : i <= Len(s) /\ EndsSentence(SubSeq(s, 1, limit), i)}
    IN  /\ IsPrefix(cut, s) /\ n <= limit
        /\ Len(s) <= limit => cut = s
        /\ Len(s) > limit /\ (\E i \in full : 10 * i > 4 * limit) => n = Max(full)
        /\ Len(s) > limit /\ s[n + 1] \in {"w", "q"} =>
             \/ n \in full
             \/ \A i \in 1..limit : s[i] # " "
=============================================================================
