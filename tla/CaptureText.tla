----------------------------- MODULE CaptureText -----------------------------
(***************************************************************************)
(* From the text of a captured page to the posting in it                   *)
(* (services/capture_text_normalization.py).  A text is a sequence of      *)
(* lines, and a line a sequence of tokens, which spaces separate; ":"      *)
(* stands for text that follows a token without a space.  Blank lines are  *)
(* left out.                                                               *)
(***************************************************************************)
EXTENDS Naturals, SequencesExt

CONSTANTS
  MIN_ANCHORED,      \* shortest section that is taken for the posting, in tokens
  MAX_PREFIX_LINE    \* longest line that is taken from before a heading

ASSUME CaptureAssumption == MIN_ANCHORED \in Nat \ {0} /\ MAX_PREFIX_LINE \in Nat

(***************************************************************************)
(* The lists of the module differ.  A token stands for the phrases that    *)
(* are in the same ones: what is a heading when it is a line of its own,   *)
(* what starts or stops a section wherever it is, where a line is broken,  *)
(* and what the user interface says.                                       *)
(***************************************************************************)
SkipsPrefix == {"about the job"}
JOB_SECTION_HEADING_RE     == SkipsPrefix \cup {"requirements", "overview", "description"}
SECTION_STOP_HEADING_RE    == {"similar jobs", "benefits", "determine your fit"}
INLINE_JOB_SECTION_MARKERS == JOB_SECTION_HEADING_RE \ {"description"}
INLINE_SECTION_STOP_MARKERS == {"similar jobs", "see who you know", "determine your fit"}
SECTION_BREAK_MARKERS ==
  {"about the job", "requirements", "nice to have", "similar jobs", "determine your fit"}
UI_LINE_PATTERNS == {"easy apply", "determine your fit"}

Tokens ==
  JOB_SECTION_HEADING_RE \cup SECTION_STOP_HEADING_RE \cup INLINE_SECTION_STOP_MARKERS
    \cup SECTION_BREAK_MARKERS \cup UI_LINE_PATTERNS
    \cup {"word", ":", "page title:", "title"}

IsHeading(line) == Len(line) = 1 /\ line[1] \in JOB_SECTION_HEADING_RE
IsStop(line)    == Len(line) = 1 /\ line[1] \in SECTION_STOP_HEADING_RE
IsNoise(line)   == line # <<>> /\ line[1] \in UI_LINE_PATTERNS
Opens(line)     == \E i \in DOMAIN line : line[i] \in INLINE_JOB_SECTION_MARKERS

\* Bug: a section found inside a line is stopped by what ends one found by its lines.
ClosesLikeALine(line) == \E i \in DOMAIN line : line[i] \in SECTION_STOP_HEADING_RE

Closes(line) == \E i \in DOMAIN line : line[i] \in INLINE_SECTION_STOP_MARKERS

Size(lines) == Len(FlattenSeq(lines))

Upto(s, n) == SubSeq(s, 1, n)
From(s, n) == SubSeq(s, n, Len(s))
Before(s, Test(_)) ==
  IF SelectInSeq(s, Test) = 0 THEN s ELSE Upto(s, SelectInSeq(s, Test) - 1)

\* The lines of a text that are in a set.
Kept(text, set) ==
  FoldLeft(LAMBDA kept, line : IF line \in set THEN Append(kept, line) ELSE kept, <<>>, text)

\* A line is broken before a marker, and behind one that no space follows.
StartsPart(parts, t) ==
  \/ parts = <<>>
  \/ t \in SECTION_BREAK_MARKERS
  \/ t = ":" /\ Last(Last(parts)) \in SECTION_BREAK_MARKERS

BrokenAtMarkers(line) ==
  FoldLeft(LAMBDA parts, t :
             IF StartsPart(parts, t) THEN Append(parts, <<t>>)
             ELSE [parts EXCEPT ![Len(parts)] = Append(@, t)],
           <<>>, line)

\* normalize_flattened_job_text.
normalize_flattened_job_text(text) ==
  IF Len(text) > 3 THEN text
  ELSE FlattenSeq([i \in DOMAIN text |-> BrokenAtMarkers(text[i])])

EndsSection(line) == IsStop(line) \/ IsNoise(line)

\* _extract_job_description_from_lines, with up to four lines from before a heading
\* that is not the first of a posting; <<>> for None.
FromLines(text) ==
  LET h       == SelectInSeq(text, IsHeading)
      before  == SubSeq(text, IF h > 4 THEN h - 4 ELSE 1, h - 1)
      short   == {l \in ToSet(before) : Len(l) <= MAX_PREFIX_LINE /\ ~IsNoise(l) /\ ~IsStop(l)}
      prefix  == IF text[h][1] \in SkipsPrefix THEN <<>> ELSE Kept(before, short)
  IN  IF h = 0 THEN <<>>
      ELSE prefix \o <<text[h]>> \o Before(From(text, h + 1), EndsSection)

\* _extract_job_description_inline: from the first marker anywhere, to where one
\* stops it anywhere.
Inline(text) ==
  LET l    == SelectInSeq(text, Opens)
      at   == SelectInSeq(text[l], LAMBDA t : t \in INLINE_JOB_SECTION_MARKERS)
      rest == <<From(text[l], at + 1)>> \o From(text, l + 1)
      end  == SelectInSeq(rest, Closes)
      body == IF end = 0 THEN rest
              ELSE Append(Upto(rest, end - 1),
                          Before(rest[end], LAMBDA t : t \in INLINE_SECTION_STOP_MARKERS))
  IN  IF l = 0 THEN <<>>
      ELSE <<<<text[l][at]>>>> \o Kept(body, ToSet(body) \ {<<>>})

\* The section that is found, by its lines or inside of one.
OrElse(found, other) == IF found # <<>> THEN found ELSE other

extract_job_description_section(text) ==
  LET normal == normalize_flattened_job_text(text)
  IN  OrElse(FromLines(normal), Inline(normal))

filter_ui_noise_lines(text) == Kept(text, {line \in ToSet(text) : ~IsNoise(line)})

\* preprocess_captured_text: a section is taken for the posting if it is long enough.
Anchored(section, text) ==
  IF section # <<>> /\ Size(section) >= MIN_ANCHORED THEN section ELSE text
preprocess_captured_text(text) ==
  filter_ui_noise_lines(Anchored(extract_job_description_section(text), text))

\* strip_duplicate_page_title: the label takes the rest of its line with it or, if there
\* is none, the next line; and the title is cut from the front of what is left.
Unlabelled(text) ==
  IF text = <<>> \/ text[1][1] # "page title:" \/ text = <<<<"page title:">>>> THEN text
  ELSE From(text, IF Len(text[1]) = 1 THEN 3 ELSE 2)
Untitled(text) ==
  IF text = <<>> \/ text[1][1] # "title" THEN text
  ELSE IF Len(text[1]) = 1 THEN From(text, 2) ELSE <<From(text[1], 2)>> \o From(text, 2)
strip_duplicate_page_title(text) == Untitled(Unlabelled(text))

prepare_capture_text_for_classification(text) ==
  preprocess_captured_text(strip_duplicate_page_title(text))

(***************************************************************************)
(* What the preparation promises                                           *)
(***************************************************************************)

\* A line with something to say, which is not the next line of a bare label.
HasWord(text) ==
  \E i \in DOMAIN text : /\ text[i] # <<>> /\ text[i][1] = "word"
                         /\ i = 2 => text[1] # <<"page title:">>

\* Of a section that is long enough, nothing is left that ends it: no heading that does
\* if it was found by its lines, no marker that does if it was found inside of one.
OnlySection(text, got) ==
  LET stripped == strip_duplicate_page_title(text)
  IN  Size(extract_job_description_section(stripped)) >= MIN_ANCHORED =>
        IF FromLines(normalize_flattened_job_text(stripped)) # <<>>
        THEN \A i \in DOMAIN got : ~IsStop(got[i])
        ELSE ToSet(FlattenSeq(got)) \cap INLINE_SECTION_STOP_MARKERS = {}

\* And no word is made up, and a page with something to say is not emptied.
PreparedRight(text, got) ==
  /\ OnlySection(text, got)
  /\ HasWord(text) => got # <<>>
  /\ ToSet(FlattenSeq(got)) \subseteq ToSet(FlattenSeq(text))
=============================================================================
