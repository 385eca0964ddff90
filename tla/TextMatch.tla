------------------------------ MODULE TextMatch ------------------------------
(***************************************************************************)
(* strip_header_block and search_text of search_engine.py, for one file    *)
(* and one term, line by line.  A line is what these functions ask of it:  *)
(* how the term occurs in it (an occurrence is exact if no identifier      *)
(* character touches it; zero-length matches are none), and what makes it  *)
(* a part of the header.                                                   *)
(***************************************************************************)
EXTENDS Naturals, Sequences

CONSTANTS
  Lines,        \* the lines a file is made of
  HeaderLimit,  \* the last line that may open the header: 5
  MaxLines      \* bound: the length of a file

Quotes == {"double", "single"}

\* opens: the triple quote a line begins with.  ends: where the docstring it
\* opens ends: with the line itself; early, before the line's end (or at once,
\* an empty one); later.  holds: the quotes in the line.  meta: a boilerplate line.
ASSUME LinesAssumption ==
  Lines \subseteq [opens : Quotes \cup {"none"}, ends : {"with line", "early", "later"},
                   holds : SUBSET Quotes, meta : {"yes", "no"},
                   hits : SUBSET {"exact", "partial"}]

ASSUME LimitAssumption == HeaderLimit \in Nat /\ MaxLines \in Nat

VARIABLES
  text,     \* the lines read so far
  header,   \* not header_done and not in_header; in_header; header_done
  quote,    \* quote_char
  exact,    \* exact_lines
  partial   \* partial_lines

textVars == <<text, header, quote, exact, partial>>

TextInit ==
  text = <<>> /\ header = "before" /\ quote = "none" /\ exact = {} /\ partial = {}

-----------------------------------------------------------------------------
Opens(line) ==
  header = "before" /\ Len(text) < HeaderLimit /\ line.opens # "none"

Enters(line) == Opens(line) /\ line.ends # "with line"

\* Wrong: either quote ends the header.
LeavesByAny(line) == header = "in" /\ line.holds # {}

Leaves(line) == header = "in" /\ quote \in line.holds

Kept(line) == header # "in" /\ ~Opens(line) /\ line.meta = "no"

Found(line, kind) == IF Kept(line) /\ kind \in line.hits THEN {Len(text) + 1} ELSE {}

ReadLine ==
  /\ Len(text) < MaxLines
  /\ \E line \in Lines :
       /\ text' = Append(text, line)
       /\ header' = IF Enters(line) THEN "in"
                    ELSE IF Opens(line) \/ Leaves(line) THEN "done" ELSE header
       /\ quote' = IF Enters(line) THEN line.opens ELSE quote
       /\ exact' = exact \cup Found(line, "exact")
       /\ partial' = partial \cup Found(line, "partial")

TextSpec == TextInit /\ [][ReadLine]_textVars

-----------------------------------------------------------------------------
\* The line of t that opens the header: the first that begins with a quote, if it
\* is one of the first HeaderLimit lines.
Opener(t, o) ==
  /\ o \in DOMAIN t /\ o <= HeaderLimit
  /\ t[o].opens # "none"
  /\ \A i \in 1 .. o - 1 : t[i].opens = "none"

\* No line after o and before i holds the quote that opened the header at o.
Unclosed(t, o, i) == \A k \in o + 1 .. i - 1 : t[o].opens \notin t[k].holds

InBlock(t, i) ==
  \E o \in 1 .. i :
    Opener(t, o) /\ (i = o \/ (t[o].ends # "with line" /\ Unclosed(t, o, i)))

Lists(t, kind) == {i \in DOMAIN t : ~InBlock(t, i) /\ t[i].meta = "no" /\ kind \in t[i].hits}

\* search_text reports the lines outside the header block and the boilerplate
\* lines on which the term occurs, each under its own number and kind.
FoundAsDefined == exact = Lists(text, "exact") /\ partial = Lists(text, "partial")

\* DOCUMENTATION.md:471: only the module docstring and boilerplate lines are
\* skipped; a line that is neither and has the term is reported.  The code looks
\* for the end of a docstring at the end of its first line or on later lines, so
\* one that ends in the middle of its first line hides the lines that follow.
HeaderOnly ==
  \A i \in DOMAIN text :
    \/ text[i].meta = "yes"
    \/ text[i].hits = {}
    \/ i \in exact \cup partial
    \/ \E o \in 1 .. i :
         Opener(text, o) /\ (i = o \/ (text[o].ends = "later" /\ Unclosed(text, o, i)))

\* What header and quote say of the lines read: no line within the limit has
\* opened the header; or one has, and in_header holds while it is unclosed.
HeaderFits ==
  IF header = "before"
  THEN \A i \in DOMAIN text : i <= HeaderLimit => text[i].opens = "none"
  ELSE \E o \in DOMAIN text :
         /\ Opener(text, o)
         /\ header = "in" <=> (text[o].ends # "with line" /\ Unclosed(text, o, Len(text) + 1))
         /\ header = "in" => quote = text[o].opens

TextInv ==
  /\ text \in Seq(Lines)
  /\ header \in {"before", "in", "done"}
  /\ HeaderFits
  /\ FoundAsDefined
=============================================================================
