------------------------------- MODULE Message -------------------------------
(***************************************************************************)
(* render and shorten (src/notification.rs): a notice becomes a message     *)
(* that fits the budget all providers share.  Only lengths are modelled.  A  *)
(* text has plain characters and special ones, those its provider escapes   *)
(* to the longest replacement; the special ones come first.                 *)
(***************************************************************************)
EXTENDS Integers, Sequences

CONSTANTS
  Notices,      \* what main.rs may have to say
  MaxMessage,   \* MAX_MESSAGE_CHARACTERS
  MaxDetail,    \* MAX_DETAIL_CHARACTERS
  Reserve       \* DETAIL_OVERFLOW_RESERVE

Markups == {"Discord", "Slack", "Plain"}

Texts == [plain : Nat, special : Nat]
NoticeFields == [label : Nat, value : Texts, code : BOOLEAN]

\* "\n...and N more; see the host log for the full list", for the longest usize.
OverflowLine == 47 + 20

ASSUME MessageAssumption ==
  /\ \A n \in Notices :
       /\ n.headline \in Texts /\ n.host \in Texts /\ n.heading \in Nat
       /\ n.fields \in Seq(NoticeFields) /\ n.details \in Seq(Texts)
  /\ MaxMessage \in Nat /\ MaxDetail \in Nat
  /\ Reserve \in Nat /\ OverflowLine <= Reserve

VARIABLES
  markup,   \* Markup::for_kind of the provider; Flock has "Plain"
  notice,   \* both never change
  stage,    \* "headline", "fields", "details" or "rendered"
  done,     \* fields, and then details, in the text
  length,   \* characters of the text
  header,   \* of them, those before the details
  budget,   \* characters left for details
  sent      \* characters of the message

messageVars == <<markup, notice, stage, done, length, header, budget, sent>>

-----------------------------------------------------------------------------
(* Markup *)

Characters(text) == text.plain + text.special

Escaped(text) ==
  text.plain + (CASE markup = "Discord" -> 2 * text.special
                  [] markup = "Slack" -> 5 * text.special
                  [] markup = "Plain" -> text.special)

Bold(text) ==
  Escaped(text) + (CASE markup = "Discord" -> 4 [] markup = "Slack" -> 2 [] markup = "Plain" -> 0)

\* A backtick is swapped for one other character.
Code(text) ==
  text.plain + (CASE markup = "Discord" -> 2 + text.special
                  [] markup = "Slack" -> 2 + 5 * text.special
                  [] markup = "Plain" -> text.special)

\* Flock has no code blocks: a bullet, and line breaks are indented.
Detail(text) ==
  text.plain + (CASE markup = "Discord" -> text.special
                  [] markup = "Slack" -> 5 * text.special
                  [] markup = "Plain" -> 2 + 3 * text.special)

OpenFence == CASE markup = "Discord" -> 8 [] markup = "Slack" -> 4 [] markup = "Plain" -> 0
CloseFence == IF markup = "Plain" THEN 0 ELSE 4

NoMarkup(characters) == [plain |-> characters, special |-> 0]

Smaller(a, b) == IF a <= b THEN a ELSE b
SaturatingSub(a, b) == IF a >= b THEN a - b ELSE 0

Shorten(text, limit) ==
  LET taken == SaturatingSub(limit, 1)
      special == Smaller(text.special, taken)
  IN  IF Characters(text) <= limit THEN text
      ELSE [plain |-> (taken - special) + 1, special |-> special]

-----------------------------------------------------------------------------
(* render *)

MessageInit ==
  /\ markup \in Markups /\ notice \in Notices
  /\ stage = "headline" /\ done = 0
  /\ length = 0 /\ header = 0 /\ budget = 0 /\ sent = 0

\* "icon headline on host"
RenderHeadline ==
  /\ stage = "headline"
  /\ stage' = "fields"
  /\ length' = 2 + Bold(notice.headline) + 4 + Code(notice.host)
  /\ UNCHANGED <<markup, notice, done, header, budget, sent>>

RenderField ==
  /\ stage = "fields" /\ done < Len(notice.fields)
  /\ LET field == notice.fields[done + 1]
     IN  length' = length + 1 + Bold(NoMarkup(field.label + 1)) + 1
                     + (IF field.code THEN Code(field.value) ELSE Escaped(field.value))
  /\ done' = done + 1
  /\ UNCHANGED <<markup, notice, stage, header, budget, sent>>

\* Mutant: only the closing fence is set aside.
OpenDetailsNoReserve ==
  /\ stage = "fields" /\ done = Len(notice.fields) /\ notice.details # <<>>
  /\ stage' = "details" /\ done' = 0
  /\ length' = length + 1 + Bold(NoMarkup(notice.heading + 1)) + OpenFence
  /\ header' = length'
  /\ budget' = SaturatingSub(MaxMessage, length' + CloseFence)
  /\ UNCHANGED <<markup, notice, sent>>

OpenDetails ==
  /\ stage = "fields" /\ done = Len(notice.fields) /\ notice.details # <<>>
  /\ stage' = "details" /\ done' = 0
  /\ length' = length + 1 + Bold(NoMarkup(notice.heading + 1)) + OpenFence
  /\ header' = length'
  /\ budget' = SaturatingSub(MaxMessage, length' + CloseFence + Reserve)
  /\ UNCHANGED <<markup, notice, sent>>

\* The next detail as a line.  It is shortened before it is escaped, the first
\* one to what is left.
Line ==
  LET limit == IF done = 0 THEN Smaller(MaxDetail, SaturatingSub(budget, 1)) ELSE MaxDetail
  IN  1 + Detail(Shorten(notice.details[done + 1], limit))

RenderDetail ==
  /\ stage = "details" /\ done < Len(notice.details) /\ Line <= budget
  /\ length' = length + Line
  /\ budget' = budget - Line
  /\ done' = done + 1
  /\ UNCHANGED <<markup, notice, stage, header, sent>>

\* All details are there, or the next one is over the budget.
CloseDetails ==
  /\ stage = "details"
  /\ done < Len(notice.details) => Line > budget
  /\ stage' = "rendered"
  /\ length' = length + CloseFence + (IF done < Len(notice.details) THEN OverflowLine ELSE 0)
  /\ sent' = Smaller(length', MaxMessage)
  /\ UNCHANGED <<markup, notice, done, header, budget>>

RenderNoDetails ==
  /\ stage = "fields" /\ done = Len(notice.fields) /\ notice.details = <<>>
  /\ stage' = "rendered"
  /\ sent' = Smaller(length, MaxMessage)
  /\ UNCHANGED <<markup, notice, done, length, header, budget>>

MessageNext ==
  RenderHeadline \/ RenderField \/ OpenDetails \/ RenderDetail \/ CloseDetails \/ RenderNoDetails

MessageSpec == MessageInit /\ [][MessageNext]_messageVars

-----------------------------------------------------------------------------
(* Properties *)

\* The fields leave room for the fences and for the line that counts what is
\* omitted.
FieldsFit == header + CloseFence + Reserve <= MaxMessage

\* A message whose fields fit arrives whole, however many details there are and
\* however they grow when they are escaped: the final shorten never cuts the
\* closing fence or the count of what is omitted (notification.rs:382-385, "a
\* closing code fence is never cut off").  On Discord, where details do not
\* grow, the first error is always shown as soon as there is room for one
\* character of it (notification.rs:419).
ArrivesWhole ==
  stage = "rendered" /\ notice.details # <<>> /\ FieldsFit =>
    /\ sent = length
    /\ markup = "Discord" /\ header + CloseFence + Reserve + 2 <= MaxMessage => done > 0
=============================================================================
