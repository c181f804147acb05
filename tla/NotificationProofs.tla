------------------------- MODULE NotificationProofs -------------------------
(***************************************************************************)
(* Theorems about what webhooks are told, for every notice and limits      *)
(* (Message) and every number of webhooks and attempts and every setting   *)
(* of the webhooks (Delivery).                                             *)
(***************************************************************************)
EXTENDS Message, Delivery, TLAPS

-----------------------------------------------------------------------------
(* Message: what render sets aside is enough. *)

\* The text and what is left of the budget never exceed the message less the
\* fence and the reserve, and before the first detail they make it up.
BudgetInv ==
  /\ markup \in Markups /\ notice \in Notices
  /\ stage \in {"headline", "fields", "details", "rendered"}
  /\ done \in Nat /\ length \in Nat /\ header \in Nat /\ budget \in Nat /\ sent \in Nat
  /\ stage = "headline" => done = 0
  /\ stage = "fields" => done <= Len(notice.fields)
  /\ stage = "details" =>
       /\ notice.details # <<>> /\ done <= Len(notice.details)
       /\ FieldsFit => length + budget + CloseFence + Reserve <= MaxMessage
       /\ FieldsFit /\ done = 0 => budget = MaxMessage - (header + CloseFence + Reserve)
  /\ ArrivesWhole

\* What is set aside and what is left make up the message.
LEMMA Balance ==
  ASSUME NEW text \in Nat, NEW fence \in Nat, NEW reserve \in Nat, NEW all \in Nat
  PROVE  text + (all - (text + fence + reserve)) + fence + reserve <= all
OBVIOUS

\* The fences and the reserve add up to a length.
LEMMA SetAside ==
  ASSUME NEW text \in Nat, NEW fence \in Nat, NEW reserve \in Nat
  PROVE  text + fence + reserve \in Nat
OBVIOUS

\* Escaping a text gives a text.
LEMMA Lengths ==
  ASSUME markup \in Markups, NEW text \in Texts
  PROVE  Escaped(text) \in Nat /\ Bold(text) \in Nat /\ Code(text) \in Nat /\ Detail(text) \in Nat
BY DEF Markups, Texts, Escaped, Bold, Code, Detail

\* Shortening gives a text of at most `limit` characters, or of one.
LEMMA Shortened ==
  ASSUME NEW text \in Texts, NEW limit \in Nat
  PROVE  /\ Shorten(text, limit) \in Texts
         /\ limit > 0 => Characters(Shorten(text, limit)) <= limit
BY DEF Texts, Shorten, Characters, Smaller, SaturatingSub

\* The next detail is a line; the first one on Discord is within the budget.
LEMMA LineFits ==
  ASSUME BudgetInv, stage = "details", done < Len(notice.details)
  PROVE  /\ Line \in Nat
         /\ markup = "Discord" /\ done = 0 /\ budget >= 2 => Line <= budget
<1> DEFINE text == notice.details[done + 1]
           limit == IF done = 0 THEN Smaller(MaxDetail, SaturatingSub(budget, 1)) ELSE MaxDetail
<1>1. text \in Texts
  BY MessageAssumption DEF BudgetInv
<1>2. limit \in Nat /\ (done = 0 /\ budget >= 1 => limit <= budget - 1)
  BY MessageAssumption DEF BudgetInv, Smaller, SaturatingSub
<1>3. Shorten(text, limit) \in Texts
      /\ (limit > 0 => Characters(Shorten(text, limit)) <= limit)
  BY <1>1, <1>2, Shortened
<1>4. Line = 1 + Detail(Shorten(text, limit))
  BY DEF Line
<1>5. Line \in Nat
  BY <1>3, <1>4, Lengths DEF BudgetInv
<1>6. ASSUME markup = "Discord", done = 0, budget >= 2 PROVE Line <= budget
  <2>1. Detail(Shorten(text, limit)) = Characters(Shorten(text, limit))
    BY <1>3, <1>6 DEF Detail, Characters, Texts
  <2>2. CASE limit > 0
    BY <1>2, <1>3, <1>4, <1>6, <2>1, <2>2, Lengths DEF BudgetInv, Characters, Texts
  <2>3. CASE limit = 0
    BY <1>1, <1>2, <1>4, <1>6, <2>1, <2>3 DEF BudgetInv, Shorten, Characters, Smaller,
       SaturatingSub, Texts
  <2> QED BY <1>2, <2>2, <2>3
<1> QED BY <1>5, <1>6

\* Every step of render keeps the invariant.
LEMMA BudgetStep == BudgetInv /\ [MessageNext]_messageVars => BudgetInv'
<1> SUFFICES ASSUME BudgetInv, [MessageNext]_messageVars PROVE BudgetInv'
  OBVIOUS
<1> USE MessageAssumption
<1>1. CASE RenderHeadline
  <2>1. Bold(notice.headline) \in Nat /\ Code(notice.host) \in Nat
    BY Lengths DEF BudgetInv
  <2>2. Len(notice.fields) \in Nat
    BY DEF BudgetInv
  <2> QED BY <1>1, <2>1, <2>2 DEF RenderHeadline, BudgetInv, ArrivesWhole
<1>2. CASE RenderField
  <2> DEFINE field == notice.fields[done + 1]
  <2>1. field \in NoticeFields
    BY <1>2 DEF RenderField, BudgetInv
  <2>2. field.value \in Texts /\ NoMarkup(field.label + 1) \in Texts
    BY <2>1 DEF NoticeFields, NoMarkup, Texts
  <2>3. Bold(NoMarkup(field.label + 1)) \in Nat /\ Code(field.value) \in Nat
        /\ Escaped(field.value) \in Nat
    BY <2>2, Lengths DEF BudgetInv
  <2>4. length' \in Nat
    <3> DEFINE value == IF field.code THEN Code(field.value) ELSE Escaped(field.value)
    <3>1. value \in Nat
      BY <2>3
    <3>2. length' = length + 1 + Bold(NoMarkup(field.label + 1)) + 1 + value
      BY <1>2 DEF RenderField
    <3> HIDE DEF value, field
    <3> QED BY <2>3, <3>1, <3>2 DEF BudgetInv
  <2>5. done' \in Nat /\ done' <= Len(notice.fields)
    <3>1. Len(notice.fields) \in Nat
      BY DEF BudgetInv
    <3> QED BY <1>2, <3>1 DEF RenderField, BudgetInv
  <2>6. stage = "fields" /\ UNCHANGED <<markup, notice, stage, header, budget, sent>>
    BY <1>2 DEF RenderField
  <2> QED BY <2>4, <2>5, <2>6 DEF BudgetInv, ArrivesWhole
<1>3. CASE OpenDetails
  <2>1. NoMarkup(notice.heading + 1) \in Texts
    BY DEF BudgetInv, NoMarkup, Texts
  <2>2. Bold(NoMarkup(notice.heading + 1)) \in Nat /\ OpenFence \in Nat /\ CloseFence \in Nat
    BY <2>1, Lengths DEF BudgetInv, OpenFence, CloseFence, Markups
  <2>3. CloseFence' = CloseFence
    BY <1>3 DEF OpenDetails, CloseFence
  <2>4. length' \in Nat /\ header' = length' /\ done' = 0
    <3>1. length + 1 + Bold(NoMarkup(notice.heading + 1)) + OpenFence \in Nat
      BY <2>2 DEF BudgetInv
    <3>2. /\ length' = length + 1 + Bold(NoMarkup(notice.heading + 1)) + OpenFence
          /\ header' = length' /\ done' = 0
      BY <1>3 DEF OpenDetails
    <3> QED BY <3>1, <3>2
  <2>5. /\ budget' \in Nat
        /\ header' + CloseFence + Reserve <= MaxMessage
             => budget' = MaxMessage - (header' + CloseFence + Reserve)
    <3> DEFINE aside == header' + CloseFence + Reserve
    <3>1. aside \in Nat /\ MaxMessage \in Nat
      <4>1. header' \in Nat
        BY <2>4
      <4>2. CloseFence \in Nat /\ Reserve \in Nat /\ MaxMessage \in Nat
        BY <2>2
      <4> QED BY <4>1, <4>2, SetAside
    <3>2. budget' = SaturatingSub(MaxMessage, aside)
      BY <1>3, <2>4 DEF OpenDetails
    <3> HIDE DEF aside
    <3>3. budget' \in Nat /\ (aside <= MaxMessage => budget' = MaxMessage - aside)
      BY <3>1, <3>2 DEF SaturatingSub
    <3> QED BY <3>3 DEF aside
  <2>6. /\ stage' = "details" /\ notice.details # <<>> /\ Len(notice.details) \in Nat
        /\ markup' = markup /\ notice' = notice /\ sent' = sent
    BY <1>3 DEF OpenDetails, BudgetInv
  <2>7. FieldsFit' => budget' = MaxMessage - (header' + CloseFence + Reserve)
    BY <2>3, <2>5 DEF FieldsFit
  <2>8. FieldsFit' => length' + budget' + CloseFence' + Reserve <= MaxMessage
    <3>1. header' \in Nat /\ CloseFence \in Nat /\ Reserve \in Nat /\ MaxMessage \in Nat
      BY <2>2, <2>4
    <3>2. length' = header' /\ CloseFence' = CloseFence
      BY <2>3, <2>4
    <3> HIDE MessageAssumption
    <3> SUFFICES ASSUME FieldsFit'
                 PROVE  header' + budget' + CloseFence + Reserve <= MaxMessage
      BY <3>2
    <3>3. budget' = MaxMessage - (header' + CloseFence + Reserve)
      BY <2>7
    <3> QED BY <3>1, <3>3, Balance
  <2>9. ArrivesWhole'
    BY <2>6 DEF ArrivesWhole
  <2>10. markup' \in Markups /\ notice' \in Notices /\ done' \in Nat /\ header' \in Nat /\ sent' \in Nat
         /\ notice'.details # <<>> /\ done' <= Len(notice'.details)
    BY <2>4, <2>6 DEF BudgetInv
  <2> QED
    BY <2>3, <2>4, <2>5, <2>6, <2>7, <2>8, <2>9, <2>10 DEF BudgetInv
<1>4. CASE RenderDetail
  <2>1. Line \in Nat /\ Line <= budget
    BY <1>4, LineFits DEF RenderDetail
  <2>2. CloseFence' = CloseFence /\ CloseFence \in Nat
    BY <1>4 DEF RenderDetail, CloseFence
  <2> QED BY <1>4, <2>1, <2>2 DEF RenderDetail, BudgetInv, ArrivesWhole, FieldsFit
<1>5. CASE CloseDetails
  <2>1. CloseFence' = CloseFence /\ CloseFence \in Nat /\ OverflowLine \in Nat
    BY <1>5 DEF CloseDetails, CloseFence, OverflowLine
  <2>2. sent' = Smaller(length', MaxMessage) /\ stage' = "rendered"
        /\ UNCHANGED <<markup, notice, done, header, budget>>
        /\ length' = length + CloseFence
                       + (IF done < Len(notice.details) THEN OverflowLine ELSE 0)
    BY <1>5 DEF CloseDetails
  <2>3. length' \in Nat /\ sent' \in Nat
    BY <2>1, <2>2 DEF BudgetInv, Smaller
  <2>4. FieldsFit => sent' = length'
    BY <1>5, <2>1, <2>2, <2>3 DEF CloseDetails, BudgetInv, Smaller
  <2>5. Len(notice.details) > 0
    BY <1>5 DEF CloseDetails, BudgetInv
  <2>6. markup = "Discord" /\ header + CloseFence + Reserve + 2 <= MaxMessage => done > 0
    <3> SUFFICES ASSUME markup = "Discord", header + CloseFence + Reserve + 2 <= MaxMessage,
                        done = 0
                 PROVE  FALSE
      BY DEF BudgetInv
    <3>1. budget >= 2
      BY <1>5, <2>1 DEF CloseDetails, BudgetInv, FieldsFit
    <3>2. Line \in Nat /\ Line <= budget
      BY <1>5, <2>5, <3>1, LineFits DEF CloseDetails
    <3> QED BY <1>5, <2>5, <3>2 DEF CloseDetails, BudgetInv
  <2> QED
    BY <2>1, <2>2, <2>3, <2>4, <2>6 DEF BudgetInv, ArrivesWhole, FieldsFit
<1>6. CASE RenderNoDetails
  BY <1>6 DEF RenderNoDetails, BudgetInv, ArrivesWhole, Smaller
<1>7. CASE UNCHANGED messageVars
  BY <1>7 DEF messageVars, BudgetInv, ArrivesWhole, FieldsFit, CloseFence
<1> QED
  BY <1>1, <1>2, <1>3, <1>4, <1>5, <1>6, <1>7 DEF MessageNext

\* The closing fence and the count of omitted details of a message whose fields
\* fit are never cut off, and on Discord its first error is always shown
\* (render).
THEOREM MessageArrivesWhole == MessageSpec => []ArrivesWhole
<1>1. MessageInit => BudgetInv
  BY DEF MessageInit, BudgetInv, ArrivesWhole
<1>2. BudgetInv => ArrivesWhole
  BY DEF BudgetInv
<1> QED
  BY <1>1, <1>2, BudgetStep, PTL DEF MessageSpec

-----------------------------------------------------------------------------
(* Delivery.  An endpoint's answers are counted by the attempts             *)
(* (Attempted), and all of them were worth a retry while the sender goes on *)
(* (Repeated).  A sender that is through has either noted an error or been  *)
(* accepted (Concluded), and deliver has waited for all of them before main *)
(* looks at the report (InOrder).                                          *)

\* Every attempt has had at most one answer, and there are attempts left when
\* the next one is waited for.
Attempted ==
  \A w \in Webhooks :
    /\ sender[w] = "queued" => attempts[w] = 0 /\ Len(answers[w]) = 0
    /\ sender[w] = "sending" => attempts[w] = Len(answers[w]) + 1
    /\ sender[w] = "backoff" => attempts[w] = Len(answers[w]) /\ attempts[w] < MaxAttempts
    /\ sender[w] = "done" => attempts[w] = Len(answers[w])

\* While the sender goes on, no answer was final.
Repeated ==
  \A w \in Webhooks : sender[w] \in {"sending", "backoff"} =>
    \A k \in 1..Len(answers[w]) : answers[w][k] \in Retryable

Concluded ==
  \A w \in Webhooks : sender[w] = "done" /\ ~error[w] =>
    \E k \in 1..Len(answers[w]) : answers[w][k] = "accepted"

\* The run, its report and the exit come one after the other.
InOrder ==
  /\ exit # "none" => report # "pending"
  /\ report # "pending" => result # "pending"
  /\ \A w \in Webhooks : sender[w] # "queued" => result # "pending"
  /\ report = "none" => \A w \in Webhooks : sender[w] = "queued"
  /\ report = "some" => \A w \in Selected : sender[w] = "done"

IInv ==
  /\ TypeOK
  /\ Attempted /\ Repeated /\ Concluded /\ InOrder
  /\ OnlyLostIsRepeated /\ ZfsResultKept

-----------------------------------------------------------------------------
\* One answer more is the last one, and leaves those before it as they are.
LEMMA OneMore ==
  ASSUME NEW s \in Seq(Answers), NEW a \in Answers
  PROVE  /\ Append(s, a) \in Seq(Answers) /\ Len(Append(s, a)) = Len(s) + 1
         /\ Append(s, a)[Len(s) + 1] = a
         /\ \A k \in 1..Len(s) : Append(s, a)[k] = s[k]
OBVIOUS

\* The invariant says nothing of a run that has not been made.
LEMMA DeliveryInit == Init => IInv
BY DeliveryAssumption
   DEF Init, IInv, TypeOK, Attempted, Repeated, Concluded, InOrder, OnlyLostIsRepeated,
       ZfsResultKept, Commands

\* Once the run has ended, who is told of it does not change.
LEMMA SelectedFixed ==
  ASSUME UNCHANGED <<config, result>>
  PROVE  Selected' = Selected
BY DEF Selected, Subscribes, config

\* An attempt that has an answer: the webhook's own part of the invariant, for
\* both results of send.
LEMMA Answered ==
  ASSUME IInv, NEW w \in Webhooks, NEW a \in Answers, sender[w] = "sending",
         answers' = [answers EXCEPT ![w] = Append(@, a)],
         NEW next \in {"backoff", "done"},
         next = "backoff" => a \in Retryable /\ attempts[w] < MaxAttempts,
         sender' = [sender EXCEPT ![w] = next],
         error' \in [Webhooks -> BOOLEAN],
         \A v \in Webhooks \ {w} : error'[v] = error[v],
         error'[w] \/ a = "accepted",
         UNCHANGED <<config, result, report, attempts, exit>>
  PROVE  IInv'
<1> USE DeliveryAssumption DEF IInv, TypeOK
<1> DEFINE s == answers[w]
           t == Append(s, a)
<1>1. /\ t \in Seq(Answers) /\ Len(t) = Len(s) + 1 /\ t[Len(s) + 1] = a
      /\ \A k \in 1..Len(s) : t[k] = s[k]
  BY OneMore
<1>2. /\ answers'[w] = t /\ sender'[w] = next
      /\ \A v \in Webhooks \ {w} : answers'[v] = answers[v] /\ sender'[v] = sender[v]
  OBVIOUS
<1>3. Len(s) \in Nat /\ \A k \in 1..Len(s) : s[k] \in Retryable
  BY DEF Repeated
<1>4. TypeOK'
  BY <1>1 DEF config
<1> HIDE DEF s, t
<1>5. Attempted'
  BY <1>1, <1>2 DEF Attempted, s
<1>6. Repeated'
  BY <1>1, <1>2, <1>3 DEF Repeated
<1>7. Concluded'
  BY <1>1, <1>2, <1>3 DEF Concluded
<1>8. OnlyLostIsRepeated'
  <2>1. Len(t) - 1 = Len(s)
    BY <1>1, <1>3
  <2>2. \A k \in 1..(Len(t) - 1) : t[k] \in Retryable
    BY <1>1, <1>3, <2>1
  <2> QED BY <1>2, <2>2 DEF OnlyLostIsRepeated
<1>9. InOrder'
  BY <1>2, SelectedFixed DEF InOrder
<1>10. ZfsResultKept'
  BY DEF ZfsResultKept, config
<1> QED BY <1>4, <1>5, <1>6, <1>7, <1>8, <1>9, <1>10

\* No step of a sender, of deliver or of main breaks it.
LEMMA DeliveryStep == IInv /\ [Next]_vars => IInv'
<1> SUFFICES ASSUME IInv, [Next]_vars PROVE IInv'
  OBVIOUS
<1> USE DeliveryAssumption DEF IInv, TypeOK, config
<1>1. CASE RunEnds
  <2>1. TypeOK' /\ Attempted' /\ Repeated' /\ Concluded' /\ OnlyLostIsRepeated'
    BY <1>1 DEF RunEnds, Attempted, Repeated, Concluded, OnlyLostIsRepeated
  <2>2. InOrder' /\ ZfsResultKept'
    BY <1>1 DEF RunEnds, InOrder, ZfsResultKept
  <2> QED BY <2>1, <2>2
<1>2. CASE DeliverFails
  <2>1. TypeOK' /\ Attempted' /\ Repeated' /\ Concluded' /\ OnlyLostIsRepeated'
    BY <1>2 DEF DeliverFails, Attempted, Repeated, Concluded, OnlyLostIsRepeated
  <2>2. InOrder' /\ ZfsResultKept'
    BY <1>2 DEF DeliverFails, InOrder, ZfsResultKept
  <2> QED BY <2>1, <2>2
<1>3. CASE Collect
  <2>1. TypeOK' /\ Attempted' /\ Repeated' /\ Concluded' /\ OnlyLostIsRepeated'
    BY <1>3 DEF Collect, Attempted, Repeated, Concluded, OnlyLostIsRepeated
  <2>2. InOrder' /\ ZfsResultKept'
    BY <1>3, SelectedFixed DEF Collect, InOrder, ZfsResultKept
  <2> QED BY <2>1, <2>2
<1>4. CASE Exit
  <2>1. TypeOK' /\ Attempted' /\ Repeated' /\ Concluded' /\ OnlyLostIsRepeated'
    BY <1>4 DEF Exit, Attempted, Repeated, Concluded, OnlyLostIsRepeated
  <2>2. InOrder'
    BY <1>4, SelectedFixed DEF Exit, InOrder
  <2>3. ZfsResultKept'
    BY <1>4 DEF Exit, InOrder, ZfsResultKept
  <2> QED BY <2>1, <2>2, <2>3
<1>5. ASSUME NEW w \in Webhooks, DeliverOne(w) PROVE IInv'
  <2>1. /\ sender[w] = "queued" /\ result # "pending" /\ report = "pending"
        /\ UNCHANGED <<config, result, report, answers, exit>>
    BY <1>5 DEF DeliverOne
  <2>2. PICK next \in {"sending", "done"}, n \in {0, 1}, e \in BOOLEAN :
          /\ sender' = [sender EXCEPT ![w] = next]
          /\ attempts' = [attempts EXCEPT ![w] = n]
          /\ error' = [error EXCEPT ![w] = e]
          /\ IF next = "sending" THEN n = 1 ELSE n = 0 /\ e
    <3>1. CASE webhook[w].resolves
      BY <1>5, <3>1 DEF DeliverOne
    <3>2. CASE ~webhook[w].resolves
      <4>1. attempts' = [attempts EXCEPT ![w] = 0]
        BY <1>5, <3>2 DEF DeliverOne, Attempted
      <4> QED BY <1>5, <3>2, <4>1 DEF DeliverOne
    <3> QED BY <3>1, <3>2
  <2>3. TypeOK'
    BY <2>1, <2>2
  <2>4. Attempted'
    BY <2>1, <2>2 DEF Attempted
  <2>5. Len(answers[w]) = 0 /\ OnlyLostIsRepeated'
    BY <2>1 DEF Attempted, OnlyLostIsRepeated
  <2>6. Repeated'
    BY <2>1, <2>2, <2>5 DEF Repeated
  <2>7. Concluded'
    BY <2>1, <2>2 DEF Concluded
  <2>8. InOrder'
    BY <2>1, <2>2, SelectedFixed DEF InOrder
  <2>9. ZfsResultKept'
    BY <2>1 DEF ZfsResultKept
  <2> QED BY <2>3, <2>4, <2>5, <2>6, <2>7, <2>8, <2>9
<1>6. ASSUME NEW w \in Webhooks, Sent(w) PROVE IInv'
  <2>1. "accepted" \in Answers
    BY DEF Answers
  <2> QED BY <1>6, <2>1, Answered DEF Sent
<1>7. ASSUME NEW w \in Webhooks, NEW a \in Answers, SendFails(w, a) PROVE IInv'
  <2>1. PICK next \in {"backoff", "done"} :
          /\ next = "backoff" => a \in Retryable /\ attempts[w] < MaxAttempts
          /\ sender' = [sender EXCEPT ![w] = next]
    BY <1>7 DEF SendFails
  <2>2. error' \in [Webhooks -> BOOLEAN] /\ error'[w]
        /\ \A v \in Webhooks \ {w} : error'[v] = error[v]
    BY <1>7 DEF SendFails
  <2> QED BY <1>7, <2>1, <2>2, Answered DEF SendFails
<1>8. ASSUME NEW w \in Webhooks, Retry(w) PROVE IInv'
  <2> USE <1>8 DEF Retry
  <2>1. TypeOK' /\ Attempted'
    BY DEF Attempted
  <2>2. Repeated' /\ Concluded' /\ OnlyLostIsRepeated'
    BY DEF Repeated, Concluded, OnlyLostIsRepeated
  <2>3. InOrder' /\ ZfsResultKept'
    BY SelectedFixed DEF InOrder, ZfsResultKept
  <2> QED BY <2>1, <2>2, <2>3
<1>9. CASE UNCHANGED vars
  BY <1>9, SelectedFixed
     DEF vars, Attempted, Repeated, Concluded, InOrder, OnlyLostIsRepeated, ZfsResultKept
<1> QED
  BY <1>1, <1>2, <1>3, <1>4, <1>5, <1>6, <1>7, <1>8, <1>9 DEF Next, Sender

\* The invariant of every behaviour.
LEMMA DeliveryInvariant == Spec => []IInv
BY DeliveryInit, DeliveryStep, PTL DEF Spec

-----------------------------------------------------------------------------
\* An endpoint hears of a run again only after a transient error or a lost
\* answer (notification.rs, deliver_one and is_retryable), for every number of
\* webhooks and attempts and every order of their answers.
THEOREM DeliveryRepeats == Spec => []OnlyLostIsRepeated
<1>1. IInv => OnlyLostIsRepeated
  BY DEF IInv
<1> QED BY <1>1, DeliveryInvariant, PTL

\* The retry loop sends no more than max_attempts requests to an endpoint
\* (notification.rs, deliver_one).
THEOREM DeliveryBounded == Spec => [](\A w \in Webhooks : Len(answers[w]) <= MaxAttempts)
<1>1. IInv => \A w \in Webhooks : Len(answers[w]) <= MaxAttempts
  <2> SUFFICES ASSUME IInv, NEW w \in Webhooks PROVE Len(answers[w]) <= MaxAttempts
    OBVIOUS
  <2>1. /\ attempts[w] \in 0..MaxAttempts /\ Len(answers[w]) \in Nat
        /\ sender[w] \in {"queued", "sending", "backoff", "done"}
    BY DEF IInv, TypeOK
  <2>2. attempts[w] = Len(answers[w]) \/ attempts[w] = Len(answers[w]) + 1
    BY <2>1 DEF IInv, Attempted
  <2> QED BY <2>1, <2>2, DeliveryAssumption
<1> QED BY <1>1, DeliveryInvariant, PTL

\* A webhook that deliver reports without an error has accepted the message
\* (notification.rs, deliver and deliver_one).
THEOREM DeliveryNoFalseSuccess == Spec => []NoFalseSuccess
<1>1. IInv => NoFalseSuccess
  <2> SUFFICES ASSUME IInv, report = "some", NEW w \in Selected \ Failed
               PROVE  Accepted(w) # {}
    BY DEF NoFalseSuccess
  <2>1. w \in Webhooks /\ sender[w] = "done" /\ ~error[w]
    BY DEF IInv, InOrder, Failed, Selected
  <2>2. PICK k \in 1..Len(answers[w]) : answers[w][k] = "accepted"
    BY <2>1 DEF IInv, Concluded
  <2> QED BY <2>2 DEF Accepted
<1> QED BY <1>1, DeliveryInvariant, PTL

\* Whatever becomes of the webhooks, a failed run exits with an error, and a
\* successful one without, unless fail_on_error is set (main.rs, main).
THEOREM DeliveryKeepsResult == Spec => []ZfsResultKept
<1>1. IInv => ZfsResultKept
  BY DEF IInv
<1> QED BY <1>1, DeliveryInvariant, PTL
=============================================================================
