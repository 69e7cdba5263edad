------------------------ MODULE WebhookDeliveryProofs ------------------------
(***************************************************************************)
(* What holds of a webhook delivery however many calls are in flight and   *)
(* whatever fails.  TypeOK is not inductive: that a call may carry at most *)
(* MAX_DELIVERY_ATTEMPTS - 1 needs that a pending row has attempts left,   *)
(* that nothing is given up early needs the requests that really went out  *)
(* counted against what the calls carry, and that a call at a time sends   *)
(* no request too many needs them paid for, one by one; that an outcome is *)
(* true and final needs that no call is left when the row has it.          *)
(***************************************************************************)
EXTENDS WebhookDelivery, TLAPS

\* A pending row has attempts left.
AttemptsLeft == status = "pending" => attempts < MAX_DELIVERY_ATTEMPTS

\* No count runs ahead of the requests sent: neither the row's, nor the one a
\* call read, nor the one a call is about to write.
Counted ==
  /\ attempts <= posts
  /\ \A c \in Calls :
       /\ phase[c] = "picked" => carried[c] <= posts
       /\ phase[c] \in {"posting", "succeeded", "refused"} => carried[c] + 1 <= posts

\* Before an event there is no row and no call.
Unborn ==
  origin = "none" => status = "none" /\ posts = 0 /\ \A c \in Calls : phase[c] = "idle"

\* A call that succeeded has been answered 2xx.
Succeeded == \A c \in Calls : phase[c] = "succeeded" => "heard" \in taken

\* Who has found the webhook and made no row yet is the only call.
Nascent ==
  \A c \in Calls : phase[c] = "found" =>
    status = "none" /\ \A d \in Calls \ {c} : phase[d] = "idle"

\* While calls have not overlapped there is at most one, and it carries the count
\* of the row; every request is then paid for by an attempt or by a mishap.
OneAtATime == \A c, d \in Calls : phase[c] # "idle" /\ phase[d] # "idle" => c = d

Paid ==
  /\ status = "pending" /\ InFlight = {} => posts <= attempts + mishaps
  /\ \A c \in Calls :
       /\ phase[c] = "found" => status = "none" /\ posts = 0
       /\ phase[c] \in {"picked", "posting", "succeeded", "refused"} /\ status = "pending" =>
            carried[c] = attempts
       /\ phase[c] = "picked" => posts <= carried[c] + mishaps
       /\ phase[c] \in {"posting", "succeeded", "refused"} => posts <= carried[c] + 1 + mishaps

Alone == ~overlapped => OneAtATime /\ Paid /\ RequestsBounded

\* While calls have not overlapped, a row with an outcome is nobody's any more; and if
\* nothing went wrong, a row whose request was answered 2xx says so, or is about to.
Settled ==
  ~overlapped =>
    /\ status \in {"delivered", "failed"} => InFlight = {}
    /\ origin = "none" \/ (\E c \in Calls : phase[c] = "found") => "heard" \notin taken
    /\ "heard" \in taken /\ status # "none" /\ mishaps = 0 =>
         status = "delivered" \/ \E c \in Calls : phase[c] = "succeeded"

IInv ==
  /\ TypeOK /\ AttemptsLeft /\ Unborn /\ Counted /\ Succeeded /\ Nascent
  /\ NoGivingUpEarly /\ DeliveredWasAccepted

\* At first no delivery is found and no call works on it.
LEMMA InitInvariant == Init => IInv
<1> SUFFICES ASSUME Init PROVE IInv
  OBVIOUS
<1> USE ParametersAssumption DEF Init
<1>1. TypeOK
  <2>1. 0 \in 0 .. MAX_DELIVERY_ATTEMPTS /\ 0 \in 0 .. MAX_DELIVERY_ATTEMPTS - 1
    OBVIOUS
  <2>2. posts \in 0 .. MaxPosts /\ mishaps \in 0 .. MaxMishaps
    OBVIOUS
  <2>3. carried \in [Calls -> 0 .. MAX_DELIVERY_ATTEMPTS - 1]
    BY <2>1
  <2> QED
    BY <2>1, <2>2, <2>3, Zenon DEF TypeOK
<1>2. /\ AttemptsLeft /\ Unborn /\ Counted /\ Succeeded /\ Nascent
      /\ NoGivingUpEarly /\ DeliveredWasAccepted
  BY DEF AttemptsLeft, Unborn, Counted, Succeeded, Nascent, NoGivingUpEarly,
         DeliveredWasAccepted
<1> QED
  BY <1>1, <1>2 DEF IInv

\* A call's own steps keep the invariant.
LEMMA CallStepInvariant ==
  ASSUME IInv, NEW c \in Calls, CallStep(c)
  PROVE  IInv'
<1> USE ParametersAssumption
        DEF IInv, TypeOK, AttemptsLeft, Unborn, Counted, Succeeded, Nascent,
            NoGivingUpEarly, DeliveredWasAccepted, Goto, row
<1>1. CASE CreateDelivery(c)
  BY <1>1 DEF CreateDelivery
<1>2. CASE Post(c)
  BY <1>2 DEF Post
<1>3. CASE Accepted(c)
  BY <1>3 DEF Accepted
<1>4. CASE Refused(c)
  BY <1>4 DEF Refused
<1>5. CASE MarkDelivered(c)
  BY <1>5 DEF MarkDelivered, Update
<1>6. CASE MarkFailed(c)
  BY <1>6 DEF MarkFailed, Update, LastAttempt
<1>7. CASE ScheduleRetry(c)
  BY <1>7 DEF ScheduleRetry, Update, LastAttempt
<1>8. CASE UpdateFails(c)
  BY <1>8 DEF UpdateFails, Mishap
<1>9. CASE NoAnswer(c)
  BY <1>9 DEF NoAnswer, MaybeTaken
<1> QED
  BY <1>1, <1>2, <1>3, <1>4, <1>5, <1>6, <1>7, <1>8, <1>9 DEF CallStep

\* So does every other step.
LEMMA StepInvariant == IInv /\ [Next]_vars => IInv'
<1> SUFFICES ASSUME IInv, [Next]_vars PROVE IInv'
  OBVIOUS
<1> USE ParametersAssumption
        DEF IInv, TypeOK, AttemptsLeft, Unborn, Counted, Succeeded, Nascent,
            NoGivingUpEarly, DeliveredWasAccepted, Goto, row
<1>1. CASE BecomeDue
  BY <1>1 DEF BecomeDue
<1>2. CASE DeleteWebhook
  BY <1>2 DEF DeleteWebhook
<1>3. ASSUME NEW c \in Calls, Tick(c) PROVE IInv'
  <2>1. carried[c]' = attempts /\ attempts \in 0 .. MAX_DELIVERY_ATTEMPTS - 1
    BY <1>3 DEF Tick
  <2> QED
    BY <1>3, <2>1 DEF Tick
<1>4. ASSUME NEW c \in Calls, CallStep(c) PROVE IInv'
  BY <1>4, CallStepInvariant
<1>5. ASSUME NEW c \in Calls, NEW from \in {"event", "test"}, Fire(c, from) PROVE IInv'
  BY <1>5 DEF Fire
<1>6. ASSUME NEW lost \in SUBSET Calls, Crash(lost) PROVE IInv'
  <2>1. /\ taken \subseteq taken'
        /\ taken' \subseteq {"heard", "unheard"}
    BY <1>6 DEF Crash, MaybeTaken
  <2>2. /\ \A c \in Calls : phase'[c] \in {phase[c], "idle"}
        /\ phase' \in [Calls -> {"idle", "found", "picked", "posting", "succeeded", "refused"}]
    BY <1>6 DEF Crash
  <2> QED
    BY <1>6, <2>1, <2>2 DEF Crash, Mishap
<1>7. CASE UNCHANGED vars
  BY <1>7 DEF vars
<1> QED
  BY <1>1, <1>2, <1>3, <1>4, <1>5, <1>6, <1>7 DEF Next

\* Alone is kept too, step by step.
LEMMA AloneStep == IInv /\ Alone /\ [Next]_vars => Alone'
<1> SUFFICES ASSUME IInv, Alone, [Next]_vars, ~overlapped'
             PROVE  OneAtATime' /\ Paid' /\ RequestsBounded'
  BY DEF Alone
<1> USE ParametersAssumption DEF Goto, row
<1>1. ~overlapped
  BY DEF Next, CallStep, BecomeDue, DeleteWebhook, Tick, Fire, CreateDelivery, Post,
         Accepted, Refused, NoAnswer, MarkDelivered, MarkFailed, ScheduleRetry,
         UpdateFails, Crash, vars
<1>2. OneAtATime /\ Paid /\ RequestsBounded /\ TypeOK /\ AttemptsLeft /\ Unborn
  BY <1>1 DEF Alone, IInv
<1> USE DEF OneAtATime, Paid, InFlight
<1> DEFINE Bound == posts <= MAX_DELIVERY_ATTEMPTS + mishaps
<1>3. Bound
  BY <1>1, <1>2 DEF RequestsBounded
<1>4. ASSUME OneAtATime' /\ Paid' /\ Bound' PROVE OneAtATime' /\ Paid' /\ RequestsBounded'
  BY <1>4 DEF RequestsBounded
<1> SUFFICES OneAtATime' /\ Paid' /\ Bound'
  BY <1>4
<1> USE DEF TypeOK
<1>5. CASE BecomeDue
  BY <1>2, <1>3, <1>5 DEF BecomeDue
<1>6. CASE DeleteWebhook
  BY <1>2, <1>3, <1>6 DEF DeleteWebhook
<1>7. ASSUME NEW c \in Calls, Tick(c) PROVE OneAtATime' /\ Paid' /\ Bound'
  <2>1. InFlight = {}
    BY <1>7 DEF Tick
  <2> QED
    BY <1>2, <1>3, <1>7, <2>1 DEF Tick
<1>8. ASSUME NEW c \in Calls, NEW from \in {"event", "test"}, Fire(c, from)
      PROVE  OneAtATime' /\ Paid' /\ Bound'
  BY <1>2, <1>3, <1>8 DEF Fire, Unborn
<1>9. ASSUME NEW lost \in SUBSET Calls, Crash(lost) PROVE OneAtATime' /\ Paid' /\ Bound'
  BY <1>2, <1>3, <1>9 DEF Crash, Mishap
<1>10. ASSUME NEW c \in Calls, CallStep(c) PROVE OneAtATime' /\ Paid' /\ Bound'
  <2>0. phase[c] # "idle"
    BY <1>10 DEF CallStep, CreateDelivery, Post, Accepted, Refused, NoAnswer,
                 MarkDelivered, MarkFailed, ScheduleRetry, UpdateFails
  <2>1. CASE CreateDelivery(c)
    BY <1>2, <1>3, <2>0, <2>1 DEF CreateDelivery
  <2>2. CASE Post(c)
    BY <1>2, <1>3, <2>0, <2>2 DEF Post
  <2>3. CASE Accepted(c)
    BY <1>2, <1>3, <2>0, <2>3 DEF Accepted
  <2>4. CASE Refused(c)
    BY <1>2, <1>3, <2>0, <2>4 DEF Refused
  <2>5. CASE MarkDelivered(c)
    BY <1>2, <1>3, <2>0, <2>5 DEF MarkDelivered, Update
  <2>6. CASE MarkFailed(c)
    BY <1>2, <1>3, <2>0, <2>6 DEF MarkFailed, Update
  <2>7. CASE ScheduleRetry(c)
    BY <1>2, <1>3, <2>0, <2>7 DEF ScheduleRetry, Update
  <2>8. CASE UpdateFails(c)
    BY <1>2, <1>3, <2>0, <2>8 DEF UpdateFails, Mishap
  <2>9. CASE NoAnswer(c)
    BY <1>2, <1>3, <2>0, <2>9 DEF NoAnswer
  <2> QED
    BY <1>10, <2>1, <2>2, <2>3, <2>4, <2>5, <2>6, <2>7, <2>8, <2>9 DEF CallStep
<1>11. CASE UNCHANGED vars
  BY <1>2, <1>3, <1>11 DEF vars
<1> QED
  BY <1>5, <1>6, <1>7, <1>8, <1>9, <1>10, <1>11 DEF Next

\* So is Settled.
LEMMA SettledStep == IInv /\ Alone /\ Settled /\ [Next]_vars => Settled'
<1> SUFFICES ASSUME IInv, Alone, Settled, [Next]_vars, ~overlapped' PROVE Settled'
  BY DEF Settled
<1> USE ParametersAssumption DEF Goto, row
<1>1. ~overlapped
  BY DEF Next, CallStep, BecomeDue, DeleteWebhook, Tick, Fire, CreateDelivery, Post,
         Accepted, Refused, NoAnswer, MarkDelivered, MarkFailed, ScheduleRetry,
         UpdateFails, Crash, vars
<1>2. OneAtATime /\ Paid /\ TypeOK /\ Unborn
  BY <1>1 DEF Alone, IInv
<1> USE <1>1, <1>2 DEF OneAtATime, InFlight, TypeOK, Settled
<1>3. CASE BecomeDue
  BY <1>3 DEF BecomeDue
<1>4. CASE DeleteWebhook
  BY <1>4 DEF DeleteWebhook
<1>5. ASSUME NEW c \in Calls, Tick(c) PROVE Settled'
  BY <1>5 DEF Tick
<1>6. ASSUME NEW c \in Calls, NEW from \in {"event", "test"}, Fire(c, from) PROVE Settled'
  BY <1>6 DEF Fire, Unborn
<1>7. ASSUME NEW lost \in SUBSET Calls, Crash(lost) PROVE Settled'
  BY <1>7 DEF Crash, Mishap, MaybeTaken
<1>8. ASSUME NEW c \in Calls, CallStep(c) PROVE Settled'
  <2>0. \A d \in Calls : phase[d] # "idle" => d = c
    BY <1>8 DEF CallStep, CreateDelivery, Post, Accepted, Refused, NoAnswer,
                MarkDelivered, MarkFailed, ScheduleRetry, UpdateFails
  <2>1. CASE CreateDelivery(c)
    BY <2>0, <2>1 DEF CreateDelivery, Paid
  <2>2. CASE Post(c)
    BY <2>0, <2>2 DEF Post
  <2>3. CASE Accepted(c)
    BY <2>0, <2>3 DEF Accepted, Unborn
  <2>4. CASE Refused(c)
    BY <2>0, <2>4 DEF Refused
  <2>5. CASE MarkDelivered(c)
    BY <2>0, <2>5 DEF MarkDelivered, Update
  <2>6. CASE MarkFailed(c)
    BY <2>0, <2>6 DEF MarkFailed, Update
  <2>7. CASE ScheduleRetry(c)
    BY <2>0, <2>7 DEF ScheduleRetry, Update
  <2>8. CASE UpdateFails(c)
    BY <2>0, <2>8 DEF UpdateFails, Mishap
  <2>9. CASE NoAnswer(c)
    BY <2>0, <2>9 DEF NoAnswer, MaybeTaken
  <2> QED
    BY <1>8, <2>1, <2>2, <2>3, <2>4, <2>5, <2>6, <2>7, <2>8, <2>9 DEF CallStep
<1>9. CASE UNCHANGED vars
  BY <1>9 DEF vars
<1> QED
  BY <1>3, <1>4, <1>5, <1>6, <1>7, <1>8, <1>9 DEF Next

\* The counts of requests sent, attempts recorded and attempts carried agree in
\* every reachable state.
THEOREM Invariance == Spec => []IInv
BY InitInvariant, StepInvariant, PTL DEF Spec

\* Every variable keeps its type: the attempts column never passes
\* MAX_DELIVERY_ATTEMPTS, however many calls write it.
THEOREM TypeCorrect == Spec => []TypeOK
<1>1. IInv => TypeOK
  BY DEF IInv
<1> QED
  BY <1>1, Invariance, PTL

\* An event is only given up after MAX_DELIVERY_ATTEMPTS requests really went out.
THEOREM NotGivenUpEarly == Spec => []NoGivingUpEarly
<1>1. IInv => NoGivingUpEarly
  BY DEF IInv
<1> QED
  BY <1>1, Invariance, PTL

\* A delivery is only called delivered if the subscriber answered 2xx in time.
THEOREM DeliveredIsTrue == Spec => []DeliveredWasAccepted
<1>1. IInv => DeliveredWasAccepted
  BY DEF IInv
<1> QED
  BY <1>1, Invariance, PTL

\* Until two calls overlap there is at most one, and it carries the row's count.
THEOREM AloneInvariance == Spec => []Alone
<1>1. Init => Alone
  BY ParametersAssumption DEF Init, Alone, OneAtATime, Paid, RequestsBounded
<1>2. IInv /\ Alone /\ [Next]_vars => Alone'
  BY AloneStep
<1> QED
  BY <1>1, <1>2, Invariance, PTL DEF Spec

\* Until two calls overlap, the subscriber gets no request beyond the maximum but
\* one for each crash and each failed update.
THEOREM RequestsAreBounded == Spec => []RequestsBounded
<1>1. Alone => RequestsBounded
  BY DEF Alone, RequestsBounded
<1> QED
  BY <1>1, AloneInvariance, PTL

\* A row with an outcome stays without a call, and a 2xx that was heard is not
\* forgotten.
THEOREM SettledInvariance == Spec => []Settled
<1>1. Init => Settled
  BY DEF Init, Settled, InFlight
<1>2. IInv /\ Alone /\ Settled /\ [Next]_vars => Settled'
  BY SettledStep
<1> QED
  BY <1>1, <1>2, Invariance, AloneInvariance, PTL DEF Spec

\* The row against the subscriber's side of the story: delivered only if it answered
\* 2xx in time; failed, until calls overlap or a process or an update fails, only if it
\* never did.  That it took a request whose answer came too late is not excluded.
THEOREM OutcomesAreTrue == Spec => []OutcomeIsTrue
<1>1. IInv /\ Settled => OutcomeIsTrue
  BY DEF IInv, TypeOK, Settled, OutcomeIsTrue, InFlight
<1> QED
  BY <1>1, Invariance, SettledInvariance, PTL

\* No step, of however many calls, takes a delivered or failed row back to pending; and
\* until calls overlap none exchanges one of the two for the other, nor sends another
\* request.
THEOREM OutcomesAreFinal == Spec => OutcomeIsFinal
<1> DEFINE Final == (status \in Outcomes) =>
             /\ status' # "pending"
             /\ ~overlapped => status' \in {status, "none"} /\ posts' = posts
<1>1. ASSUME IInv, Settled, [Next]_vars PROVE [Final]_<<row, posts>>
  <2> SUFFICES ASSUME status \in Outcomes
               PROVE  /\ status' # "pending"
                      /\ ~overlapped => status' \in {status, "none"} /\ posts' = posts
    OBVIOUS
  <2> USE DEF row, Outcomes
  <2>1. status' # "pending"
    <3>1. \A c \in Calls : ~CreateDelivery(c)
      BY <1>1 DEF IInv, Nascent, CreateDelivery
    <3> QED
      BY <1>1, <3>1 DEF Next, CallStep, BecomeDue, DeleteWebhook, Tick, Fire, Post,
         Accepted, Refused, NoAnswer, MarkDelivered, MarkFailed, ScheduleRetry, Update,
         UpdateFails, Crash, vars
  <2>2. ASSUME ~overlapped PROVE status' \in {status, "none"} /\ posts' = posts
    <3>1. \A c \in Calls : phase[c] = "idle"
      BY <1>1, <2>2 DEF Settled, InFlight
    <3> QED
      BY <1>1, <3>1 DEF Next, CallStep, BecomeDue, DeleteWebhook, Tick, Fire,
         CreateDelivery, Post, Accepted, Refused, NoAnswer, MarkDelivered, MarkFailed,
         ScheduleRetry, UpdateFails, Crash, vars
  <2> QED
    BY <2>1, <2>2
<1> QED
  BY <1>1, Invariance, SettledInvariance, PTL DEF Spec, OutcomeIsFinal
=============================================================================
