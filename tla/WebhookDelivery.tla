--------------------------- MODULE WebhookDelivery ---------------------------
(***************************************************************************)
(* One webhook event on its way to one subscriber: the row it has in       *)
(* webhook_deliveries, the first attempt fireWebhookEvent (or the test     *)
(* endpoint) makes, and the retries the scheduler's ticks make             *)
(* (src/webhooks/index.ts, scheduler.ts, delivery.ts, src/db/store.ts).    *)
(*                                                                         *)
(* Deliveries share nothing but the table, so one stands for all.  A call  *)
(* is one run of deliverToWebhook, processRetry or the test handler; calls *)
(* of several ticks and of several server instances may be in flight at    *)
(* once, because nothing marks a row as taken.  next_retry_at is "null",   *)
(* "later" or "due": the clock only ever turns "later" into "due".         *)
(***************************************************************************)
EXTENDS Naturals

CONSTANTS
  Calls,                  \* deliverToWebhook / processRetry runs in flight at once
  MAX_DELIVERY_ATTEMPTS,
  MaxPosts,               \* bound: requests sent to the subscriber
  MaxMishaps              \* bound: crashes and failed updates

ASSUME ParametersAssumption ==
  /\ MAX_DELIVERY_ATTEMPTS \in Nat \ {0}
  /\ MaxPosts \in Nat
  /\ MaxMishaps \in Nat

VARIABLES
  webhook,                \* "active" or "deleted": is its row still there
  origin,                 \* "none", "event" or "test": what made the delivery
  status,                 \* the row's status; "none": there is no row
  attempts,               \* the row's attempts
  retry,                  \* the row's next_retry_at
  phase,                  \* per call: how far it is
  carried,                \* per call: attempts as read with the row
  posts,                  \* requests sent to the subscriber
  taken,                  \* how the subscriber took it: by a request it answered in time
                          \* ("heard"), by one nobody waited for ("unheard"), or both
  mishaps,                \* crashes and failed updates so far
  overlapped              \* two calls have been in flight at once

row  == <<status, attempts, retry>>
vars == <<webhook, origin, row, phase, carried, posts, taken, mishaps, overlapped>>

InFlight == {c \in Calls : phase[c] # "idle"}

Init ==
  /\ webhook = "active"
  /\ origin = "none"
  /\ status = "none"
  /\ attempts = 0
  /\ retry = "null"
  /\ phase = [c \in Calls |-> "idle"]
  /\ carried = [c \in Calls |-> 0]
  /\ posts = 0
  /\ taken = {}
  /\ mishaps = 0
  /\ overlapped = FALSE

Goto(c, next) == phase' = [phase EXCEPT ![c] = next]

Mishap ==
  /\ mishaps < MaxMishaps
  /\ mishaps' = mishaps + 1

-----------------------------------------------------------------------------
(* The first attempt                                                       *)

\* fireWebhookEvent, or the test endpoint, finds the webhook.
Fire(c, from) ==
  /\ origin = "none"
  /\ webhook = "active"
  /\ origin' = from
  /\ Goto(c, "found")
  /\ UNCHANGED <<webhook, row, carried, posts, taken, mishaps, overlapped>>

\* createDelivery: status 'pending', attempts 0, next_retry_at NULL.  If the
\* webhook is gone the foreign key refuses the row, and the call ends.
CreateDelivery(c) ==
  /\ phase[c] = "found"
  /\ IF webhook = "active"
     THEN /\ status' = "pending"
          /\ attempts' = 0
          /\ retry' = "null"
          /\ carried' = [carried EXCEPT ![c] = 0]
          /\ Goto(c, "picked")
     ELSE /\ Goto(c, "idle")
          /\ UNCHANGED <<row, carried>>
  /\ UNCHANGED <<webhook, origin, posts, taken, mishaps, overlapped>>

-----------------------------------------------------------------------------
(* Retries                                                                 *)

\* Mutant of Tick: it takes every row that still has attempts left.
TickAnyRow(c) ==
  /\ phase[c] = "idle"
  /\ status # "none" /\ attempts < MAX_DELIVERY_ATTEMPTS
  /\ retry # "later"
  /\ carried' = [carried EXCEPT ![c] = attempts]
  /\ Goto(c, "picked")
  /\ overlapped' = (overlapped \/ InFlight # {})
  /\ UNCHANGED <<webhook, origin, row, posts, taken, mishaps>>

\* runRetries: a tick reads the pending rows that are due and starts a
\* processRetry for each; the row itself does not change.  A call may be in flight
\* already: the tick interval and the request timeout are both 10s.
Tick(c) ==
  /\ phase[c] = "idle"
  /\ status = "pending"
  /\ retry = "due"
  /\ carried' = [carried EXCEPT ![c] = attempts]
  /\ Goto(c, "picked")
  /\ overlapped' = (overlapped \/ InFlight # {})
  /\ UNCHANGED <<webhook, origin, row, posts, taken, mishaps>>

\* next_retry_at passes.
BecomeDue ==
  /\ retry = "later"
  /\ retry' = "due"
  /\ UNCHANGED <<webhook, origin, status, attempts, phase, carried, posts, taken, mishaps, overlapped>>

-----------------------------------------------------------------------------
(* attemptDelivery                                                         *)

Post(c) ==
  /\ phase[c] = "picked"
  /\ posts < MaxPosts
  /\ posts' = posts + 1
  /\ Goto(c, "posting")
  /\ UNCHANGED <<webhook, origin, row, carried, taken, mishaps, overlapped>>

\* A 2xx within DELIVERY_TIMEOUT_MS.
Accepted(c) ==
  /\ phase[c] = "posting"
  /\ taken' = taken \cup {"heard"}
  /\ Goto(c, "succeeded")
  /\ UNCHANGED <<webhook, origin, row, carried, posts, mishaps, overlapped>>

\* Another status, or the request never got there.
Refused(c) ==
  /\ phase[c] = "posting"
  /\ Goto(c, "refused")
  /\ UNCHANGED <<webhook, origin, row, carried, posts, taken, mishaps, overlapped>>

\* A request nobody waits for any more: the subscriber has taken it, takes it
\* later, or does not.
MaybeTaken == taken' = taken \/ taken' = taken \cup {"unheard"}

\* No answer in time: the request is aborted, or its connection breaks, which the
\* call does not tell from a refusal.
NoAnswer(c) ==
  /\ phase[c] = "posting"
  /\ MaybeTaken
  /\ Goto(c, "refused")
  /\ UNCHANGED <<webhook, origin, row, carried, posts, mishaps, overlapped>>

-----------------------------------------------------------------------------
(* What the call writes back.  Every UPDATE is by id alone: it touches      *)
(* nothing if the row is gone, and does not look at what the row says now. *)

Update(s, a, r) ==
  IF status = "none" THEN UNCHANGED row
  ELSE status' = s /\ attempts' = a /\ retry' = r

MarkDelivered(c) ==
  /\ phase[c] = "succeeded"
  /\ Update("delivered", carried[c] + 1, "null")
  /\ Goto(c, "idle")
  /\ UNCHANGED <<webhook, origin, carried, posts, taken, mishaps, overlapped>>

\* Mutants of LastAttempt: one attempt too many, and only the backoffs counted.
LastAttemptLate(c) == origin = "test" \/ carried[c] + 1 > MAX_DELIVERY_ATTEMPTS
LastAttemptEarly(c) == origin = "test" \/ carried[c] + 1 >= MAX_DELIVERY_ATTEMPTS - 1

\* Only an event is retried; the test endpoint gives up at once.
LastAttempt(c) == origin = "test" \/ carried[c] + 1 >= MAX_DELIVERY_ATTEMPTS

MarkFailed(c) ==
  /\ phase[c] = "refused"
  /\ LastAttempt(c)
  /\ Update("failed", carried[c] + 1, "null")
  /\ Goto(c, "idle")
  /\ UNCHANGED <<webhook, origin, carried, posts, taken, mishaps, overlapped>>

\* Mutant of ScheduleRetry: it writes back the count it read.
ScheduleSameCount(c) ==
  /\ phase[c] = "refused"
  /\ ~LastAttempt(c)
  /\ Update(status, carried[c], "later")
  /\ Goto(c, "idle")
  /\ UNCHANGED <<webhook, origin, carried, posts, taken, mishaps, overlapped>>

\* Mutant of ScheduleRetry: it sets the status too.
ScheduleReopens(c) ==
  /\ phase[c] = "refused"
  /\ ~LastAttempt(c)
  /\ Update("pending", carried[c] + 1, "later")
  /\ Goto(c, "idle")
  /\ UNCHANGED <<webhook, origin, carried, posts, taken, mishaps, overlapped>>

\* scheduleDeliveryRetry does not set the status.
ScheduleRetry(c) ==
  /\ phase[c] = "refused"
  /\ ~LastAttempt(c)
  /\ Update(status, carried[c] + 1, "later")
  /\ Goto(c, "idle")
  /\ UNCHANGED <<webhook, origin, carried, posts, taken, mishaps, overlapped>>

\* The UPDATE fails: the error is logged and the row stays as it is.
UpdateFails(c) ==
  /\ phase[c] \in {"succeeded", "refused"}
  /\ Mishap
  /\ Goto(c, "idle")
  /\ UNCHANGED <<webhook, origin, row, carried, posts, taken, overlapped>>

-----------------------------------------------------------------------------

\* DELETE /v1/webhooks/:id; its deliveries go with it.
DeleteWebhook ==
  /\ webhook = "active"
  /\ webhook' = "deleted"
  /\ status' = "none"
  /\ UNCHANGED <<origin, attempts, retry, phase, carried, posts, taken, mishaps, overlapped>>

\* A server process dies with the calls it has in flight, and restarts.
Crash(lost) ==
  /\ lost # {}
  /\ lost \subseteq InFlight
  /\ Mishap
  /\ phase' = [c \in Calls |-> IF c \in lost THEN "idle" ELSE phase[c]]
  /\ IF \E c \in lost : phase[c] = "posting" THEN MaybeTaken ELSE UNCHANGED taken
  /\ UNCHANGED <<webhook, origin, row, carried, posts, overlapped>>

\* A call's own next step: an await of it settles.
CallStep(c) ==
  \/ CreateDelivery(c) \/ Post(c) \/ Accepted(c) \/ Refused(c) \/ NoAnswer(c)
  \/ MarkDelivered(c) \/ MarkFailed(c) \/ ScheduleRetry(c) \/ UpdateFails(c)

Next ==
  \/ BecomeDue \/ DeleteWebhook
  \/ \E c \in Calls : Tick(c) \/ CallStep(c) \/ \E from \in {"event", "test"} : Fire(c, from)
  \/ \E lost \in SUBSET Calls : Crash(lost)

Spec == Init /\ [][Next]_vars

\* Requests are aborted after 10s and queries settle; the clock runs; setInterval
\* ticks for as long as some server is up.
FairSpec ==
  /\ Spec
  /\ WF_vars(BecomeDue)
  /\ WF_vars(\E c \in Calls : Tick(c))
  /\ \A c \in Calls : WF_vars(CallStep(c))

-----------------------------------------------------------------------------
(* Properties                                                              *)

TypeOK ==
  /\ webhook \in {"active", "deleted"}
  /\ origin \in {"none", "event", "test"}
  /\ status \in {"none", "pending", "delivered", "failed"}
  /\ attempts \in 0 .. MAX_DELIVERY_ATTEMPTS
  /\ retry \in {"null", "later", "due"}
  /\ phase \in [Calls -> {"idle", "found", "picked", "posting", "succeeded", "refused"}]
  /\ carried \in [Calls -> 0 .. MAX_DELIVERY_ATTEMPTS - 1]
  /\ posts \in 0 .. MaxPosts
  /\ taken \subseteq {"heard", "unheard"}
  /\ mishaps \in 0 .. MaxMishaps
  /\ overlapped \in BOOLEAN

\* However calls overlap, fail or die: an event is only given up after
\* MAX_DELIVERY_ATTEMPTS requests really went to the subscriber.
NoGivingUpEarly ==
  status = "failed" /\ origin = "event" => posts >= MAX_DELIVERY_ATTEMPTS

\* A delivery is only called delivered if the subscriber answered 2xx.
DeliveredWasAccepted == status = "delivered" => "heard" \in taken

\* types.ts: "Total attempts allowed: 1 initial + 3 retries = 4".  While calls do not
\* overlap, only a crash or a failed update costs the subscriber a request beyond
\* them, and each of them costs one.
RequestsBounded == ~overlapped => posts <= MAX_DELIVERY_ATTEMPTS + mishaps

Outcomes == {"delivered", "failed"}

\* An outcome is never taken back to pending, not even by a call that overlapped
\* (scheduleDeliveryRetry leaves the status).  While calls do not overlap, it is not
\* exchanged for the other either and the subscriber gets no request any more, over
\* crashes and failed updates.
OutcomeIsFinal ==
  [][(status \in Outcomes) =>
       /\ status' # "pending"
       /\ ~overlapped => status' \in {status, "none"} /\ posts' = posts]_<<row, posts>>

\* The row against the subscriber's side of the story.  Delivered means that the
\* subscriber answered 2xx.  Failed means, while calls do not overlap and every
\* update is made, that it never did: if it has taken the event after all, then by a
\* request whose answer came too late for Vane (attemptDelivery aborts, the retries
\* are refused).
OutcomeIsTrue ==
  /\ DeliveredWasAccepted
  /\ status = "failed" /\ ~overlapped /\ mishaps = 0 => taken \subseteq {"unheard"}

\* Every delivery is settled (or deleted with its webhook), over crashes, failed
\* updates and overlapping calls; but for one whose first attempt was lost before
\* it had scheduled a retry.
EveryDeliverySettles ==
  status = "pending" ~> \/ status # "pending"
                        \/ mishaps > 0 /\ retry = "null"
=============================================================================
