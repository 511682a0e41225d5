--------------------------- MODULE Collaboration ---------------------------
(***************************************************************************)
(* CollaborationEngine: delegation of tasks, reviews, questions.  Each     *)
(* changes what the engine knows at once, then waits for the message to be *)
(* recorded in the repository, and only then delivers it; recording may    *)
(* fail, and records of two messages may be written in either order.       *)
(*                                                                         *)
(* A message is identified by its kind and the millisecond; the record of  *)
(* a later message with the same identifier replaces the earlier one.      *)
(***************************************************************************)
EXTENDS Naturals, FiniteSets

CONSTANTS
  Colleagues, ReviewTasks, Nobody,
  LastMoment   \* bound: milliseconds

VARIABLES
  clock,
  owner, reviewer,   \* of a task, while it has an ownership record
  review,            \* of a task: developer and status
  sending,           \* messages that wait for their record
  recorded,          \* the repository: messages, one of an identifier
  inbox, outbox,     \* by worker: messages
  repairs            \* messages of rejection that the handler was called for
collabVars == <<clock, owner, reviewer, review, sending, recorded, inbox, outbox, repairs>>
desk == <<owner, reviewer, review>>
mail == <<recorded, inbox, outbox, repairs>>

NoReview == [developer |-> Nobody, status |-> "none"]

CollabInit ==
  /\ clock = 0
  /\ owner = [t \in ReviewTasks |-> Nobody] /\ reviewer = [t \in ReviewTasks |-> Nobody]
  /\ review = [t \in ReviewTasks |-> NoReview]
  /\ sending = {} /\ recorded = {} /\ repairs = {}
  /\ inbox = [w \in Colleagues |-> {}] /\ outbox = [w \in Colleagues |-> {}]

Message(kind, from, to, t) == [kind |-> kind, at |-> clock, from |-> from, to |-> to, task |-> t]
Id(m) == <<m.kind, m.at>>
SendMessage(m) == sending' = sending \cup {m} /\ UNCHANGED mail

ClockTicks ==
  clock < LastMoment /\ clock' = clock + 1 /\ UNCHANGED <<desk, sending, mail>>

\* assignOwner(), by the mission when it gives the task to a worker: no reviewer any more.
AssignOwner(t, w) ==
  /\ owner' = [owner EXCEPT ![t] = w] /\ reviewer' = [reviewer EXCEPT ![t] = Nobody]
  /\ UNCHANGED <<clock, review, sending, mail>>

\* Who delegates need not own the task, and a task without a record stays without.
DelegateTask(t, from, to) ==
  /\ owner' = [owner EXCEPT ![t] = IF @ = Nobody THEN @ ELSE to]
  /\ SendMessage(Message("del", from, to, t))
  /\ UNCHANGED <<clock, reviewer, review>>

RequestReview(t, developer, w) ==
  /\ review' = [review EXCEPT ![t] = [developer |-> developer, status |-> "PENDING"]]
  /\ reviewer' = [reviewer EXCEPT ![t] = IF owner[t] = Nobody THEN @ ELSE w]
  /\ SendMessage(Message("rev", developer, w, t))
  /\ UNCHANGED <<clock, owner>>

\* approveReview(), rejectReview(): by anybody.
Respond(kind, status, t, w) ==
  /\ review[t].status # "none"
  /\ review' = [review EXCEPT ![t].status = status]
  /\ SendMessage(Message(kind, w, review[t].developer, t))
  /\ UNCHANGED <<clock, owner, reviewer>>
ApproveReviewOf(t, w) == Respond("app", "APPROVED", t, w)
RejectReviewOf(t, w) == Respond("rej", "REJECTED", t, w)

\* Variant: the message is delivered, then recorded.
DeliveredThenRecorded(m) ==
  /\ sending' = sending \ {m}
  /\ outbox' = [outbox EXCEPT ![m.from] = @ \cup {m}]
  /\ inbox' = [inbox EXCEPT ![m.to] = @ \cup {m}]
  /\ \/ /\ recorded' = {r \in recorded : Id(r) # Id(m)} \cup {m}
        /\ repairs' = IF m.kind = "rej" THEN repairs \cup {m} ELSE repairs
     \/ UNCHANGED <<recorded, repairs>>
  /\ UNCHANGED <<clock, desk>>

\* The rest of sendMessage() once the record is written, and what its caller does
\* then; or recordMessage() failed and the caller with it.
Recorded(m) ==
  /\ sending' = sending \ {m}
  /\ \/ /\ recorded' = {r \in recorded : Id(r) # Id(m)} \cup {m}
        /\ outbox' = [outbox EXCEPT ![m.from] = @ \cup {m}]
        /\ inbox' = [inbox EXCEPT ![m.to] = @ \cup {m}]
        /\ repairs' = IF m.kind = "rej" THEN repairs \cup {m} ELSE repairs
     \/ UNCHANGED mail
  /\ UNCHANGED <<clock, desk>>

CollabNext ==
  \/ ClockTicks
  \/ \E t \in ReviewTasks, v, w \in Colleagues :
       DelegateTask(t, v, w) \/ RequestReview(t, v, w)
  \/ \E t \in ReviewTasks, w \in Colleagues :
       AssignOwner(t, w) \/ ApproveReviewOf(t, w) \/ RejectReviewOf(t, w)
  \/ \E m \in sending : Recorded(m)

CollabSpec == CollabInit /\ [][CollabNext]_collabVars

-----------------------------------------------------------------------------
(* Properties.                                                             *)

\* What anybody was told is on record, unless a message of its kind was sent in
\* the same millisecond; and a task is repaired only when the developer of its
\* review was told of the rejection, and the rejection is on record.
DeliveredIsRecorded ==
  \A w \in Colleagues :
    /\ \A m \in inbox[w] \cup outbox[w] :
         \/ m \in recorded
         \/ \E r \in recorded : r # m /\ Id(r) = Id(m)
    /\ \A m \in repairs : m.to = w => m \in inbox[w]
=============================================================================
