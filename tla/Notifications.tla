--------------------------- MODULE Notifications ---------------------------
(***************************************************************************)
(* notification-service at the end of the event path: the subscription to  *)
(* finora.budget.overspent (cmd/server/main.go), the handler that turns an *)
(* event into a notification (internal/service/overspend_consumer.go) and  *)
(* the requests that create notifications and mark them as read.           *)
(*                                                                         *)
(* Delivery brings the events: budget-service's outbox, the stream and the *)
(* durable consumer.  Here the handler's own step, the insert of a         *)
(* notification, comes between the start of the callback and its ack.      *)
(***************************************************************************)
EXTENDS Delivery

CONSTANTS
    Notes,     \* notification ids; bound: as many as are ever inserted
    NoteUsers, \* users
    Recipient, \* user_id of the events
    NoUser

ASSUME NotesAssumption == Recipient \in NoteUsers /\ NoUser \notin NoteUsers

VARIABLES
    notes,     \* [Notes -> notification documents]; seq 0: created by a request
    inserted,  \* "yes": the callback has inserted its notification
    malformed  \* messages whose payload json.Unmarshal refuses

noteVars == <<notes, inserted, malformed>>
allVars == <<vars, noteVars>>

NoteInit ==
    /\ Init
    /\ notes = [n \in Notes |-> [state |-> "free", seq |-> 0, user |-> NoUser]]
    /\ inserted = "no"
    /\ malformed \in SUBSET MsgIds

(* the payload in hand decodes to a BudgetOverspentEvent *)
Decodes == handling # 0 /\ stream[handling] \notin malformed

(* InsertOne under a new id, unread *)
InsertNote(n, s, u) ==
    /\ notes[n].state = "free"
    /\ notes' = [notes EXCEPT ![n] = [state |-> "unread", seq |-> s, user |-> u]]

-----------------------------------------------------------------------------
(* The callback *)

(* Create is called once more by the handler when it has reported an error. *)
HandleBudgetOverspentMutant(n) ==
    /\ Decodes /\ inserted = "no"
    /\ InsertNote(n, handling, Recipient)
    /\ inserted' \in {"yes", "no"}
    /\ UNCHANGED <<malformed, vars>>

(* notificationService.Create for the event in hand; sending the e-mail    *)
(* cannot fail it                                                          *)
HandleBudgetOverspent(n) ==
    /\ Decodes /\ inserted = "no"
    /\ InsertNote(n, handling, Recipient)
    /\ inserted' = "yes"
    /\ UNCHANGED <<malformed, vars>>

(* a payload that does not parse is logged and discarded: the callback      *)
(* returns nil, which acks it, and nothing is inserted                      *)
CallbackDiscard ==
    /\ ~Decodes
    /\ HandlerOk
    /\ UNCHANGED <<noteVars, producer, outboxVars>>

CallbackOk ==
    /\ inserted = "yes"
    /\ HandlerOk
    /\ inserted' = "no"
    /\ UNCHANGED <<notes, malformed, producer, outboxVars>>

(* An error of the insert is logged and swallowed. *)
CallbackErrMutant ==
    /\ Decodes /\ inserted = "no"
    /\ HandlerOk
    /\ UNCHANGED <<noteVars, producer, outboxVars>>

(* the insert fails and Create's error is returned *)
CallbackErr ==
    /\ Decodes /\ inserted = "no"
    /\ HandlerErr
    /\ UNCHANGED <<noteVars, producer, outboxVars>>

(* the insert takes effect and still reports an error *)
CallbackUnanswered(n) ==
    /\ Decodes /\ inserted = "no"
    /\ InsertNote(n, handling, Recipient)
    /\ HandlerErr
    /\ UNCHANGED <<inserted, malformed, producer, outboxVars>>

ServiceCrash ==
    /\ ConsumerCrash
    /\ inserted' = "no"
    /\ UNCHANGED <<notes, malformed, producer, outboxVars>>

-----------------------------------------------------------------------------
(* Requests *)

(* POST /notifications: for the caller only *)
CreateNote(u, n) ==
    /\ InsertNote(n, 0, u)
    /\ UNCHANGED <<inserted, malformed, vars>>

(* PATCH /notifications/:id/read: FindOneAndUpdate by _id and user_id *)
MarkRead(u, n) ==
    /\ notes[n].state # "free" /\ notes[n].user = u
    /\ notes' = [notes EXCEPT ![n].state = "read"]
    /\ UNCHANGED <<inserted, malformed, vars>>

-----------------------------------------------------------------------------

(* everything between budget-service and the callback *)
Path ==
    /\ \/ ProducerNext
       \/ /\ \/ \E m \in MsgIds : DedupLapse(m) \/ LateArrives(m) \/ LateLost(m)
             \/ AgeOut
             \/ \E s \in Seqs : \/ Deliver(s) \/ AckWaitExpires(s) \/ HandlerStart(s)
                                \/ AckArrives(s) \/ AckLost(s)
          /\ UNCHANGED <<producer, outboxVars>>
    /\ UNCHANGED noteVars

NoteNext ==
    \/ Path
    \/ \E n \in Notes : HandleBudgetOverspent(n) \/ CallbackUnanswered(n)
    \/ CallbackDiscard \/ CallbackOk \/ CallbackErr \/ ServiceCrash
    \/ \E u \in NoteUsers, n \in Notes : CreateNote(u, n) \/ MarkRead(u, n)

NoteSpec == NoteInit /\ [][NoteNext]_allVars

-----------------------------------------------------------------------------
(* Properties *)

NotesOf(s) == {n \in Notes : notes[n].state # "free" /\ notes[n].seq = s}

(* A message that the bus will not deliver again because it was            *)
(* acknowledged has left a notification behind, through redelivery, lost   *)
(* acks, failed inserts and crashes (overspend_consumer.go returns         *)
(* Create's error, so that the callback naks); the one exception is a      *)
(* payload that does not decode, which cmd/server/main.go acks on purpose. *)
AckedIsNotified ==
    \A s \in acked \cup ackWire : stream[s] \notin malformed => NotesOf(s) # {}

(* Redelivery repeats notifications, since none carries a key of its       *)
(* event, but not beyond the deliveries: one message never becomes more    *)
(* notifications than it was delivered, less the copies still in hand.     *)
NotesWithinDeliveries ==
    \A s \in Seqs : LET open == IF handling = s /\ inserted = "no" THEN 1 ELSE 0
                    IN  Cardinality(NotesOf(s)) + buffer[s] + open <= deliveries[s]

=============================================================================
