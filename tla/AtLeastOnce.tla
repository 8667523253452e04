---------------------------- MODULE AtLeastOnce ----------------------------
(***************************************************************************)
(* What the outbox, the relay and the event bus together promise to the    *)
(* services on either side: an event may be lost between its domain write  *)
(* and the outbox insert, and nowhere else; once it is enqueued it is      *)
(* handled at least once or it is given up after its last permitted        *)
(* delivery; nothing is handled that was not enqueued.                     *)
(***************************************************************************)
CONSTANTS Rows, MsgIds, MsgOf

VARIABLES
    fate,      \* [Rows -> {"none", "written", "enqueued", "lost"}]
    handled,   \* ids whose handler has succeeded
    dropped    \* ids with a message that was given up

promiseVars == <<fate, handled, dropped>>

(* the ids that have been accepted for delivery *)
Accepted == {MsgOf[r] : r \in {q \in Rows : fate[q] = "enqueued"}}

PromiseInit ==
    /\ fate = [r \in Rows |-> "none"]
    /\ handled = {}
    /\ dropped = {}

Write(r) ==
    /\ fate[r] = "none"
    /\ fate' = [fate EXCEPT ![r] = "written"]
    /\ UNCHANGED <<handled, dropped>>

Accept(r) ==
    /\ fate[r] = "written"
    /\ fate' = [fate EXCEPT ![r] = "enqueued"]
    /\ UNCHANGED <<handled, dropped>>

Lose ==
    /\ \A r \in Rows : fate'[r] # fate[r] => fate[r] = "written" /\ fate'[r] = "lost"
    /\ DOMAIN fate' = Rows
    /\ UNCHANGED <<handled, dropped>>

Handle(m) ==
    /\ m \in Accepted
    /\ handled' = handled \cup {m}
    /\ UNCHANGED <<fate, dropped>>

(* one step can give up several messages: a crash of the consumer *)
GiveUp ==
    /\ dropped \subseteq dropped'
    /\ dropped' \subseteq Accepted
    /\ UNCHANGED <<fate, handled>>

PromiseNext ==
    \/ \E r \in Rows : Write(r) \/ Accept(r)
    \/ Lose
    \/ \E m \in MsgIds : Handle(m)
    \/ GiveUp

PromiseSpec == PromiseInit /\ [][PromiseNext]_promiseVars

(* every accepted event is settled in the end *)
EventuallySettled ==
    \A m \in MsgIds : m \in Accepted ~> m \in handled \cup dropped

=============================================================================
