------------------------------- MODULE Outbox -------------------------------
(***************************************************************************)
(* shared/outbox/outbox.go: the outbox_events collection of one service    *)
(* (Store) and the goroutine that drains it (Relay).                       *)
(*                                                                         *)
(* One action per database or broker call: the goroutine can be            *)
(* interrupted by request goroutines, by a crash and by the broker between *)
(* any two of them.  The broker call itself is split into its start        *)
(* (RelayPublish) and its return (RelayPublishOk, RelayPublishErr); what   *)
(* the broker does in between is in EventBus, and Delivery composes them.  *)
(***************************************************************************)
EXTENDS Naturals

CONSTANTS
    Rows,      \* ids of outbox_events documents
    NoRow      \* "the relay holds no document"

ASSUME NoRowAssumption == NoRow \notin Rows

VARIABLES
    outbox,    \* [Rows -> RowStates]: the collection
    relayPc,   \* where RelayOnce is
    batch,     \* documents of the poll's cursor that are still to be visited
    cur        \* the document (ev) being published or marked

outboxVars == <<outbox, relayPc, batch, cur>>

(* absent: not inserted; queued: published_at is null; published: it is set *)
RowStates == {"absent", "queued", "published"}

RelayPcs == {"idle", "scan", "publishing", "mark"}

OutboxTypeOK ==
    /\ outbox \in [Rows -> RowStates]
    /\ relayPc \in RelayPcs
    /\ batch \in SUBSET Rows
    /\ cur \in Rows \cup {NoRow}
    /\ cur = NoRow <=> relayPc \in {"idle", "scan"}

OutboxInit ==
    /\ outbox = [r \in Rows |-> "absent"]
    /\ relayPc = "idle"
    /\ batch = {}
    /\ cur = NoRow

Unpublished == {r \in Rows : outbox[r] = "queued"}

-----------------------------------------------------------------------------
(* Store *)

(* InsertOne of a document whose published_at is nil *)
StoreEnqueue(r) ==
    /\ outbox[r] = "absent"
    /\ outbox' = [outbox EXCEPT ![r] = "queued"]
    /\ UNCHANGED <<relayPc, batch, cur>>

-----------------------------------------------------------------------------
(* Relay *)

(* A relay that forgets the {published_at: nil} filter of its poll. *)
RelayPollMutant ==
    /\ relayPc = "idle"
    /\ relayPc' = "scan"
    /\ batch' = {r \in Rows : outbox[r] # "absent"}
    /\ UNCHANGED <<outbox, cur>>

(* A tick of Run: Find({published_at: nil}).  A failing Find returns to the *)
(* ticker and changes nothing.  A poll of an empty collection goes straight *)
(* back to the ticker too.                                                  *)
RelayPoll ==
    /\ relayPc = "idle"
    /\ Unpublished # {}
    /\ relayPc' = "scan"
    /\ batch' = Unpublished
    /\ UNCHANGED <<outbox, cur>>

(* cursor.Next, Decode, and the call of Publish.  The Find has no sort, so  *)
(* the documents come in any order.                                         *)
RelayPublish(r) ==
    /\ relayPc = "scan"
    /\ r \in batch
    /\ relayPc' = "publishing"
    /\ cur' = r
    /\ batch' = batch \ {r}
    /\ UNCHANGED outbox

(* Publish returned nil *)
RelayPublishOk ==
    /\ relayPc = "publishing"
    /\ relayPc' = "mark"
    /\ UNCHANGED <<outbox, batch, cur>>

(* A relay that goes on to set published_at after a failed publish. *)
RelayPublishErrMutant ==
    /\ relayPc = "publishing"
    /\ relayPc' = "mark"
    /\ UNCHANGED <<outbox, batch, cur>>

(* Publish returned an error: logged, and on to the next document *)
RelayPublishErr ==
    /\ relayPc = "publishing"
    /\ relayPc' = "scan"
    /\ cur' = NoRow
    /\ UNCHANGED <<outbox, batch>>

(* UpdateByID(ev.ID, {$set: {published_at: now}}) *)
RelayMark ==
    /\ relayPc = "mark"
    /\ outbox' = [outbox EXCEPT ![cur] = "published"]
    /\ relayPc' = "scan"
    /\ cur' = NoRow
    /\ UNCHANGED batch

(* the update fails: only logged, the document will be polled again *)
RelayMarkErr ==
    /\ relayPc = "mark"
    /\ relayPc' = "scan"
    /\ cur' = NoRow
    /\ UNCHANGED <<outbox, batch>>

(* the cursor is exhausted, or broke off with an error: RelayOnce returns *)
RelayPassEnds ==
    /\ relayPc = "scan"
    /\ relayPc' = "idle"
    /\ batch' = {}
    /\ UNCHANGED <<outbox, cur>>

(* the process stops, and its next incarnation starts a relay at the ticker *)
RelayCrash ==
    /\ relayPc' = "idle"
    /\ batch' = {}
    /\ cur' = NoRow
    /\ UNCHANGED outbox

=============================================================================
