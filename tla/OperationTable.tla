---------------------------- MODULE OperationTable ----------------------------
(***************************************************************************)
(* operation.Manager (operation/opid.go, operation/web.go): the table of   *)
(* the operations a robot is serving, the handlers that cancel the others  *)
(* with their label before they move something, and the two RPCs that      *)
(* cancel operations through the table, CancelOperation and StopAll.       *)
(*                                                                         *)
(* A call is a goroutine that serves one RPC after another; the operation  *)
(* it creates is named after it.  The table is keyed by operation id, and  *)
(* the id arrives in the metadata of the RPC: an operation that makes two  *)
(* RPCs to the same robot makes them under one id.                         *)
(***************************************************************************)
EXTENDS Naturals, FiniteSets, Functions

CONSTANTS
    Rpc,       \* the goroutines that serve RPCs
    OpId,      \* operation ids
    Handler,   \* "move": a handler that claims the label; "stopAll"; "other"
    SharedId,  \* whether two RPCs may arrive with the same operation id
    Cancels,   \* whether clients call CancelOperation
    NoOp

ASSUME TableConstantsOK ==
    /\ NoOp \notin Rpc \union OpId
    /\ Handler \subseteq {"move", "stopAll", "other"}
    /\ SharedId \in BOOLEAN
    /\ Cancels \in BOOLEAN

VARIABLES
    ops,       \* m.ops: the operation listed under each id
    id,        \* the id of each running operation
    at, handler, \* where each call is, in which handler
    canceled,  \* who cancelled the operation's context: "no", "self", "other"
    labels,    \* the calls whose operation carries the label
    todo,      \* what is left of the snapshot a call goes through
    earlier,   \* history: the labelled operations that were in that snapshot
    stopped    \* history: how StopAll fared with a resource behind gRPC

tableVars == <<ops, id, at, handler, canceled, labels, todo, earlier, stopped>>

Running == {c \in Rpc : at[c] # "idle"}

TableTypeOK ==
    /\ ops \in [OpId -> Rpc \union {NoOp}]
    /\ id \in [Rpc -> OpId \union {NoOp}]
    /\ at \in [Rpc -> {"idle", "all", "each", "work"}]
    /\ handler \in [Rpc -> {"move", "stopAll", "other"}]
    /\ canceled \in [Rpc -> {"no", "self", "other"}]
    /\ labels \subseteq Rpc
    /\ todo \in [Rpc -> SUBSET Rpc]
    /\ earlier \in [Rpc -> SUBSET Rpc]
    /\ stopped \in [Rpc -> {"none", "yes", "failed"}]

TableInit ==
    /\ ops = [i \in OpId |-> NoOp]
    /\ id = [c \in Rpc |-> NoOp]
    /\ at = [c \in Rpc |-> "idle"]
    /\ handler = [c \in Rpc |-> "other"]
    /\ canceled = [c \in Rpc |-> "no"]
    /\ labels = {}
    /\ todo = [c \in Rpc |-> {}]
    /\ earlier = [c \in Rpc |-> {}]
    /\ stopped = [c \in Rpc |-> "none"]

-----------------------------------------------------------------------------

\* The interceptor creates an operation under the id of the metadata, or a new
\* one.  A duplicate is logged, and takes the place of the one listed.
createWithID(c, i, k) ==
    /\ at[c] = "idle"
    /\ SharedId \/ \A d \in Running : id[d] # i
    /\ ops' = [ops EXCEPT ![i] = c]
    /\ id' = [id EXCEPT ![c] = i]
    /\ handler' = [handler EXCEPT ![c] = k]
    /\ at' = [at EXCEPT ![c] = IF k = "other" THEN "work" ELSE "all"]
    /\ UNCHANGED <<canceled, labels, todo, earlier, stopped>>

AllNothing(c) ==
    /\ at[c] = "all"
    /\ todo' = [todo EXCEPT ![c] = {}]
    /\ earlier' = [earlier EXCEPT ![c] = (Range(ops) \ {NoOp, c}) \intersect labels]
    /\ at' = [at EXCEPT ![c] = "each"]
    /\ UNCHANGED <<ops, id, handler, canceled, labels, stopped>>

\* All: a copy of the table, taken under the lock.  A handler that claims the
\* label skips its own operation, StopAll does not.
All(c) ==
    /\ at[c] = "all"
    /\ LET listed == Range(ops) \ {NoOp}
           others == listed \ {c}
       IN  /\ todo' = [todo EXCEPT ![c] = IF handler[c] = "move" THEN others ELSE listed]
           /\ earlier' = [earlier EXCEPT ![c] = others \intersect labels]
    /\ at' = [at EXCEPT ![c] = "each"]
    /\ UNCHANGED <<ops, id, handler, canceled, labels, stopped>>

\* Operation.Cancel, of d by c.
Cancel(c, d) ==
    [canceled EXCEPT ![d] = IF @ = "no" THEN IF c = d THEN "self" ELSE "other"
                                        ELSE @]

\* One round of the loop over the copy: StopAll cancels every operation, a
\* handler those that carry the label by then.
CancelEach(c) ==
    /\ at[c] = "each"
    /\ \E d \in todo[c] :
         /\ todo' = [todo EXCEPT ![c] = @ \ {d}]
         /\ canceled' = IF handler[c] = "stopAll" \/ d \in labels
                        THEN Cancel(c, d) ELSE canceled
    /\ UNCHANGED <<ops, id, at, handler, labels, earlier, stopped>>

\* After the loop the handler puts the label on its own operation.
AddLabel(c) ==
    /\ at[c] = "each" /\ handler[c] = "move" /\ todo[c] = {}
    /\ labels' = labels \union {c}
    /\ at' = [at EXCEPT ![c] = "work"]
    /\ UNCHANGED <<ops, id, handler, canceled, todo, earlier, stopped>>

\* After the loop StopAll stops the resources with the context it was given;
\* over gRPC, to a module or a remote, a cancelled context gets nowhere.
StopResources(c) ==
    /\ at[c] = "each" /\ handler[c] = "stopAll" /\ todo[c] = {}
    /\ stopped' = [stopped EXCEPT ![c] = IF canceled[c] = "no" THEN "yes" ELSE "failed"]
    /\ at' = [at EXCEPT ![c] = "work"]
    /\ UNCHANGED <<ops, id, handler, canceled, labels, todo, earlier>>

\* The RPC returns: the entry under its id is deleted, whosever it is.  Another
\* call may still hold the operation in its copy; cancelling it changes nothing.
cleanup(c) ==
    /\ at[c] = "work"
    /\ ops' = [ops EXCEPT ![id[c]] = NoOp]
    /\ id' = [id EXCEPT ![c] = NoOp]
    /\ at' = [at EXCEPT ![c] = "idle"]
    /\ canceled' = [canceled EXCEPT ![c] = "no"]
    /\ labels' = labels \ {c}
    /\ todo' = [d \in Rpc |-> todo[d] \ {c}]
    /\ earlier' = [d \in Rpc |-> IF d = c THEN {} ELSE earlier[d] \ {c}]
    /\ stopped' = [stopped EXCEPT ![c] = "none"]
    /\ UNCHANGED handler

\* A client cancels the operation that is listed under an id.
CancelOperation(i) ==
    /\ Cancels
    /\ ops[i] # NoOp
    /\ canceled' = Cancel(NoOp, ops[i])
    /\ UNCHANGED <<ops, id, at, handler, labels, todo, earlier, stopped>>

TableNext ==
    \/ \E c \in Rpc, i \in OpId, k \in Handler : createWithID(c, i, k)
    \/ \E c \in Rpc : All(c) \/ CancelEach(c) \/ AddLabel(c)
                       \/ StopResources(c) \/ cleanup(c)
    \/ \E i \in OpId : CancelOperation(i)

TableSpec == TableInit /\ [][TableNext]_tableVars

-----------------------------------------------------------------------------
(* What holds *)

\* The table lists running operations only, each under its own id, also when
\* ids are shared: nothing stays behind to be cancelled or waited for.
ListedIsRunning ==
    \A i \in OpId : ops[i] # NoOp => ops[i] \in Running /\ id[ops[i]] = i

\* "All returns all running operations", which CancelOperation, StopAll and the
\* labels rely on: every running operation is listed.
AllAreListed ==
    \A c \in Running : ops[id[c]] = c

\* A handler that has claimed the label has cancelled every operation that
\* carried it, and still runs, when the handler took its copy of the table.
ClaimCancelsEarlier ==
    \A c \in labels : \A d \in earlier[c] : canceled[d] # "no"
=============================================================================
