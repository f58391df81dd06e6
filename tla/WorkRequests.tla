---------------------------- MODULE WorkRequests ----------------------------
(***************************************************************************)
(* One work request of backend/src/modules/work-requests/service.ts: its   *)
(* submission, and calls that convert it to a work order, decide on it,    *)
(* set its status (backend/controllers/requests.ts) or delete it.          *)
(*                                                                         *)
(* Nothing here runs in a transaction.  Each handler reads the document,   *)
(* decides on what it read, and saves; mongoose sends only the paths the   *)
(* handler changed, whatever the document has become since.  A conversion  *)
(* creates the WorkOrder before it saves the request.  The process may die *)
(* between any two statements, and the client may call again.              *)
(***************************************************************************)
EXTENDS Naturals, FiniteSets

CONSTANTS
    Calls,      \* calls of the handlers
    NoOrder,    \* the request has no work order
    NoDoc,      \* the request is not created yet
    Failed      \* the call was answered with an error, or its answer was lost

Statuses == {"new", "reviewing", "accepted", "rejected", "converted", "closed", "deleted"}

\* Mutant: a schema that lets a status through that the document has not.
SettableByAny == Statuses \cup {"open"}

\* workRequestDecisionSchema and statusUpdateSchema.
Decisions == {"accepted", "rejected"}
Settable == {"new", "reviewing", "converted", "closed", "rejected"}

\* What a call asks for, with the status its save puts into the document.
Requests ==
    [op : {"convert"}, status : {"converted"}]
        \cup [op : {"decide"}, status : Decisions]
        \cup [op : {"set"}, status : Settable]
        \cup [op : {"delete"}, status : {"deleted"}]

\* A work order is named by the call that creates it: no call creates two.
DocType == [status : Statuses, link : Calls \cup {NoOrder}, deleted : BOOLEAN]

ASSUME TokensAssumption ==
    /\ NoOrder \notin Calls /\ Failed \notin Calls /\ NoOrder # Failed
    /\ NoDoc \notin DocType /\ NoDoc \notin Requests

VARIABLES
    doc,        \* the WorkRequest document
    portal,     \* how far its submission has come
    orders,     \* the work orders created for it
    pc, request,
    seen,       \* the document as the call read it
    answer      \* the work order the call was told of

vars == <<doc, portal, orders, pc, request, seen, answer>>

Init ==
    /\ doc = NoDoc
    /\ portal = "start"
    /\ orders = {}
    /\ pc = [c \in Calls |-> "idle"]
    /\ request = [c \in Calls |-> NoDoc]
    /\ seen = [c \in Calls |-> NoDoc]
    /\ answer = [c \in Calls |-> NoOrder]

Go(c, step) == pc' = [pc EXCEPT ![c] = step]

----------------------------------------------------------------------------

\* submitPublicRequest: the document is created and can be seen from here on.
Submit ==
    /\ portal = "start"
    /\ doc' = [status |-> "new", link |-> NoOrder, deleted |-> FALSE]
    /\ portal' = "created"
    /\ UNCHANGED <<orders, pc, request, seen, answer>>

\* A routing rule applies: the second save of the submission.
Route ==
    /\ portal = "created"
    /\ doc' = [doc EXCEPT !.status = "reviewing"]
    /\ portal' = "done"
    /\ UNCHANGED <<orders, pc, request, seen, answer>>

\* No rule applies (an internal request has none), or the process dies.
LeaveNew ==
    /\ portal = "created"
    /\ portal' = "done"
    /\ UNCHANGED <<doc, orders, pc, request, seen, answer>>

\* Mutant: the request is saved without waiting for its work order.
SaveAtOnce(r) == "save"

\* The statement a handler executes after its read.
FirstStep(r) == IF r.op = "convert" THEN "create" ELSE "save"

\* The early returns: a conversion of a linked request, and a decision on, or
\* a second deletion of, a deleted one.
Settled(r) ==
    \/ r.op = "convert" /\ doc.link # NoOrder
    \/ r.op \in {"decide", "delete"} /\ doc.deleted

\* findOne: the handler reads the request and goes on with what it read.
Read(c, r) ==
    /\ pc[c] = "idle"
    /\ doc # NoDoc
    /\ ~Settled(r)
    /\ Go(c, FirstStep(r))
    /\ request' = [request EXCEPT ![c] = r]
    /\ seen' = [seen EXCEPT ![c] = doc]
    /\ UNCHANGED <<doc, portal, orders, answer>>

\* The early return; a conversion answers with the work order that is linked.
ReturnEarly(c, r) ==
    /\ pc[c] = "idle"
    /\ doc # NoDoc
    /\ Settled(r)
    /\ Go(c, "done")
    /\ request' = [request EXCEPT ![c] = r]
    /\ answer' = [answer EXCEPT ![c] = IF r.op = "convert" THEN doc.link ELSE Failed]
    /\ UNCHANGED <<doc, portal, orders, seen>>

\* WorkOrder.create.
CreateOrder(c) ==
    /\ pc[c] = "create"
    /\ orders' = orders \cup {c}
    /\ Go(c, "save")
    /\ UNCHANGED <<doc, portal, request, seen, answer>>

\* Mutant: the save writes the whole document the handler has in memory.
SaveWhole(c) ==
    [status |-> request[c].status,
     link |-> IF request[c].op = "convert" THEN c ELSE seen[c].link,
     deleted |-> seen[c].deleted \/ request[c].op = "delete"]

\* The document after the save of c: only the paths c changed are sent.
Saved(c) ==
    [doc EXCEPT
        !.status = IF seen[c].status = request[c].status THEN @ ELSE request[c].status,
        !.link = IF request[c].op = "convert" THEN c ELSE @,
        !.deleted = @ \/ request[c].op = "delete"]

\* request.save.
Save(c) ==
    /\ pc[c] = "save"
    /\ doc' = Saved(c)
    /\ Go(c, "reply")
    /\ UNCHANGED <<portal, orders, request, seen, answer>>

\* The audit log is written and the handler answers.
Reply(c) ==
    /\ pc[c] = "reply"
    /\ answer' = [answer EXCEPT ![c] = IF request[c].op = "convert" THEN c ELSE Failed]
    /\ Go(c, "done")
    /\ UNCHANGED <<doc, portal, orders, request, seen>>

\* The process dies, or a statement fails: what was written stays.
Crash(c) ==
    /\ pc[c] \in {"create", "save", "reply"}
    /\ Go(c, "done")
    /\ answer' = [answer EXCEPT ![c] = Failed]
    /\ UNCHANGED <<doc, portal, orders, request, seen>>

Done ==
    /\ \A c \in Calls : pc[c] = "done"
    /\ portal = "done"
    /\ UNCHANGED vars

Next ==
    \/ Submit \/ Route \/ LeaveNew
    \/ \E c \in Calls, r \in Requests : Read(c, r) \/ ReturnEarly(c, r)
    \/ \E c \in Calls : CreateOrder(c) \/ Save(c) \/ Reply(c) \/ Crash(c)
    \/ Done

Spec == Init /\ [][Next]_vars

----------------------------------------------------------------------------

\* Every variable has its type.
TypeOK ==
    /\ doc \in DocType \cup {NoDoc}
    /\ portal \in {"start", "created", "done"}
    /\ orders \subseteq Calls
    /\ pc \in [Calls -> {"idle", "create", "save", "reply", "done"}]
    /\ request \in [Calls -> Requests \cup {NoDoc}]
    /\ seen \in [Calls -> DocType \cup {NoDoc}]
    /\ answer \in [Calls -> Calls \cup {NoOrder, Failed}]

\* The work order a request is linked to exists, and so does one that a caller
\* was told of, wherever a conversion was interrupted.
LinkedOrderExists ==
    /\ doc # NoDoc => doc.link \in orders \cup {NoOrder}
    /\ \A c \in Calls : answer[c] \in orders \cup {NoOrder, Failed}

\* Once a caller was told of a work order, the request stays linked to one, so
\* that a conversion sent again from then on creates nothing; no handler that
\* read the request before saves the missing link over it.
RetryFindsTheOrder ==
    (\E c \in Calls : answer[c] \in Calls) => doc.link # NoOrder

\* A deleted request stays deleted and a linked one linked, although the saves
\* of handlers that read the document earlier come later.
LinkAndDeletionStay ==
    [][doc # NoDoc => /\ doc.link # NoOrder => doc'.link # NoOrder
                      /\ doc.deleted => doc'.deleted]_vars

\* docs/work-requests.md: the check for a linked work order prevents duplicates.
AtMostOneOrder == Cardinality(orders) <= 1
=============================================================================
