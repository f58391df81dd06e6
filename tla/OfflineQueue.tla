---------------------------- MODULE OfflineQueue ----------------------------
(***************************************************************************)
(* The offline queue of the web client, frontend/src/utils/offlineQueue.ts: *)
(* requests made while the server cannot be reached are kept in            *)
(* localStorage and sent again by flushQueue, which the `online` event and *)
(* the sync manager both call.                                             *)
(*                                                                         *)
(* A flush works on the queue it loaded at its start.  It is suspended     *)
(* while a request is under way; meanwhile the user can add requests, the  *)
(* other caller can start a flush, and the page can be closed.  The server *)
(* may apply a request whose answer is lost.                               *)
(*                                                                         *)
(* The queue reaches localStorage through utils/safeLocalStorage.ts: once  *)
(* an access fails (the storage is full, or may not be used) everything    *)
(* the page reads and writes from then on is a Map in its memory, while    *)
(* localStorage stays as it was.  No error comes back, so that the branch  *)
(* of saveQueue for a full storage, which drops the oldest requests, is    *)
(* never taken and is not modelled.                                        *)
(***************************************************************************)
EXTENDS Naturals, Sequences, SequencesExt

CONSTANTS
    Flushes,        \* the callers of flushQueue in one page
    Items,          \* the requests the user makes
    MaxRetries,     \* MAX_QUEUE_RETRIES; retries are counted up to it
    StorageMayFail, \* whether accesses to localStorage may fail
    MaxLosses       \* bound: pages are closed and answers lost below it

ASSUME QueueAssumption ==
    /\ MaxRetries \in Nat \ {0}
    /\ StorageMayFail \in BOOLEAN
    /\ MaxLosses \in Nat

\* A queued request; `waits` is a nextAttempt that may lie in the future.
EntryType == [id : Items, retries : 0..MaxRetries, waits : BOOLEAN]

VARIABLES
    disk,           \* the queue in localStorage
    memory,         \* the queue in the Map of the page
    native,         \* whether the page uses localStorage still
    added,          \* the requests made so far
    applied,        \* how often the server applied each of them
    lost,           \* for each request, the answers localStorage knows nothing of
    isFlushing,
    pc,             \* what each flush is doing
    queue,          \* the queue it loaded
    index,          \* the entry it is at
    remaining       \* the entries it puts back

page == <<isFlushing, pc, queue, index, remaining>>
storage == <<disk, memory, native>>
vars == <<storage, added, applied, lost, page>>

Ids(q) == {q[i].id : i \in DOMAIN q}

\* What getItem answers.
Stored == IF native THEN disk ELSE memory

\* setItem and removeItem: a write that fails goes to the memory, and the page
\* stays there.  Removing needs no room, so clearing the queue does not fail.
SaveQueue(q) ==
    \/ /\ native
       /\ disk' = q
       /\ UNCHANGED <<memory, native>>
    \/ /\ native /\ StorageMayFail /\ q # <<>>
       /\ memory' = q
       /\ native' = FALSE
       /\ UNCHANGED disk
    \/ /\ ~native
       /\ memory' = q
       /\ UNCHANGED <<disk, native>>

\* The probe of a page that is opened.
Probed == IF StorageMayFail THEN BOOLEAN ELSE {TRUE}

Init ==
    /\ disk = <<>>
    /\ memory = <<>>
    /\ native \in Probed
    /\ added = {}
    /\ applied = [x \in Items |-> 0]
    /\ lost = [x \in Items |-> 0]
    /\ isFlushing = FALSE
    /\ pc = [f \in Flushes |-> "idle"]
    /\ queue = [f \in Flushes |-> <<>>]
    /\ index = [f \in Flushes |-> 1]
    /\ remaining = [f \in Flushes |-> <<>>]

----------------------------------------------------------------------------

\* addToQueue.
Add(x) ==
    /\ x \notin added
    /\ added' = added \cup {x}
    /\ SaveQueue(Append(Stored, [id |-> x, retries |-> 0, waits |-> FALSE]))
    /\ UNCHANGED <<applied, lost, page>>

\* retryFailedRequests: requests that have used up their retries get one more.
\* The queue is written back if none has, too.
RetryFailed ==
    /\ Stored # <<>>
    /\ SaveQueue([i \in DOMAIN Stored |->
           IF Stored[i].retries = MaxRetries
           THEN [Stored[i] EXCEPT !.retries = MaxRetries - 1, !.waits = FALSE]
           ELSE Stored[i]])
    /\ UNCHANGED <<added, applied, lost, page>>

\* Another part of the page fails to write its own key: the queue in memory, which
\* the page now uses, is empty.
OtherWriteFails ==
    /\ native
    /\ StorageMayFail
    /\ native' = FALSE
    /\ UNCHANGED <<disk, memory, added, applied, lost, page>>

MayAlwaysStart == TRUE      \* mutant: flushes may overlap

MayStart == ~isFlushing

\* flushQueue loads the queue; nothing happens if another flush is running or
\* the queue is empty.
Start(f) ==
    /\ pc[f] = "idle"
    /\ MayStart
    /\ Stored # <<>>
    /\ isFlushing' = TRUE
    /\ pc' = [pc EXCEPT ![f] = "loop"]
    /\ queue' = [queue EXCEPT ![f] = Stored]
    /\ index' = [index EXCEPT ![f] = 1]
    /\ remaining' = [remaining EXCEPT ![f] = <<>>]
    /\ UNCHANGED <<storage, added, applied, lost>>

Current(f) == queue[f][index[f]]

InLoop(f) == pc[f] = "loop" /\ index[f] <= Len(queue[f])

Advance(f) ==
    /\ pc' = [pc EXCEPT ![f] = "loop"]
    /\ index' = [index EXCEPT ![f] = @ + 1]

\* The entry is not due: it is put back unchanged.
Skip(f) ==
    /\ InLoop(f)
    /\ Current(f).waits
    /\ Advance(f)
    /\ remaining' = [remaining EXCEPT ![f] = Append(@, Current(f))]
    /\ UNCHANGED <<storage, added, applied, lost, isFlushing, queue>>

\* The request is sent; an entry that waited may be due by now.
Send(f) ==
    /\ InLoop(f)
    /\ pc' = [pc EXCEPT ![f] = "sent"]
    /\ UNCHANGED <<storage, added, applied, lost,
                   isFlushing, queue, index, remaining>>

\* The server applies the request.
Apply(f) ==
    /\ pc[f] = "sent"
    /\ applied' = [applied EXCEPT ![Current(f).id] = @ + 1]
    /\ pc' = [pc EXCEPT ![f] = "applied"]
    /\ UNCHANGED <<storage, added, lost, isFlushing, queue, index, remaining>>

\* Mutant: the entries put back are forgotten.
OnlyTheRest(f) == SubSeq(queue[f], index[f] + 1, Len(queue[f]))

\* Mutant: the entries already passed are put back once more.
AllOfIt(f) == remaining[f] \o queue[f]

\* What a flush leaves in the storage after a request that succeeded.
ToPersist(f) == remaining[f] \o SubSeq(queue[f], index[f] + 1, Len(queue[f]))

\* The answer arrives: the entries not yet sent replace the stored queue.  If that
\* does not reach localStorage, the next page finds the request there again.
Succeed(f) ==
    /\ pc[f] = "applied"
    /\ SaveQueue(ToPersist(f))
    /\ lost' = [lost EXCEPT ![Current(f).id] = IF Current(f).id \in Ids(disk') THEN @ + 1 ELSE @]
    /\ Advance(f)
    /\ UNCHANGED <<added, applied, isFlushing, queue, remaining>>

\* The catch branch: the entry is put back with a later attempt, in memory only.
PutBack(f) ==
    LET n == Current(f).retries
    IN  remaining' = [remaining EXCEPT ![f] =
            Append(@, [id |-> Current(f).id, waits |-> TRUE,
                       retries |-> IF n < MaxRetries THEN n + 1 ELSE n])]

\* The server refuses the request (a conflict is one case) or is not reached.
Fail(f) ==
    /\ pc[f] = "sent"
    /\ PutBack(f)
    /\ Advance(f)
    /\ UNCHANGED <<storage, added, applied, lost, isFlushing, queue>>

Losses == FoldFunction(LAMBDA a, b : a + b, 0, lost)

\* The server has applied the request, but the answer does not arrive.
LoseAnswer(f) ==
    /\ pc[f] = "applied"
    /\ Losses < MaxLosses
    /\ lost' = [lost EXCEPT ![Current(f).id] = @ + 1]
    /\ PutBack(f)
    /\ Advance(f)
    /\ UNCHANGED <<storage, added, applied, isFlushing, queue>>

\* The end of the loop, with the finally block.
Finish(f) ==
    /\ pc[f] = "loop"
    /\ index[f] > Len(queue[f])
    /\ pc' = [pc EXCEPT ![f] = "idle"]
    /\ isFlushing' = FALSE
    /\ UNCHANGED <<storage, added, applied, lost, queue, index, remaining>>

\* The page is closed and opened again: only localStorage survives, and the new
\* page may be unable to use it.
Reload ==
    /\ Losses < MaxLosses
    /\ memory' = <<>>
    /\ native' \in Probed
    /\ lost' = [x \in Items |->
           lost[x] + IF \E f \in Flushes : pc[f] = "applied" /\ Current(f).id = x
                     THEN 1 ELSE 0]
    /\ isFlushing' = FALSE
    /\ pc' = [f \in Flushes |-> "idle"]
    /\ queue' = [f \in Flushes |-> <<>>]
    /\ index' = [f \in Flushes |-> 1]
    /\ remaining' = [f \in Flushes |-> <<>>]
    /\ UNCHANGED <<disk, added, applied>>

Flush(f) ==
    Start(f) \/ Skip(f) \/ Send(f) \/ Apply(f) \/ Succeed(f)
        \/ Fail(f) \/ LoseAnswer(f) \/ Finish(f)

\* The user has made all requests and the queue is empty.
Idle ==
    /\ added = Items /\ Stored = <<>> /\ ~isFlushing
    /\ UNCHANGED vars

Next ==
    \/ \E x \in Items : Add(x)
    \/ \E f \in Flushes : Flush(f)
    \/ RetryFailed \/ OtherWriteFails \/ Reload \/ Idle

Spec == Init /\ [][Next]_vars

----------------------------------------------------------------------------

QueueType(q) == q \in Seq(EntryType) /\ IsInjective([i \in DOMAIN q |-> q[i].id])

\* Every variable has its type; no queue holds a request twice.
TypeOK ==
    /\ QueueType(disk) /\ QueueType(memory) /\ native \in BOOLEAN
    /\ added \subseteq Items
    /\ applied \in [Items -> Nat] /\ lost \in [Items -> Nat]
    /\ isFlushing \in BOOLEAN
    /\ pc \in [Flushes -> {"idle", "loop", "sent", "applied"}]
    /\ queue \in [Flushes -> Seq(EntryType)]
    /\ index \in [Flushes -> Nat]
    /\ remaining \in [Flushes -> Seq(EntryType)]

\* A flush never takes a request out of the queue that the server has not
\* applied: what it still has to send, or has failed to send, is in localStorage,
\* or in the memory of a page that can write nowhere else.
UnsentIsStored ==
    \A f \in Flushes : pc[f] # "idle" =>
        \A x \in Ids(remaining[f]) \cup Ids(SubSeq(queue[f], index[f], Len(queue[f]))) :
            applied[x] = 0 => x \in Ids(disk) \/ (~native /\ x \in Ids(memory))

\* The server applies a request again only if localStorage knows nothing of the
\* answer to it: it did not arrive, or what it changed was saved to memory only.
\* The two callers of flushQueue never send the same entry, and two pages only an
\* entry that the first could not take out.
AppliedOncePerAnswer == \A x \in Items : applied[x] <= 1 + lost[x]

\* frontend/src/test/offlineQueue.test.ts, "preserves new requests added during a
\* flush": a request that was made is stored until the server has applied it.
AddedIsKept == \A x \in added : applied[x] > 0 \/ x \in Ids(disk) \cup Ids(memory)
=============================================================================
