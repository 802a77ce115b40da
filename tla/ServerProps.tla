---------------------------- MODULE ServerProps ----------------------------
(***************************************************************************)
(* What the queues of the server promise to a request, and promises of     *)
(* comments that the code does not keep.                                   *)
(***************************************************************************)
EXTENDS Server

Count(q, x) == Cardinality({k \in DOMAIN q : q[k] = x})

InHand(t) == main.pc = "process" /\ main.task = t

InQueues(id) == Count(queue_tasks, Completion(id)) + Count(queue_tasks_deferred, Completion(id))
                + (IF InHand(Completion(id)) THEN 1 ELSE 0)

OnSlots(id) == Cardinality({s \in Slots : IsProcessing(s) /\ slots[s].id_task = id})

Finals(id) == Count(send_buffer, Final(id)) + Count(queue_results, Final(id))

Places(id) == InQueues(id) + OnSlots(id) + Finals(id)

(***************************************************************************)
(* A task is in one place: queued, deferred, in the main thread's hand, on *)
(* one slot, or answered by one final result.  It is never run twice and   *)
(* never answered twice, whatever cancellations and failures do.           *)
(***************************************************************************)
TaskInOnePlace ==
    \A id \in AllIds : Places(id) <= 1

(***************************************************************************)
(* No task of a request that still waits is lost: what has been answered   *)
(* and what is on its way make up all its tasks.  (For a server whose      *)
(* decodes and samplers do not fail.)                                      *)
(***************************************************************************)
TasksConserved ==
    \A r \in Requests :
        hpc[r] \in {"posted", "recv"} =>
            n_finished[r] + Cardinality({id \in Ids(r) : Places(id) = 1}) = Cardinality(Ids(r))

(***************************************************************************)
(* queue_results holds results of waiting tasks only.  A result left       *)
(* behind by a finished or cancelled request would stay for ever: no       *)
(* thread asks for its id again.  (Where a stream's client has left before *)
(* the content provider ran, the code does leave some.)                    *)
(***************************************************************************)
ResultsHaveReaders ==
    \A k \in DOMAIN queue_results :
        LET id == queue_results[k].id
        IN  id \in waiting_task_ids \/ (Stream(id) /\ closed[id[1]])

(***************************************************************************)
(* The main thread may go to sleep only with every slot idle: a slot at    *)
(* work has a NEXT_RESPONSE task in the queue, and there is never more     *)
(* than one, so that a round of decoding is asked for once.                *)
(***************************************************************************)
Pending == Count(queue_tasks, NextResponse)

GenerationGoesOn ==
    /\ Pending <= 1
    /\ main.pc = "wait" /\ queue_tasks = <<>> => \A s \in Slots : ~ IsProcessing(s)

(***************************************************************************)
(* server.cpp:700: "Add a new task, but defer until one slot is            *)
(* available": when the main thread goes to sleep no task is deferred.     *)
(* Only a release brings a deferred task back, one at a time, and the slot *)
(* it needs may be another one.                                            *)
(***************************************************************************)
NothingStranded ==
    main.pc = "wait" /\ queue_tasks = <<>> => queue_tasks_deferred = <<>>

(***************************************************************************)
(* Every request that is received is answered or, when its client has      *)
(* left, cancelled.  An empty prompt is no exception in server.cpp:1383,   *)
(* "release the slot and send empty response".                             *)
(***************************************************************************)
Answered == \A r \in Requests : hpc[r] = "recv" ~> hpc[r] = "done"

(***************************************************************************)
(* The server comes to rest: once the requests are over, so is the work    *)
(* done for them.                                                          *)
(***************************************************************************)
Over == \A r \in Requests : hpc[r] \in {"new", "done"}

AtRest == (\A s \in Slots : ~ IsProcessing(s)) /\ queue_tasks_deferred = <<>>

ComesToRest ==
    [](Over => <>(~ Over \/ AtRest))

-----------------------------------------------------------------------------
(***************************************************************************)
(* server.cpp:666 and 686: "if this is cancel task make sure to clean up   *)
(* pending tasks".  Once the cancellation of a task has been carried out,  *)
(* the task is neither pending nor running.                                *)
(***************************************************************************)
CancelLeavesNothing ==
    \A r \in Requests :
        closed[r] /\ hpc[r] = "done" =>
            \A id \in Ids(r) :
                \/ Count(queue_tasks, Cancel(id)) > 0
                \/ InHand(Cancel(id))
                \/ InQueues(id) + OnSlots(id) = 0

(***************************************************************************)
(* server.cpp:816 and 820: "when the request is finished, we can remove    *)
(* task associated with it", "make sure to clean up all pending results":  *)
(* of a finished request no result stays in queue_results.                 *)
(***************************************************************************)
FinishedLeavesNothing ==
    \A r \in Requests : hpc[r] = "done" =>
        \A k \in DOMAIN queue_results : queue_results[k].id \notin Ids(r)
=============================================================================
