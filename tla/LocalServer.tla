---------------------------- MODULE LocalServer ----------------------------
(***************************************************************************)
(* LocalServer: the same handlers behind a queue of tasks and one worker,  *)
(* for clients in the same process.  A client creates a response, waits    *)
(* for it and destroys it; wire[r].done is its flag m_done.                *)
(***************************************************************************)
EXTENDS Server

VARIABLES
    started,     \* m_stop is constructed after the worker's thread: the worker
                 \* may read what was there before and leave
    tasks,       \* m_task_queue
    worker,      \* the response whose function the worker runs
    m_stop

localVars == << started, tasks, worker, m_stop >>
allVars   == << vars, localVars >>

LocalInit ==
    /\ Init
    /\ started \in BOOLEAN
    /\ tasks = << >>
    /\ worker = Nobody
    /\ m_stop = FALSE

\* create_completion_reponse, create_chat_response, create_model_response.
CreateResponse(r) ==
    /\ ~m_stop
    /\ Send(r)
    /\ tasks' = Append(tasks, r)
    /\ UNCHANGED << started, worker, m_stop >>

\* One turn of the loop of the worker, up to the call of m_func.
TakeTask(r) ==
    /\ started /\ ~m_stop
    /\ worker = Nobody
    /\ tasks # << >> /\ Head(tasks) = r
    /\ AnswerAtOnce(r) \/ Accept(r)
    /\ tasks' = Tail(tasks)
    /\ worker' = r
    /\ UNCHANGED << started, m_stop >>

\* set_chunked_content_provider calls the provider inside the handler, whose
\* catch answers what dump throws.  The session and its thread stay.
DumpCaught(r) ==
    /\ NotText(r)
    /\ out' = Dequeued(r)
    /\ wire' = [wire EXCEPT ![r] = Answered("exception")]
    /\ conn' = [conn EXCEPT ![r] = "answered"]
    /\ UNCHANGED << multimodel, process, request, gen, lock, registry, use, sessions >>

\* m_func returns.
EndTask(r) ==
    /\ worker = r
    /\ conn[r] = "answered"
    /\ worker' = Nobody
    /\ UNCHANGED << vars, started, tasks, m_stop >>

\* wait_response returned or poll_response said so, and the client deletes the
\* response while response_normal or response_error is about to write its
\* status.  Deleting it later changes nothing here.
DestroyResponse(r) ==
    /\ worker = r
    /\ wire[r].done
    /\ Stop("undefined")
    /\ UNCHANGED localVars

\* The destructor: the worker ends its task, and no other.
StopServer ==
    /\ ~m_stop
    /\ m_stop' = TRUE
    /\ UNCHANGED << vars, started, tasks, worker >>

Handle(r) == \/ FetchResult(r) \/ SendDone(r) \/ EraseSession(r) \/ JoinThread(r)
             \/ DumpCaught(r)

Work(r) == \/ TakeTask(r) \/ EndTask(r)
           \/ Handle(r) /\ UNCHANGED localVars

Run(r) == Infer(r) /\ UNCHANGED localVars

LocalNext ==
    /\ process = "up"
    /\ \/ \E r \in Requests : CreateResponse(r) \/ Work(r) \/ Run(r) \/ DestroyResponse(r)
       \/ StopServer

\* The worker and the threads of the sessions run.
LocalFairness ==
    /\ WF_allVars(process = "up" /\ \E r \in Requests : Work(r))
    /\ \A r \in Requests : WF_allVars(process = "up" /\ Run(r))

LocalSpec == LocalInit /\ [][LocalNext]_allVars /\ LocalFairness

-----------------------------------------------------------------------------

\* Sessions whose handler is gone while they are still there.
LeftBehind == { r \in sessions : conn[r] = "answered" }

\* The one worker of LocalServer: unless a session was left behind, nobody takes
\* over the cache of a model or destroys the context of a request that still
\* generates.
GenerationsDoNotMeet ==
    LeftBehind = {} =>
        \A r \in Requests :
            /\ gen[r] \in InUse => ref[r] = "live"
            /\ gen[r] = "forward" => \A f \in Parts(r) : owner[f] = r

\* LocalServer::wait_response: sooner or later every waiter has woken, whatever
\* is thrown in the handler, unless the worker left at once, the server is
\* destroyed first or the destructor of a thread pool spins: under the task the
\* worker has before this one, or in this one before its last chunk is in the
\* queue.  (An answer in one piece is set behind that destructor.)
EveryWaiterWakes ==
    <>[](\A r \in Requests : started /\ conn[r] # "unsent" =>
            \/ wire[r].done \/ m_stop \/ process # "up"
            \/ worker \in spinning \ {r}
            \/ r \in spinning /\ ~(request[r].stream /\ gen[r] = "closing"))

=============================================================================
