------------------------------- MODULE Server -------------------------------
(***************************************************************************)
(* The server: ServerContext with its registry of models and its sessions, *)
(* stream_inference and blocking_inference, and the handlers of            *)
(* openai_api.hpp, run by the threads of the HTTP library.                 *)
(*                                                                         *)
(* A request is served by one thread of the library (conn).  The thread    *)
(* that generates (gen) is the same one when the answer is sent in one     *)
(* piece, and a thread of its own when it is streamed.                     *)
(***************************************************************************)
EXTENDS Utf8, FiniteSets, SequencesExt

CONSTANTS
    Requests,    \* the requests of a run
    Folders,     \* the model folders that exist
    Names,       \* the model names asked for: <<main>> or <<main, draft>>
    Budgets,     \* the values of max_tokens
    Pieces,      \* what tokens are as text
    PoolSize,    \* threads of the HTTP library
    MaxChunk,    \* ServerSession::MAX_CHUNK_SIZE
    Nobody

ASSUME ServerAssumption ==
    /\ IsFiniteSet(Requests) /\ Nobody \notin Requests
    /\ \A n \in Names : n \in Seq(Range(n)) /\ Len(n) \in {1, 2}
    /\ Budgets \subseteq Nat
    /\ Pieces \subseteq Seq(Bytes)
    /\ PoolSize \in Nat \ {0} /\ MaxChunk \in Nat \ {0}

VARIABLES
    multimodel,  \* POWERSERVE_SERVER_MULTIMODEL, fixed by the build
    process,     \* "up", or how it came to an end
    request,     \* request[r]: what r asks for
    conn,        \* conn[r]: where the thread that serves r is
    gen,         \* gen[r]: where the thread that generates for r is
    lock,        \* m_lock: who holds it across steps
    contexts,    \* m_context_slot_map: the names that are set up
    loaded,      \* m_model_map: the folders that are loaded
    backends,    \* ggml_backends of the platform
    ref,         \* ref[r]: the ModelContext& of r: "none", "live" or "dangling"
    owner,       \* owner[f]: who began the generation in f's cache
    pool,        \* the folders whose backend has a thread pool
    spinning,    \* the requests whose generating thread never comes back from
                 \* the destructor of a thread pool
    sessions,    \* m_session_map
    out,         \* out[r]: the locals of the inference and the result queue
    wire         \* wire[r]: the stream or the answer r's client gets

registry == << contexts, loaded, backends >>
use      == << ref, owner, pool, spinning >>
vars     == << multimodel, process, request, conn, gen, lock, registry, use,
               sessions, out, wire >>

Parts(r) == Range(request[r].name)
Plain(r) == Len(request[r].name) = 1    \* a ModelTokenIterator: no draft model, in
                                        \* the build for the NPU
Shares(r, s) == Parts(r) \cap Parts(s) # {}

ConnStates == {"unsent", "waiting", "inline", "poll", "end", "close", "join", "answered"}
InUse      == {"construct", "decode", "forward", "final", "closing", "unwind"}
GenStates  == {"none", "setup", "load", "exited"} \cup InUse
Stops      == {"none", "stop", "length", "exception"}
Chunks     == [text : Seq(Bytes), stop : Stops]
Outputs    == [step : Nat, text : Seq(Bytes), buffer : Seq(Bytes), queue : Seq(Chunks),
               stop : Stops]

Chunk(text, stop) == [text |-> text, stop |-> stop]
NoOutput == [step |-> 0, text |-> << >>, buffer |-> << >>, queue |-> << >>, stop |-> "none"]
NoAnswer == [text |-> << >>, stop |-> "none", done |-> FALSE]

\* (broken variant: nobody is told)
Unsignalled(stop) == [text |-> << >>, stop |-> stop, done |-> FALSE]

\* set_content, which ends the response of a LocalServer.
Answered(stop) == [text |-> << >>, stop |-> stop, done |-> TRUE]

Init ==
    /\ multimodel \in BOOLEAN
    /\ process = "up"
    /\ request = [r \in Requests |-> [name |-> << >>, stream |-> FALSE, max_tokens |-> 0]]
    /\ conn = [r \in Requests |-> "unsent"]
    /\ gen  = [r \in Requests |-> "none"]
    /\ lock = Nobody
    /\ contexts = {} /\ loaded = {} /\ backends = {}
    /\ ref = [r \in Requests |-> "none"]
    /\ owner = [f \in Folders |-> Nobody]
    /\ pool = {} /\ spinning = {}
    /\ sessions = {}
    /\ out  = [r \in Requests |-> NoOutput]
    /\ wire = [r \in Requests |-> NoAnswer]

-----------------------------------------------------------------------------
(* Handlers.                                                               *)

Send(r) ==
    /\ conn[r] = "unsent"
    /\ \E q \in [name : Names, stream : BOOLEAN, max_tokens : Budgets] :
          request' = [request EXCEPT ![r] = q]
    /\ conn' = [conn EXCEPT ![r] = "waiting"]
    /\ UNCHANGED << multimodel, process, gen, lock, registry, use, sessions, out, wire >>

Served == { r \in Requests : conn[r] \notin {"unsent", "waiting", "answered"} }

\* A request that does not parse and one for the list of models: neither
\* touches the state of the server.
AnswerAtOnce(r) ==
    /\ conn[r] = "waiting"
    /\ Cardinality(Served) < PoolSize
    /\ conn' = [conn EXCEPT ![r] = "answered"]
    /\ wire' = [wire EXCEPT ![r] = Answered("exception")]
    /\ UNCHANGED << multimodel, process, request, gen, lock, registry, use, sessions, out >>

\* The answer in one piece: completion() runs in the handler.
StartInline(r) ==
    /\ ~request[r].stream
    /\ conn' = [conn EXCEPT ![r] = "inline"]
    /\ gen'  = [gen EXCEPT ![r] = "setup"]
    /\ UNCHANGED << multimodel, process, request, lock, registry, use, sessions, out, wire >>

\* The content provider: setup_session, get_session and init.
StartSession(r) ==
    /\ request[r].stream
    /\ lock = Nobody
    /\ sessions' = sessions \cup {r}
    /\ conn' = [conn EXCEPT ![r] = "poll"]
    /\ gen'  = [gen EXCEPT ![r] = "setup"]
    /\ UNCHANGED << multimodel, process, request, lock, registry, use, out, wire >>

Accept(r) ==
    /\ conn[r] = "waiting"
    /\ Cardinality(Served) < PoolSize
    /\ StartInline(r) \/ StartSession(r)

-----------------------------------------------------------------------------
(* setup_model.  Whoever holds m_lock across steps is loading or joining.  *)

\* (broken variant: the session's thread swallows the exception)
ReportLost(r) ==
    /\ gen' = [gen EXCEPT ![r] = "exited"]
    /\ IF request[r].stream
       THEN UNCHANGED << conn, out, wire >>
       ELSE /\ conn' = [conn EXCEPT ![r] = "answered"]
            /\ wire' = [wire EXCEPT ![r] = Answered("exception")]
            /\ out'  = [out EXCEPT ![r] = NoOutput]

\* An exception reaches the catch of the session's thread, which puts it into
\* the queue, or that of the handler, which answers.  Its message is left out,
\* and so is the mark "[end of text]" of Finish and Whole.
Report(r) ==
    /\ gen' = [gen EXCEPT ![r] = "exited"]
    /\ IF request[r].stream
       THEN /\ out' = [out EXCEPT ![r].queue = Append(@, Chunk(<< >>, "exception")),
                                  ![r].stop = "exception"]
            /\ UNCHANGED << conn, wire >>
       ELSE /\ conn' = [conn EXCEPT ![r] = "answered"]
            /\ wire' = [wire EXCEPT ![r] = Answered("exception")]
            /\ out'  = [out EXCEPT ![r] = NoOutput]

SetupCached(r) ==
    /\ gen[r] = "setup"
    /\ lock = Nobody
    /\ request[r].name \in contexts
    /\ ref' = [ref EXCEPT ![r] = "live"]
    /\ gen' = [gen EXCEPT ![r] = "construct"]
    /\ UNCHANGED << multimodel, process, request, conn, lock, registry, owner, pool,
                    spinning, sessions, out, wire >>

\* (broken variant: the map of contexts is forgotten)
DestroyOnlyModels ==
    /\ loaded' = {}
    /\ backends' = backends \ loaded
    /\ pool' = pool \ loaded
    /\ ref' = [r \in Requests |-> IF ref[r] = "live" THEN "dangling" ELSE ref[r]]
    /\ UNCHANGED contexts

\* References into the registry dangle, and the backends of the models go with
\* their thread pools.
destroy_all_models_unsafe ==
    /\ contexts' = {} /\ loaded' = {}
    /\ backends' = backends \ loaded
    /\ pool' = pool \ loaded
    /\ ref' = [r \in Requests |-> IF ref[r] = "live" THEN "dangling" ELSE ref[r]]

\* The models in memory are given up before it is known whether those asked
\* for exist.
BeginLoad(r) ==
    /\ gen[r] = "setup"
    /\ lock = Nobody
    /\ request[r].name \notin contexts
    /\ IF multimodel THEN UNCHANGED << registry, pool, ref >> ELSE destroy_all_models_unsafe
    /\ IF Parts(r) \subseteq Folders
       THEN /\ gen' = [gen EXCEPT ![r] = "load"]
            /\ lock' = r
            /\ UNCHANGED << conn, out, wire >>
       ELSE /\ Report(r)
            /\ UNCHANGED lock
    /\ UNCHANGED << multimodel, process, request, owner, spinning, sessions >>

\* The folder that init_model loads next: the draft model after the main one.
Unloaded(r) == Parts(r) \ loaded
NextFolder(r) == IF Head(request[r].name) \in Unloaded(r)
                 THEN Head(request[r].name) ELSE Last(request[r].name)

\* (broken variant: filed under the name of the request)
LoadModelByName(r) ==
    /\ gen[r] = "load"
    /\ Unloaded(r) # {}
    /\ loaded' = loaded \cup {request[r].name}
    /\ backends' = backends \cup {NextFolder(r)}
    /\ UNCHANGED << multimodel, process, request, conn, gen, lock, contexts, use,
                    sessions, out, wire >>

\* init_model.  Platform::init_ggml_backend does not replace a backend that is
\* still there.
LoadModel(r) ==
    /\ gen[r] = "load"
    /\ Unloaded(r) # {}
    /\ loaded' = loaded \cup {NextFolder(r)}
    /\ backends' = backends \cup {NextFolder(r)}
    /\ UNCHANGED << multimodel, process, request, conn, gen, lock, contexts, use,
                    sessions, out, wire >>

\* It throws before or after it has made a backend.
LoadFails(r) ==
    /\ gen[r] = "load"
    /\ Unloaded(r) # {}
    /\ backends' \in {backends, backends \cup {NextFolder(r)}}
    /\ lock' = Nobody
    /\ Report(r)
    /\ UNCHANGED << multimodel, process, request, contexts, loaded, use, sessions >>

KeepContext(r) ==
    /\ gen[r] = "load"
    /\ Unloaded(r) = {}
    /\ contexts' = contexts \cup {request[r].name}
    /\ ref' = [ref EXCEPT ![r] = "live"]
    /\ gen' = [gen EXCEPT ![r] = "construct"]
    /\ lock' = Nobody
    /\ UNCHANGED << multimodel, process, request, conn, loaded, backends, owner, pool,
                    spinning, sessions, out, wire >>

-----------------------------------------------------------------------------
(* stream_inference and blocking_inference.                                *)

\* Generations of plain models use the thread pool of their backend.
RunsOn(r, s) == Plain(r) /\ Plain(s) /\ Shares(r, s)
PoolBusy(r) == \E s \in Requests \ {r} : gen[s] = "forward" /\ RunsOn(r, s)

Stop(how) ==
    /\ process' = how
    /\ UNCHANGED << multimodel, request, conn, gen, lock, registry, use, sessions, out, wire >>

\* What the context refers to is gone.
UseDestroyed(r) ==
    /\ gen[r] \in InUse
    /\ ref[r] = "dangling"
    /\ Stop("undefined")

\* The constructor of the iterator, prefill included, takes the cache over and
\* gives a plain model's backend a new thread pool.
Construct(r) ==
    /\ gen[r] = "construct"
    /\ ref[r] = "live"
    /\ request[r].max_tokens > 0
    /\ ~PoolBusy(r)
    /\ owner' = [f \in Folders |-> IF f \in Parts(r) THEN r ELSE owner[f]]
    /\ pool'  = IF Plain(r) THEN pool \cup Parts(r) ELSE pool
    /\ \/ /\ gen' = [gen EXCEPT ![r] = "decode"]
          /\ UNCHANGED << conn, ref, out, wire >>
       \/ /\ Report(r)                         \* the prompt does not fit
          /\ ref' = [ref EXCEPT ![r] = "none"]
    /\ UNCHANGED << multimodel, process, request, lock, registry, spinning, sessions >>

ConstructEmpty(r) ==
    /\ gen[r] = "construct"
    /\ ref[r] = "live"
    /\ request[r].max_tokens = 0
    /\ gen' = [gen EXCEPT ![r] = "decode"]
    /\ UNCHANGED << multimodel, process, request, conn, lock, registry, use, sessions, out, wire >>

\* The pool goes while its threads work.
LosePool(r) ==
    /\ \/ gen[r] = "construct" /\ request[r].max_tokens > 0
       \/ gen[r] \in {"closing", "unwind"}
    /\ ref[r] = "live"
    /\ PoolBusy(r)
    /\ Stop("undefined")

\* A call of next() up to the forward pass and ...
BeginForward(r) ==
    /\ gen[r] = "decode"
    /\ ref[r] = "live"
    /\ out[r].step < request[r].max_tokens
    /\ Plain(r) => Parts(r) \subseteq pool
    /\ ~PoolBusy(r)
    /\ gen' = [gen EXCEPT ![r] = "forward"]
    /\ UNCHANGED << multimodel, process, request, conn, lock, registry, use, sessions, out, wire >>

\* ... the assertion of ThreadPool::async_run (or worse, the pointer it looks at
\* is not atomic), or a pool that is not there.
ForwardAborts(r) ==
    /\ gen[r] = "decode"
    /\ ref[r] = "live"
    /\ out[r].step < request[r].max_tokens
    /\ \/ PoolBusy(r) /\ (Stop("aborted") \/ Stop("undefined"))
       \/ Plain(r) /\ ~(Parts(r) \subseteq pool) /\ Stop("undefined")

\* (broken variant: the buffer is not cleared)
PutAgain(o, piece) ==
    LET buffer == o.buffer \o piece
    IN  IF is_utf8_string_incomplete(buffer)
        THEN [o EXCEPT !.buffer = buffer]
        ELSE [o EXCEPT !.buffer = buffer, !.queue = Append(@, Chunk(buffer, "none"))]

\* What is streamed waits in the buffer until it ends with a whole character.
Put(o, piece) ==
    LET buffer == o.buffer \o piece
    IN  IF is_utf8_string_incomplete(buffer)
        THEN [o EXCEPT !.buffer = buffer]
        ELSE [o EXCEPT !.buffer = << >>, !.queue = Append(@, Chunk(buffer, "none"))]

Yield(r, o, piece) ==
    LET told == [o EXCEPT !.text = @ \o piece]
    IN  IF request[r].stream THEN Put(told, piece) ELSE told

\* ... and behind it: the first token is the last one of the prompt.
EndForward(r) ==
    /\ gen[r] = "forward"
    /\ ref[r] = "live"
    /\ LET o == [out[r] EXCEPT !.step = @ + 1]
       IN  \/ /\ out' = [out EXCEPT ![r] = o]          \* nothing to show
              /\ gen' = [gen EXCEPT ![r] = "decode"]
           \/ /\ o.step > 1
              /\ \E piece \in Pieces : out' = [out EXCEPT ![r] = Yield(r, o, piece)]
              /\ gen' = [gen EXCEPT ![r] = "decode"]
           \/ /\ o.step > 1
              /\ out' = [out EXCEPT ![r] = [o EXCEPT !.stop = "stop"]]
              /\ gen' = [gen EXCEPT ![r] = "final"]
           \/ /\ out' = [out EXCEPT ![r] = o]          \* the cache is full
              /\ gen' = [gen EXCEPT ![r] = "unwind"]
    /\ UNCHANGED << multimodel, process, request, conn, lock, registry, use, sessions, wire >>

\* Behind the loop: the last chunk of a stream says why it ends.
Finish(r) ==
    /\ ref[r] = "live"
    /\ LET stop == IF gen[r] = "final" THEN "stop" ELSE "length"
           last == Chunk(remove_incomplete_utf8_char(out[r].buffer), stop)
       IN  /\ \/ gen[r] = "final"
              \/ gen[r] = "decode" /\ out[r].step = request[r].max_tokens
           /\ out' = [out EXCEPT ![r].stop = stop,
                                 ![r].queue = IF request[r].stream THEN Append(@, last) ELSE @]
    /\ gen' = [gen EXCEPT ![r] = "closing"]
    /\ UNCHANGED << multimodel, process, request, conn, lock, registry, use, sessions, wire >>

\* The destructor of a plain model's iterator takes the thread pool away, when
\* that of the pool returns (see SpinAtEnd).
GiveBack(r) ==
    /\ ref[r] = "live"
    /\ ~PoolBusy(r)
    /\ pool' = IF Plain(r) THEN pool \ Parts(r) ELSE pool
    /\ ref' = [ref EXCEPT ![r] = "none"]

\* The answer in one piece always says "stop", also for one that was cut at
\* max_tokens; an error if json::dump does not take the text.
Whole(r) == Answered(IF IsText(remove_incomplete_utf8_char(out[r].text))
                     THEN "stop" ELSE "exception")

Close(r) ==
    /\ gen[r] = "closing"
    /\ GiveBack(r)
    /\ gen' = [gen EXCEPT ![r] = "exited"]
    /\ IF request[r].stream
       THEN UNCHANGED << conn, out, wire >>
       ELSE /\ conn' = [conn EXCEPT ![r] = "answered"]
            /\ wire' = [wire EXCEPT ![r] = Whole(r)]
            /\ out'  = [out EXCEPT ![r] = NoOutput]
    /\ UNCHANGED << multimodel, process, request, lock, registry, owner, spinning, sessions >>

\* An exception in next() destroys the iterator on its way.
Unwind(r) ==
    /\ gen[r] = "unwind"
    /\ GiveBack(r)
    /\ Report(r)
    /\ UNCHANGED << multimodel, process, request, lock, registry, owner, spinning, sessions >>

-----------------------------------------------------------------------------
(* The destructor of a thread pool raises m_exited and waits for the tickets *)
(* of all its threads.  One that is about to test m_exited leaves without     *)
(* its ticket, and the destructor spins for ever: nothing that comes behind   *)
(* it happens (ThreadPool.tla, DestructorReturns).                            *)

\* In reset_threadpool, which has cleared m_thread_pool before.
SpinAtEnd(r) ==
    /\ gen[r] \in {"closing", "unwind"}
    /\ ref[r] = "live"
    /\ Plain(r) /\ Parts(r) \cap pool # {}
    /\ ~PoolBusy(r)
    /\ pool' = pool \ Parts(r)
    /\ spinning' = spinning \cup {r}
    /\ UNCHANGED << multimodel, process, request, conn, gen, lock, registry, ref, owner,
                    sessions, out, wire >>

\* In setup_threadpool, for the pool that was left behind there; the new one is
\* in its place already.
SpinAtStart(r) ==
    /\ gen[r] = "construct"
    /\ ref[r] = "live"
    /\ request[r].max_tokens > 0
    /\ Plain(r) /\ Parts(r) \cap pool # {}
    /\ ~PoolBusy(r)
    /\ owner' = [f \in Folders |-> IF f \in Parts(r) THEN r ELSE owner[f]]
    /\ pool'  = pool \cup Parts(r)
    /\ spinning' = spinning \cup {r}
    /\ UNCHANGED << multimodel, process, request, conn, gen, lock, registry, ref,
                    sessions, out, wire >>

\* In destroy_all_models_unsafe, for the pool of a backend: m_lock is kept, some
\* backends are gone, and neither map is cleared.
SpinAtUnload(r) ==
    /\ gen[r] = "setup"
    /\ lock = Nobody
    /\ ~multimodel
    /\ request[r].name \notin contexts
    /\ \E destroyed \in SUBSET loaded :
          /\ destroyed \cap pool # {}
          /\ backends' = backends \ destroyed
          /\ pool' = pool \ destroyed
          /\ ref'  = [s \in Requests |-> IF ref[s] = "live" /\ Parts(s) \cap destroyed # {}
                                         THEN "dangling" ELSE ref[s]]
    /\ gen'  = [gen EXCEPT ![r] = "load"]
    /\ lock' = r
    /\ spinning' = spinning \cup {r}
    /\ UNCHANGED << multimodel, process, request, conn, contexts, loaded, owner,
                    sessions, out, wire >>

-----------------------------------------------------------------------------
(* The content provider: fetch_result, the sink and destroy_session.       *)

Fetchable(r) == SubSeq(out[r].queue, 1, IF Len(out[r].queue) < MaxChunk
                                        THEN Len(out[r].queue) ELSE MaxChunk)

\* (broken variant: the text of the last chunk alone)
MergedLast(chunks) == Last(chunks)

\* One answer from all the chunks there are, with the stop reason of the last.
Merged(chunks) ==
    Chunk(FlattenSeq([i \in DOMAIN chunks |-> chunks[i].text]), Last(chunks).stop)

Dequeued(r) == [out EXCEPT ![r].queue = SubSeq(@, Len(Fetchable(r)) + 1, Len(@))]

\* (broken variant: one result and the stream ends)
FetchOnce(r) ==
    /\ conn[r] = "poll"
    /\ Fetchable(r) # << >>
    /\ LET result == Merged(Fetchable(r))
       IN  /\ IsText(result.text)
           /\ wire' = [wire EXCEPT ![r].text = @ \o result.text, ![r].stop = result.stop]
           /\ conn' = [conn EXCEPT ![r] = "end"]
    /\ out' = Dequeued(r)
    /\ UNCHANGED << multimodel, process, request, gen, lock, registry, use, sessions >>

FetchResult(r) ==
    /\ conn[r] = "poll"
    /\ Fetchable(r) # << >>
    /\ LET result == Merged(Fetchable(r))
       IN  /\ IsText(result.text)
           /\ wire' = [wire EXCEPT ![r].text = @ \o result.text, ![r].stop = result.stop]
           /\ conn' = IF result.stop = "none" THEN conn ELSE [conn EXCEPT ![r] = "end"]
    /\ out' = Dequeued(r)
    /\ UNCHANGED << multimodel, process, request, gen, lock, registry, use, sessions >>

NotText(r) == conn[r] = "poll" /\ Fetchable(r) # << >> /\ ~IsText(Merged(Fetchable(r)).text)

\* json::dump throws, and nothing between here and the library's thread
\* catches it.
DumpThrows(r) == NotText(r) /\ Stop("terminated")

\* [DONE] and sink.done().
SendDone(r) ==
    /\ conn[r] = "end"
    /\ wire' = [wire EXCEPT ![r].done = TRUE]
    /\ conn' = [conn EXCEPT ![r] = "close"]
    /\ UNCHANGED << multimodel, process, request, gen, lock, registry, use, sessions, out >>

\* destroy_session erases the session, and that joins its thread, all with
\* m_lock held.
EraseSession(r) ==
    /\ conn[r] = "close"
    /\ lock = Nobody
    /\ lock' = r
    /\ conn' = [conn EXCEPT ![r] = "join"]
    /\ UNCHANGED << multimodel, process, request, gen, registry, use, sessions, out, wire >>

\* (broken variant: the thread is detached)
JoinDetached(r) ==
    /\ conn[r] = "join"
    /\ lock' = Nobody
    /\ sessions' = sessions \ {r}
    /\ conn' = [conn EXCEPT ![r] = "answered"]
    /\ out'  = [out EXCEPT ![r] = NoOutput]
    /\ wire' = [wire EXCEPT ![r].text = << >>, ![r].stop = "none"]
    /\ UNCHANGED << multimodel, process, request, gen, registry, use >>

JoinThread(r) ==
    /\ conn[r] = "join"
    /\ gen[r] = "exited"
    /\ lock' = Nobody
    /\ sessions' = sessions \ {r}
    /\ conn' = [conn EXCEPT ![r] = "answered"]
    /\ out'  = [out EXCEPT ![r] = NoOutput]
    /\ wire' = [wire EXCEPT ![r].text = << >>, ![r].stop = "none"]  \* the client has it
    /\ UNCHANGED << multimodel, process, request, gen, registry, use >>

-----------------------------------------------------------------------------

Serve(r)    == \/ AnswerAtOnce(r) \/ Accept(r)
               \/ FetchResult(r) \/ SendDone(r) \/ EraseSession(r) \/ JoinThread(r)
Setup(r)    == SetupCached(r) \/ BeginLoad(r) \/ LoadModel(r) \/ LoadFails(r) \/ KeepContext(r)
Generate(r) == \/ UseDestroyed(r) \/ Construct(r) \/ ConstructEmpty(r) \/ LosePool(r)
               \/ BeginForward(r) \/ ForwardAborts(r) \/ EndForward(r)
               \/ Finish(r) \/ Close(r) \/ Unwind(r)
Spin(r)     == SpinAtEnd(r) \/ SpinAtStart(r) \/ SpinAtUnload(r)

\* A step of the thread that generates for r, the handler's or the session's.
Infer(r)    == r \notin spinning /\ (Setup(r) \/ Generate(r) \/ Spin(r))

Next == /\ process = "up"
        /\ \E r \in Requests : Send(r) \/ Serve(r) \/ Infer(r) \/ DumpThrows(r)

\* Every thread runs; nobody is obliged to send anything.  Weak fairness is
\* enough: each thread takes a bounded number of steps, so that m_lock and the
\* threads of the library are taken for ever by nobody but a thread that spins.
Fairness == \A r \in Requests :
    /\ WF_vars(process = "up" /\ (Serve(r) \/ DumpThrows(r)))
    /\ WF_vars(process = "up" /\ Infer(r))

Spec == Init /\ [][Next]_vars /\ Fairness

-----------------------------------------------------------------------------
(* Properties.                                                             *)

TypeOK ==
    /\ process \in {"up", "aborted", "undefined", "terminated"}
    /\ conn \in [Requests -> ConnStates] /\ gen \in [Requests -> GenStates]
    /\ lock \in Requests \cup {Nobody}
    /\ contexts \subseteq Names
    /\ loaded \subseteq Folders /\ backends \subseteq Folders /\ pool \subseteq Folders
    /\ ref \in [Requests -> {"none", "live", "dangling"}]
    /\ owner \in [Folders -> Requests \cup {Nobody}]
    /\ sessions \subseteq Requests /\ spinning \subseteq Requests
    /\ out \in [Requests -> Outputs]
    /\ wire \in [Requests -> [text : Seq(Bytes), stop : Stops, done : BOOLEAN]]

\* setup_model and init_model: whenever nobody is in the middle of loading, a
\* name that will be found in the cache has all its models loaded and each of
\* them its backend, and a build for one model keeps one context at most,
\* whatever failed before.
RegistryConsistent ==
    lock = Nobody =>
        /\ \A n \in contexts : Range(n) \subseteq loaded
        /\ loaded \subseteq backends
        /\ multimodel \/ Cardinality(contexts) <= 1

\* destroy_session joins with m_lock held: the thread it waits for has left its
\* last chunk and will not ask for the lock any more, so that the two never wait
\* for each other.  It may still be in the destructor of its thread pool.
JoinIsSafe ==
    \A r \in Requests : conn[r] = "join" => lock = r /\ gen[r] \in {"closing", "exited"}

\* handler_completion, handler_chat: a stream that was ended with [DONE] holds
\* what the same tokens would have given in one piece; one that an exception
\* ended holds a part of it that ends with a whole character.
StreamIsAnswer ==
    \A r \in Requests : conn[r] \in {"close", "join"} =>
        /\ wire[r].stop = out[r].stop
        /\ IF out[r].stop = "exception"
           THEN IsPrefix(wire[r].text, out[r].text) /\ ~is_utf8_string_incomplete(wire[r].text)
           ELSE wire[r].text = remove_incomplete_utf8_char(out[r].text)

\* Where a request asks for m_lock, or will.
WantsLock(r) == conn[r] \in {"waiting", "close"} \/ gen[r] = "setup"

\* What a destructor that spins may do to r: all the threads of the library are
\* taken, or somebody else keeps m_lock, or it is r's own thread, and if that has
\* left its last chunk the client has got everything up to [DONE].
HeldUp(r) ==
    \/ conn[r] = "waiting" /\ Cardinality(spinning) >= PoolSize
    \/ WantsLock(r) /\ lock \in spinning \ {r}
    \/ r \in spinning /\ (request[r].stream /\ gen[r] = "closing" => wire[r].done)

\* handler_completion, handler_chat: sooner or later everybody who has asked is
\* answered, and a session ends although it is joined with m_lock held, unless
\* the process ends or the destructor of a thread pool spins.  That keeps one in
\* the ways of HeldUp and in no other: a request that has what it needs goes on
\* beside it, and a stream whose own thread spins behind its last chunk is told
\* to the end.
EveryRequestAnswered ==
    <>[](\A r \in Requests :
            conn[r] \in {"unsent", "answered"} \/ process # "up" \/ HeldUp(r))

\* "m_current_task == nullptr" (ThreadPool::async_run): a backend runs one task
\* at a time.
OneTaskAtATime == process # "aborted"

=============================================================================
