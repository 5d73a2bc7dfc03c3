---------------------------- MODULE ServerProofs ----------------------------
(***************************************************************************)
(* Proofs about Server, for any number of requests, models and threads:    *)
(* the registry of models, the join that destroy_session does under the    *)
(* lock, and the text that a stream has told when it ends.  Then about     *)
(* LocalServer, where the same invariants hold and one worker keeps the    *)
(* generations and the tasks of a thread pool apart.                       *)
(***************************************************************************)
EXTENDS LocalServer, SequenceTheorems, FiniteSetTheorems, WellFoundedInduction, TLAPS

\* What the proofs need to know about types.
Typed ==
    /\ lock \in Requests \cup {Nobody}
    /\ spinning \subseteq Requests
    /\ conn \in [Requests -> ConnStates]
    /\ gen \in [Requests -> GenStates]
    /\ out \in [Requests -> Outputs]

\* Nothing in the queue ends the stream.
NoStop(queue) == \A i \in DOMAIN queue : queue[i].stop = "none"

Past == {"closing", "exited"}

\* Where the two threads of a request can be: a stream is told to end only when
\* the thread that generates has nothing left to do that needs the lock.
ThreadsInStep(r) ==
    /\ conn[r] \in {"unsent", "waiting"} => gen[r] = "none"
    /\ gen[r] = "none" => out[r].queue = << >>
    /\ gen[r] \notin Past => NoStop(out[r].queue)
    /\ conn[r] \in {"end", "close", "join"} => gen[r] \in Past

\* Who holds m_lock across steps.
LockHeld(r) == /\ conn[r] = "join" => lock = r
               /\ gen[r] = "load" => lock = r

\* The registry, in the middle of loading too.  A thread that spins between
\* destroying the backends and clearing the maps keeps the lock for ever.
RegistryInv ==
    /\ \A n \in contexts : Range(n) \subseteq loaded
    /\ loaded \subseteq backends \/ \E r \in spinning : gen[r] = "load"
    /\ ~multimodel => \A m, n \in contexts : m = n
    /\ ~multimodel => \A r \in Requests : gen[r] = "load" => contexts = {} \/ r \in spinning

IInv == /\ Typed
        /\ \A r \in Requests : ThreadsInStep(r) /\ LockHeld(r)
        /\ RegistryInv

-----------------------------------------------------------------------------
(* The result queue.                                                       *)

\* A chunk that ends nothing keeps the queue free of ends.
LEMMA AppendKeepsNoStop ==
  ASSUME NEW q \in Seq(Chunks), NEW c \in Chunks, c.stop = "none", NoStop(q)
  PROVE  NoStop(Append(q, c))
<1> QED
  BY DEF NoStop

\* What is left in the queue behind the first n chunks.
LEMMA RestKeepsNoStop ==
  ASSUME NEW q \in Seq(Chunks), NEW n \in 0..Len(q), NoStop(q)
  PROVE  /\ SubSeq(q, n + 1, Len(q)) \in Seq(Chunks)
         /\ NoStop(SubSeq(q, n + 1, Len(q)))
<1> QED
  BY DEF NoStop

\* Chunks that end nothing merge to one that does not, either.
LEMMA MergedNoStop ==
  ASSUME NEW r \in Requests, out[r].queue \in Seq(Chunks), NoStop(out[r].queue),
         Fetchable(r) # << >>, MaxChunk \in Nat \ {0}
  PROVE  Merged(Fetchable(r)).stop = "none"
<1> DEFINE q == out[r].queue
           n == IF Len(q) < MaxChunk THEN Len(q) ELSE MaxChunk
<1>1. n \in 1..Len(q) /\ Fetchable(r) = SubSeq(q, 1, n)
  BY DEF Fetchable
<1>2. Last(Fetchable(r)) = q[n]
  BY <1>1 DEF Last
<1> QED
  BY <1>1, <1>2 DEF Merged, Chunk, NoStop

\* Cutting a character off leaves a sequence of bytes.
LEMMA RemoveType ==
  ASSUME NEW s \in Seq(Bytes)
  PROVE  remove_incomplete_utf8_char(s) \in Seq(Bytes)
<1>1. CASE CutOff(s) = {}
  BY <1>1 DEF remove_incomplete_utf8_char
<1>2. CASE CutOff(s) # {}
  <2>1. PICK i : i = (CHOOSE j \in CutOff(s) : TRUE)
    OBVIOUS
  <2>2. i \in CutOff(s)
    BY <2>1, <1>2
  <2>3. i \in 1..4 /\ i <= Len(s)
    BY <2>2 DEF CutOff
  <2>4. remove_incomplete_utf8_char(s) = SubSeq(s, 1, Len(s) - i)
    BY <1>2, <2>1 DEF remove_incomplete_utf8_char
  <2> QED
    BY <2>3, <2>4
<1> QED
  BY <1>1, <1>2

-----------------------------------------------------------------------------
(* One request at a time: the threads of r move, those of others do not.   *)

Others(r) == \A s \in Requests \ {r} :
    conn'[s] = conn[s] /\ gen'[s] = gen[s] /\ out'[s] = out[s]

TypedNext == /\ conn' \in [Requests -> ConnStates]
             /\ gen' \in [Requests -> GenStates]
             /\ out' \in [Requests -> Outputs]

RequestMoves(r) == TypedNext /\ Others(r) /\ ThreadsInStep(r)'

\* Steps that leave the lock and the registry alone.
KeepsLock(r) == /\ UNCHANGED << lock, registry, multimodel >>
                /\ gen'[r] = "load" <=> gen[r] = "load"
                /\ conn'[r] = "join" => conn[r] = "join"

\* NoOutput is an output, with nothing in its queue.
LEMMA NoOutputType == NoOutput \in Outputs /\ NoOutput.queue = << >> /\ NoStop(NoOutput.queue)
<1> QED
  BY DEF NoOutput, Outputs, Stops, NoStop

\* An exception ends the stream and leaves nothing to do.
LEMMA ReportStep ==
  ASSUME NEW r \in Requests, Typed, ThreadsInStep(r), Report(r), gen[r] # "none"
  PROVE  RequestMoves(r) /\ gen'[r] = "exited" /\ conn'[r] \in {conn[r], "answered"}
<1>1. gen' \in [Requests -> GenStates] /\ gen'[r] = "exited"
  BY DEF Report, Typed, GenStates
<1>2. CASE request[r].stream
  <2>1. Chunk(<< >>, "exception") \in Chunks
    BY DEF Chunk, Chunks, Stops
  <2>2. out' = [out EXCEPT ![r].queue = Append(@, Chunk(<< >>, "exception")),
                           ![r].stop = "exception"] /\ UNCHANGED conn
    BY <1>2 DEF Report
  <2>3. Append(out[r].queue, Chunk(<< >>, "exception")) \in Seq(Chunks)
    BY <2>1 DEF Typed, Outputs
  <2>4. out' \in [Requests -> Outputs]
    BY <2>2, <2>3 DEF Typed, Outputs, Stops
  <2> QED
    BY <1>1, <2>2, <2>4 DEF Report, Typed, TypedNext, Others, RequestMoves, ThreadsInStep, Past
<1>3. CASE ~request[r].stream
  <2>1. out' = [out EXCEPT ![r] = NoOutput] /\ conn' = [conn EXCEPT ![r] = "answered"]
    BY <1>3 DEF Report
  <2> QED
    BY <1>1, <2>1, NoOutputType
    DEF Report, Typed, TypedNext, Others, RequestMoves, ThreadsInStep, Past, ConnStates
<1> QED
  BY <1>2, <1>3

\* Putting text into the buffer or the queue ends nothing.
LEMMA YieldStep ==
  ASSUME NEW r \in Requests, NEW o \in Outputs, NEW piece \in Seq(Bytes), NoStop(o.queue)
  PROVE  Yield(r, o, piece) \in Outputs /\ NoStop(Yield(r, o, piece).queue)
<1> DEFINE told == [o EXCEPT !.text = @ \o piece]
           buffer == told.buffer \o piece
<1>1. told \in Outputs /\ told.queue = o.queue
  <2>1. o.text \in Seq(Bytes)
    BY DEF Outputs
  <2>2. o.text \o piece \in Seq(Bytes)
    BY <2>1
  <2> QED
    BY <2>2 DEF Outputs
<1>2. buffer \in Seq(Bytes)
  <2>1. told.buffer \in Seq(Bytes)
    BY <1>1 DEF Outputs
  <2> QED
    BY <2>1
<1>3. Chunk(buffer, "none") \in Chunks /\ Chunk(buffer, "none").stop = "none"
  BY <1>2 DEF Chunk, Chunks, Stops
<1>4. /\ Append(told.queue, Chunk(buffer, "none")) \in Seq(Chunks)
      /\ NoStop(Append(told.queue, Chunk(buffer, "none")))
  <2>1. told.queue \in Seq(Chunks)
    BY <1>1 DEF Outputs
  <2> QED
    BY <1>1, <1>3, <2>1, AppendKeepsNoStop
<1>5. Put(told, piece) \in Outputs /\ NoStop(Put(told, piece).queue)
  <2> HIDE DEF told
  <2>1. CASE is_utf8_string_incomplete(buffer)
    <3>1. Put(told, piece) = [told EXCEPT !.buffer = buffer]
      BY <2>1 DEF Put
    <3> HIDE DEF buffer
    <3> QED
      BY <1>1, <1>2, <3>1 DEF Outputs
  <2>2. CASE ~is_utf8_string_incomplete(buffer)
    <3> DEFINE queue == Append(told.queue, Chunk(buffer, "none"))
    <3>1. Put(told, piece) = [told EXCEPT !.buffer = << >>, !.queue = queue]
      BY <2>2 DEF Put
    <3>2. queue \in Seq(Chunks) /\ NoStop(queue)
      BY <1>4
    <3>3. << >> \in Seq(Bytes)
      OBVIOUS
    <3> HIDE DEF buffer, queue
    <3>4. [told EXCEPT !.buffer = << >>, !.queue = queue] \in Outputs
      BY <1>1, <3>2, <3>3 DEF Outputs
    <3>5. [told EXCEPT !.buffer = << >>, !.queue = queue].queue = queue
      BY <1>1 DEF Outputs
    <3> QED
      BY <3>1, <3>2, <3>4, <3>5
  <2> QED
    BY <2>1, <2>2
<1> QED
  BY <1>1, <1>5 DEF Yield

\* The thread that serves a request, up to the end of the stream.
LEMMA ServeStep ==
  ASSUME NEW r \in Requests, Typed, ThreadsInStep(r), MaxChunk \in Nat \ {0},
         \/ Send(r) \/ AnswerAtOnce(r) \/ Accept(r) \/ FetchResult(r) \/ SendDone(r)
         \/ DumpThrows(r)
  PROVE  RequestMoves(r) /\ KeepsLock(r)
<1> USE DEF RequestMoves, TypedNext, Others, KeepsLock, Typed, ThreadsInStep, Past
<1>1. CASE Send(r)
  BY <1>1 DEF Send, ConnStates, registry
<1>2. CASE AnswerAtOnce(r)
  BY <1>2 DEF AnswerAtOnce, ConnStates, registry
<1>3. CASE Accept(r)
  <2>1. CASE StartInline(r)
    BY <1>3, <2>1 DEF Accept, StartInline, ConnStates, GenStates, registry, NoStop
  <2>2. CASE StartSession(r)
    BY <1>3, <2>2 DEF Accept, StartSession, ConnStates, GenStates, registry, NoStop
  <2> QED
    BY <1>3, <2>1, <2>2 DEF Accept
<1>4. CASE FetchResult(r)
  <2> DEFINE q == out[r].queue
             n == Len(Fetchable(r))
             rest == SubSeq(q, n + 1, Len(q))
  <2>1. q \in Seq(Chunks) /\ out[r] \in Outputs
    BY DEF Outputs
  <2>2. n \in 0..Len(q)
    BY <2>1 DEF Fetchable
  <2>3. rest \in Seq(Chunks) /\ (NoStop(q) => NoStop(rest))
    BY <2>1, <2>2, RestKeepsNoStop
  <2>4. out' = [out EXCEPT ![r].queue = rest]
    BY <1>4 DEF FetchResult, Dequeued
  <2>5. out' \in [Requests -> Outputs] /\ out'[r].queue = rest
    BY <2>1, <2>3, <2>4 DEF Outputs
  <2>6. gen[r] \notin Past => Merged(Fetchable(r)).stop = "none"
    BY <1>4, <2>1, MergedNoStop DEF FetchResult
  <2>7. /\ UNCHANGED << gen, lock, registry, multimodel >>
        /\ conn[r] = "poll" /\ Fetchable(r) # << >>
        /\ conn' = conn \/ conn' = [conn EXCEPT ![r] = "end"]
        /\ gen[r] \notin Past => conn' = conn
    BY <1>4, <2>6 DEF FetchResult
  <2>8. gen[r] # "none"
    <3>1. SUFFICES ASSUME q = << >> PROVE FALSE
      OBVIOUS
    <3> QED
      BY <2>7, <3>1 DEF Fetchable
  <2> HIDE DEF q, n, rest
  <2> QED
    BY <2>3, <2>4, <2>5, <2>7, <2>8 DEF ConnStates, q
<1>5. CASE SendDone(r)
  BY <1>5 DEF SendDone, ConnStates, registry
<1>6. CASE DumpThrows(r)
  BY <1>6 DEF DumpThrows, Stop, registry
<1> QED
  BY <1>1, <1>2, <1>3, <1>4, <1>5, <1>6

\* The thread that generates, once it has a context.
LEMMA GenerateStep ==
  ASSUME NEW r \in Requests, Typed, ThreadsInStep(r), Pieces \subseteq Seq(Bytes),
         Generate(r)
  PROVE  RequestMoves(r) /\ KeepsLock(r)
<1>1. CASE \/ UseDestroyed(r) \/ LosePool(r) \/ ForwardAborts(r)
  BY <1>1 DEF UseDestroyed, LosePool, ForwardAborts, Stop, registry, RequestMoves,
     TypedNext, Others, KeepsLock, Typed, ThreadsInStep
<1>2. CASE Construct(r)
  <2>1. gen[r] = "construct" /\ UNCHANGED << lock, registry, multimodel >>
    BY <1>2 DEF Construct
  <2>2. CASE Report(r)
    BY <2>1, <2>2, ReportStep DEF KeepsLock, ConnStates
  <2>3. CASE gen' = [gen EXCEPT ![r] = "decode"] /\ UNCHANGED << conn, out >>
    BY <2>1, <2>3 DEF RequestMoves, TypedNext, Others, KeepsLock, Typed, ThreadsInStep,
       Past, GenStates, InUse
  <2> QED
    BY <1>2, <2>2, <2>3 DEF Construct
<1>3. CASE ConstructEmpty(r) \/ BeginForward(r)
  BY <1>3 DEF ConstructEmpty, BeginForward, registry, RequestMoves, TypedNext, Others,
     KeepsLock, Typed, ThreadsInStep, Past, GenStates, InUse
<1>4. CASE EndForward(r)
  <2> DEFINE o == [out[r] EXCEPT !.step = @ + 1]
  <2>1. o \in Outputs /\ o.queue = out[r].queue /\ NoStop(o.queue)
    <3>1. out[r] \in Outputs
      BY DEF Typed
    <3>2. NoStop(out[r].queue)
      BY <1>4 DEF EndForward, ThreadsInStep, Past
    <3>3. o \in Outputs /\ o.queue = out[r].queue
      <4>1. PICK x : x = out[r]
        OBVIOUS
      <4>2. x \in Outputs => /\ [x EXCEPT !.step = x.step + 1] \in Outputs
                             /\ [x EXCEPT !.step = x.step + 1].queue = x.queue
        BY DEF Outputs
      <4> QED
        BY <3>1, <4>1, <4>2
    <3> QED
      BY <3>2, <3>3
  <2>2. [o EXCEPT !.stop = "stop"] \in Outputs
        /\ [o EXCEPT !.stop = "stop"].queue = o.queue
    BY <2>1 DEF Outputs, Stops
  <2> HIDE DEF o
  <2>3. \A piece \in Pieces : Yield(r, o, piece) \in Outputs /\ NoStop(Yield(r, o, piece).queue)
    BY <2>1, YieldStep
  <2>4. PICK p \in Outputs, g \in {"decode", "final", "unwind"} :
          /\ NoStop(p.queue)
          /\ out' = [out EXCEPT ![r] = p] /\ gen' = [gen EXCEPT ![r] = g]
    BY <1>4, <2>1, <2>2, <2>3 DEF EndForward, o
  <2>5. gen[r] = "forward" /\ UNCHANGED << conn, lock, registry, multimodel >>
    BY <1>4 DEF EndForward
  <2> QED
    BY <2>4, <2>5 DEF RequestMoves, TypedNext, Others, KeepsLock, Typed, ThreadsInStep, Past,
       GenStates, InUse
<1>5. CASE Finish(r)
  <2>1. PICK stop \in Stops : /\ Finish(r)
                              /\ out' = [out EXCEPT ![r].stop = stop,
                                   ![r].queue = IF request[r].stream
                                     THEN Append(@, Chunk(remove_incomplete_utf8_char(out[r].buffer), stop))
                                     ELSE @]
    BY <1>5 DEF Finish, Stops
  <2> DEFINE last == Chunk(remove_incomplete_utf8_char(out[r].buffer), stop)
             queue == IF request[r].stream THEN Append(out[r].queue, last) ELSE out[r].queue
  <2>2. out[r] \in Outputs /\ out[r].queue \in Seq(Chunks) /\ out[r].buffer \in Seq(Bytes)
    BY DEF Typed, Outputs
  <2>3. last \in Chunks
    BY <2>2, RemoveType DEF Chunk, Chunks
  <2>4. queue \in Seq(Chunks)
    BY <2>2, <2>3
  <2>5. out' = [out EXCEPT ![r].stop = stop, ![r].queue = queue]
    BY <2>1
  <2> HIDE DEF queue
  <2>6. out' \in [Requests -> Outputs]
    BY <2>2, <2>4, <2>5 DEF Typed, Outputs
  <2>7. /\ gen[r] \in {"final", "decode"} /\ gen' = [gen EXCEPT ![r] = "closing"]
        /\ UNCHANGED << conn, lock, registry, multimodel >>
    BY <2>1 DEF Finish
  <2> QED
    BY <2>5, <2>6, <2>7 DEF RequestMoves, TypedNext, Others, KeepsLock, Typed,
       ThreadsInStep, Past, GenStates, InUse
<1>6. CASE Close(r)
  <2>1. /\ gen[r] = "closing" /\ gen' = [gen EXCEPT ![r] = "exited"]
        /\ UNCHANGED << lock, registry, multimodel >>
    BY <1>6 DEF Close
  <2>2. \/ UNCHANGED << conn, out >>
        \/ conn' = [conn EXCEPT ![r] = "answered"] /\ out' = [out EXCEPT ![r] = NoOutput]
    BY <1>6 DEF Close
  <2> QED
    BY <2>1, <2>2, NoOutputType DEF RequestMoves, TypedNext, Others, KeepsLock, Typed,
       ThreadsInStep, Past, GenStates, ConnStates
<1>7. CASE Unwind(r)
  <2>1. gen[r] = "unwind" /\ Report(r) /\ UNCHANGED << lock, registry, multimodel >>
    BY <1>7 DEF Unwind
  <2> QED
    BY <2>1, ReportStep DEF KeepsLock
<1> QED
  BY <1>1, <1>2, <1>3, <1>4, <1>5, <1>6, <1>7 DEF Generate

-----------------------------------------------------------------------------
(* The steps that take, hold or give back the lock.                        *)

\* Nobody else holds what is held, loads or joins.
Alone(r) == \A s \in Requests \ {r} : conn[s] # "join" /\ gen[s] # "load"

\* Who holds the lock, or finds it free, is alone.
LEMMA HolderAlone ==
  ASSUME IInv, NEW r \in Requests, lock \in {r, Nobody}
  PROVE  Alone(r)
<1> QED
  BY ServerAssumption DEF IInv, LockHeld, Alone

\* Who is alone and keeps the rules keeps the lock's.
LEMMA AloneKeepsLock ==
  ASSUME NEW r \in Requests, Alone(r), RequestMoves(r), LockHeld(r)'
  PROVE  \A s \in Requests : LockHeld(s)'
<1> QED
  BY DEF Alone, RequestMoves, Others, LockHeld

\* Unless the holder of the lock spins, no thread has left backends destroyed
\* whose models are in the map.
LEMMA BackendsKept ==
  ASSUME IInv, lock \notin spinning
  PROVE  loaded \subseteq backends
<1>1. \A s \in spinning : s \in Requests /\ (gen[s] = "load" => lock = s)
  BY DEF IInv, Typed, LockHeld
<1> QED
  BY <1>1 DEF IInv, RegistryInv

\* The start of a load, which gives the models in memory up
LEMMA BeginLoadStep ==
  ASSUME IInv, NEW r \in Requests, BeginLoad(r), r \notin spinning
  PROVE  RequestMoves(r) /\ (\A s \in Requests : LockHeld(s)') /\ RegistryInv'
<1>1. Typed /\ ThreadsInStep(r) /\ LockHeld(r) /\ RegistryInv
  BY DEF IInv
<1>2. gen[r] = "setup" /\ lock = Nobody /\ multimodel' = multimodel
  BY DEF BeginLoad
<1>3. Alone(r)
  BY <1>2, HolderAlone
<1>4. conn[r] # "join"
  BY <1>1, <1>2 DEF ThreadsInStep, Past
<1>5. /\ UNCHANGED registry \/ (contexts' = {} /\ loaded' = {})
      /\ loaded' \subseteq backends'
      /\ ~multimodel => contexts' = {}
  BY <1>1, <1>2, BackendsKept, ServerAssumption DEF Typed, BeginLoad, destroy_all_models_unsafe, registry, RegistryInv
<1>6. RegistryInv'
  BY <1>1, <1>2, <1>5 DEF RegistryInv, registry
<1>7. CASE gen' = [gen EXCEPT ![r] = "load"] /\ lock' = r /\ UNCHANGED << conn, out >>
  <2>1. RequestMoves(r)
    BY <1>1, <1>2, <1>7 DEF RequestMoves, TypedNext, Others, Typed, ThreadsInStep, Past, GenStates
  <2>2. LockHeld(r)'
    BY <1>7 DEF LockHeld
  <2> QED
    BY <1>3, <1>6, <2>1, <2>2, AloneKeepsLock
<1>8. CASE Report(r) /\ UNCHANGED lock
  <2>1. RequestMoves(r) /\ gen'[r] = "exited" /\ conn'[r] \in {conn[r], "answered"}
    BY <1>1, <1>2, <1>8, ReportStep
  <2>2. LockHeld(r)'
    BY <1>4, <2>1 DEF LockHeld
  <2> QED
    BY <1>3, <1>6, <2>1, <2>2, AloneKeepsLock
<1> QED
  BY <1>7, <1>8 DEF BeginLoad

\* Loading, with the lock held
LEMMA LoadStep ==
  ASSUME IInv, NEW r \in Requests, LoadModel(r) \/ LoadFails(r) \/ KeepContext(r),
         r \notin spinning
  PROVE  RequestMoves(r) /\ (\A s \in Requests : LockHeld(s)') /\ RegistryInv'
<1>1. Typed /\ ThreadsInStep(r) /\ LockHeld(r) /\ RegistryInv
  BY DEF IInv
<1>2. gen[r] = "load" /\ multimodel' = multimodel
  BY DEF LoadModel, LoadFails, KeepContext
<1>3. Alone(r) /\ loaded \subseteq backends
  BY <1>1, <1>2, HolderAlone, BackendsKept DEF LockHeld
<1>4. conn[r] # "join"
  BY <1>1, <1>2 DEF ThreadsInStep, Past
<1>5. CASE LoadModel(r)
  <2>1. UNCHANGED << conn, gen, lock, out, contexts >>
    BY <1>5 DEF LoadModel
  <2>2. RequestMoves(r) /\ LockHeld(r)'
    BY <1>1, <2>1 DEF RequestMoves, TypedNext, Others, Typed, ThreadsInStep, LockHeld
  <2>3. /\ loaded' = loaded \cup {NextFolder(r)}
        /\ backends' = backends \cup {NextFolder(r)}
        /\ spinning' = spinning
    BY <1>5 DEF LoadModel, use
  <2>4. RegistryInv'
    BY <1>1, <1>2, <1>3, <2>1, <2>3 DEF RegistryInv
  <2> QED
    BY <1>3, <2>2, <2>4, AloneKeepsLock
<1>6. CASE LoadFails(r)
  <2>1. Report(r) /\ UNCHANGED << contexts, loaded, spinning >> /\ backends \subseteq backends'
    BY <1>6 DEF LoadFails, use
  <2>2. RequestMoves(r) /\ gen'[r] = "exited" /\ conn'[r] \in {conn[r], "answered"}
    BY <1>1, <1>2, <2>1, ReportStep
  <2>3. LockHeld(r)'
    BY <1>4, <2>2 DEF LockHeld
  <2>4. \A s \in Requests : gen'[s] = "load" => gen[s] = "load"
    BY <2>2 DEF RequestMoves, Others
  <2>5. RegistryInv'
    BY <1>1, <1>2, <1>3, <2>1, <2>4 DEF RegistryInv
  <2> QED
    BY <1>3, <2>2, <2>3, <2>5, AloneKeepsLock
<1>7. CASE KeepContext(r)
  <2>1. /\ Parts(r) \subseteq loaded /\ contexts' = contexts \cup {request[r].name}
        /\ gen' = [gen EXCEPT ![r] = "construct"]
        /\ UNCHANGED << conn, out, loaded, backends >>
    BY <1>7 DEF KeepContext, Unloaded
  <2>2. RequestMoves(r) /\ LockHeld(r)'
    BY <1>1, <1>2, <1>4, <2>1 DEF RequestMoves, TypedNext, Others, Typed, ThreadsInStep, Past,
       GenStates, InUse, LockHeld
  <2>3. \A s \in Requests : gen'[s] # "load"
    BY <1>3, <2>1, <1>1 DEF Alone, Typed
  <2>4. ~multimodel => contexts' = {request[r].name}
    BY <1>1, <1>2, <2>1 DEF RegistryInv
  <2>5. RegistryInv'
    BY <1>1, <1>2, <1>3, <2>1, <2>3, <2>4 DEF RegistryInv, Parts
  <2> QED
    BY <1>3, <2>2, <2>5, AloneKeepsLock
<1> QED
  BY <1>5, <1>6, <1>7

\* What leaves the registry alone and neither starts a load nor ends one keeps it
\* as it is.
LEMMA RegistryKept ==
  ASSUME Typed, RegistryInv, UNCHANGED << registry, multimodel >>, spinning \subseteq spinning',
         \A s \in Requests : gen'[s] = "load" <=> gen[s] = "load"
  PROVE  RegistryInv'
<1> QED
  BY DEF Typed, RegistryInv, registry

\* Erasing a session and joining its thread
LEMMA JoinStep ==
  ASSUME IInv, NEW r \in Requests, EraseSession(r) \/ JoinThread(r)
  PROVE  RequestMoves(r) /\ (\A s \in Requests : LockHeld(s)') /\ RegistryInv'
<1>1. Typed /\ ThreadsInStep(r) /\ LockHeld(r) /\ RegistryInv
  BY DEF IInv
<1>2. /\ conn[r] \in {"close", "join"} /\ lock \in {r, Nobody}
      /\ UNCHANGED << gen, registry, multimodel, spinning >>
  BY <1>1 DEF EraseSession, JoinThread, LockHeld, use
<1>3. Alone(r) /\ RegistryInv'
  BY <1>1, <1>2, HolderAlone, RegistryKept
<1>4. gen[r] \in Past
  BY <1>1, <1>2 DEF ThreadsInStep
<1>5. CASE EraseSession(r)
  <2>1. conn' = [conn EXCEPT ![r] = "join"] /\ lock' = r /\ UNCHANGED out
    BY <1>5 DEF EraseSession
  <2>2. RequestMoves(r) /\ LockHeld(r)'
    BY <1>1, <1>2, <1>4, <2>1 DEF RequestMoves, TypedNext, Others, Typed, ThreadsInStep, Past,
       ConnStates, LockHeld
  <2> QED
    BY <1>3, <2>2, AloneKeepsLock
<1>6. CASE JoinThread(r)
  <2>1. conn' = [conn EXCEPT ![r] = "answered"] /\ out' = [out EXCEPT ![r] = NoOutput]
    BY <1>6 DEF JoinThread
  <2>2. RequestMoves(r) /\ LockHeld(r)'
    BY <1>1, <1>2, <1>4, <2>1, NoOutputType DEF RequestMoves, TypedNext, Others, Typed,
       ThreadsInStep, Past, ConnStates, LockHeld
  <2> QED
    BY <1>3, <2>2, AloneKeepsLock
<1> QED
  BY <1>5, <1>6

-----------------------------------------------------------------------------

\* Initially nothing is loaded and no thread runs.
LEMMA InitInv == Init => IInv
<1>1. SUFFICES ASSUME Init PROVE IInv
  OBVIOUS
<1>2. Typed /\ \A r \in Requests : ThreadsInStep(r) /\ LockHeld(r)
  BY <1>1, NoOutputType DEF Init, Typed, ThreadsInStep, LockHeld, ConnStates, GenStates
<1>3. RegistryInv
  BY <1>1 DEF Init, RegistryInv
<1> QED
  BY <1>2, <1>3 DEF IInv

\* The threads of r move and nothing else does.
LEMMA OneRequestMoves ==
  ASSUME IInv, NEW r \in Requests, RequestMoves(r), \A s \in Requests : LockHeld(s)',
         RegistryInv', lock' \in Requests \cup {Nobody}, spinning' \in {spinning, spinning \cup {r}}
  PROVE  IInv'
<1> QED
  BY DEF IInv, Typed, RequestMoves, TypedNext, Others, ThreadsInStep

\* The same for a step that leaves lock and registry alone.
LEMMA QuietStep ==
  ASSUME IInv, NEW r \in Requests, RequestMoves(r), KeepsLock(r),
         spinning' \in {spinning, spinning \cup {r}}
  PROVE  IInv'
<1>1. \A s \in Requests : LockHeld(s)'
  BY DEF IInv, RequestMoves, Others, KeepsLock, LockHeld
<1>2. RegistryInv'
  BY RegistryKept DEF IInv, RequestMoves, Others, KeepsLock
<1>3. lock' \in Requests \cup {Nobody}
  BY DEF IInv, Typed, KeepsLock
<1> QED
  BY <1>1, <1>2, <1>3, OneRequestMoves

\* Any step for r
StepOf(r) == Send(r) \/ Serve(r) \/ Infer(r) \/ DumpThrows(r)

\* Nothing else begins to spin.
LEMMA OnlySpinSpins ==
  ASSUME NEW r \in Requests, Send(r) \/ Serve(r) \/ Setup(r) \/ Generate(r) \/ DumpThrows(r)
  PROVE  spinning' = spinning
<1>1. CASE Send(r) \/ Serve(r) \/ DumpThrows(r)
  BY <1>1 DEF Send, Serve, AnswerAtOnce, Accept, StartInline, StartSession, FetchResult, SendDone,
     EraseSession, JoinThread, DumpThrows, Stop, use
<1>2. CASE Setup(r)
  BY <1>2 DEF Setup, SetupCached, BeginLoad, LoadModel, LoadFails, KeepContext, use
<1>3. CASE Generate(r)
  BY <1>3 DEF Generate, UseDestroyed, Construct, ConstructEmpty, LosePool, BeginForward,
     ForwardAborts, EndForward, Finish, Close, Unwind, Stop, use
<1> QED
  BY <1>1, <1>2, <1>3

\* A destructor that spins: the thread stays where it is, or keeps m_lock.
LEMMA SpinStep ==
  ASSUME IInv, NEW r \in Requests, Spin(r), r \notin spinning
  PROVE  /\ UNCHANGED << process, request, conn, out, wire, sessions, contexts, loaded >>
         /\ spinning' = spinning \cup {r}
         /\ \/ gen[r] \in {"construct", "closing", "unwind"} /\ UNCHANGED << gen, ref >>
            \/ gen[r] = "setup" /\ gen' = [gen EXCEPT ![r] = "load"]
         /\ RequestMoves(r) /\ IInv'
<1>1. Typed /\ ThreadsInStep(r) /\ RegistryInv
  BY DEF IInv
<1>2. CASE SpinAtEnd(r) \/ SpinAtStart(r)
  <2>1. /\ UNCHANGED << process, request, conn, gen, out, wire, sessions, lock, multimodel,
                        registry, ref >>
        /\ spinning' = spinning \cup {r} /\ gen[r] \in {"construct", "closing", "unwind"}
    BY <1>2 DEF SpinAtEnd, SpinAtStart
  <2>2. RequestMoves(r) /\ KeepsLock(r)
    BY <1>1, <2>1 DEF Typed, RequestMoves, TypedNext, Others, KeepsLock, ThreadsInStep
  <2> QED
    BY <2>1, <2>2, QuietStep DEF registry
<1>3. CASE SpinAtUnload(r)
  <2>1. /\ UNCHANGED << process, request, conn, out, wire, sessions, multimodel, contexts, loaded >>
        /\ spinning' = spinning \cup {r} /\ gen[r] = "setup" /\ lock = Nobody /\ lock' = r
        /\ gen' = [gen EXCEPT ![r] = "load"]
    BY <1>3 DEF SpinAtUnload
  <2>2. RequestMoves(r)
    BY <1>1, <2>1 DEF Typed, RequestMoves, TypedNext, Others, ThreadsInStep, Past, GenStates
  <2>3. Alone(r)
    BY <2>1, HolderAlone
  <2>4. LockHeld(r)'
    BY <2>1 DEF LockHeld
  <2>5. RegistryInv'
    <3>1. r \in spinning' /\ gen'[r] = "load"
      BY <1>1, <2>1 DEF Typed
    <3>2. \A s \in Requests : gen'[s] = "load" => s = r
      BY <2>2, <2>3 DEF Alone, RequestMoves, Others
    <3> QED
      BY <1>1, <2>1, <3>1, <3>2 DEF RegistryInv
  <2>6. IInv'
    BY <2>1, <2>2, <2>3, <2>4, <2>5, AloneKeepsLock, OneRequestMoves
  <2> QED
    BY <2>1, <2>2, <2>6
<1> QED
  BY <1>2, <1>3 DEF Spin

\* A step for a request moves its threads, and keeps the invariant.
LEMMA StepMoves ==
  ASSUME IInv, NEW r \in Requests, StepOf(r)
  PROVE  RequestMoves(r) /\ IInv'
<1>2. Typed /\ ThreadsInStep(r)
  BY DEF IInv
<1>3. CASE Send(r) \/ AnswerAtOnce(r) \/ Accept(r) \/ FetchResult(r) \/ SendDone(r) \/ DumpThrows(r)
  <2>1. spinning' = spinning
    BY <1>3, OnlySpinSpins DEF Serve
  <2> QED
    BY <1>2, <1>3, <2>1, ServerAssumption, ServeStep, QuietStep
<1>4. CASE EraseSession(r) \/ JoinThread(r)
  <2>1. lock' \in Requests \cup {Nobody} /\ spinning' = spinning
    BY <1>4, OnlySpinSpins DEF EraseSession, JoinThread, Serve
  <2> QED
    BY <1>4, <2>1, JoinStep, OneRequestMoves
<1>5. CASE SetupCached(r)
  <2>1. RequestMoves(r) /\ KeepsLock(r) /\ spinning' = spinning
    BY <1>2, <1>5, OnlySpinSpins DEF Setup, SetupCached, registry, RequestMoves, TypedNext, Others, KeepsLock, Typed,
       ThreadsInStep, Past, GenStates, InUse
  <2> QED
    BY <2>1, QuietStep
<1>6. CASE BeginLoad(r) /\ r \notin spinning
  <2>1. lock' \in Requests \cup {Nobody} /\ spinning' = spinning
    BY <1>2, <1>6 DEF BeginLoad, Typed
  <2> QED
    BY <1>6, <2>1, BeginLoadStep, OneRequestMoves
<1>7. CASE (LoadModel(r) \/ LoadFails(r) \/ KeepContext(r)) /\ r \notin spinning
  <2>1. lock' \in Requests \cup {Nobody} /\ spinning' = spinning
    BY <1>2, <1>7 DEF LoadModel, LoadFails, KeepContext, Typed, use
  <2> QED
    BY <1>7, <2>1, LoadStep, OneRequestMoves
<1>8. CASE Generate(r)
  <2>1. spinning' = spinning
    BY <1>8, OnlySpinSpins
  <2> QED
    BY <1>2, <1>8, <2>1, ServerAssumption, GenerateStep, QuietStep
<1>9. CASE Spin(r) /\ r \notin spinning
  BY <1>9, SpinStep
<1> QED
  BY <1>3, <1>4, <1>5, <1>6, <1>7, <1>8, <1>9 DEF StepOf, Serve, Setup, Infer

\* Every step keeps the invariant.
LEMMA StepInv == IInv /\ [Next]_vars => IInv'
<1>1. SUFFICES ASSUME IInv, [Next]_vars PROVE IInv'
  OBVIOUS
<1>2. CASE UNCHANGED vars
  BY <1>1, <1>2 DEF vars, registry, use, IInv, Typed, ThreadsInStep, LockHeld, RegistryInv
<1>3. CASE Next
  <2>1. PICK r \in Requests : StepOf(r)
    BY <1>3 DEF Next, StepOf
  <2> QED
    BY <1>1, <2>1, StepMoves
<1> QED
  BY <1>1, <1>2, <1>3

\* The invariant holds in every reachable state.
LEMMA Invariant == Spec => []IInv
<1> QED
  BY InitInv, StepInv, PTL DEF Spec

-----------------------------------------------------------------------------

\* destroy_session never waits, with m_lock held, for a thread that may want
\* the lock.
THEOREM JoinNeverDeadlocks == Spec => []JoinIsSafe
<1>1. IInv => JoinIsSafe
  BY DEF IInv, ThreadsInStep, LockHeld, Past, JoinIsSafe
<1> QED
  BY <1>1, Invariant, PTL

\* setup_model finds in its cache only what is loaded, whatever failed before,
\* and a build for one model keeps one context at most.
THEOREM RegistryIsConsistent == Spec => []RegistryConsistent
<1>1. ASSUME IInv, ~multimodel PROVE Cardinality(contexts) <= 1
  <2>1. CASE contexts = {}
    BY <2>1, FS_EmptySet
  <2>2. CASE contexts # {}
    <3>1. PICK n \in contexts : contexts = {n}
      BY <1>1, <2>2 DEF IInv, RegistryInv
    <3> QED
      BY <3>1, FS_Singleton
  <2> QED
    BY <2>1, <2>2
<1>2. ASSUME IInv, lock = Nobody PROVE loaded \subseteq backends
  BY <1>2, BackendsKept, ServerAssumption DEF IInv, Typed
<1>3. IInv => RegistryConsistent
  BY <1>1, <1>2 DEF IInv, RegistryInv, RegistryConsistent
<1> QED
  BY <1>3, Invariant, PTL

\* Every set of numbers that is not empty has a least element.
LEMMA LeastNumber ==
  ASSUME NEW T, T \subseteq Nat, T # {}
  PROVE  \E x \in T : \A y \in T : x <= y
<1>1. IsWellFoundedOn(OpToRel(<, Nat), Nat)
  BY NatLessThanWellFounded
<1>2. PICK x \in T : \A y \in T : ~(<<y, x>> \in OpToRel(<, Nat))
  BY <1>1, WFMin
<1>3. \A y \in T : ~(y < x)
  BY <1>2 DEF OpToRel
<1> QED
  BY <1>3

-----------------------------------------------------------------------------
(* Putting texts together.                                                 *)

Text == Seq(Bytes)

\* Two texts are a text ...
LEMMA TextConcat ==
  ASSUME NEW x \in Text, NEW y \in Text
  PROVE  x \o y \in Text
  BY ConcatProperties DEF Text

\* ... put together in any order ...
LEMMA TextAssociative ==
  ASSUME NEW x \in Text, NEW y \in Text, NEW z \in Text
  PROVE  (x \o y) \o z = x \o (y \o z)
<1> QED
  BY ConcatAssociative DEF Text

\* ... and the empty one adds nothing.
LEMMA TextEmpty ==
  ASSUME NEW x \in Text
  PROVE  x \o << >> = x /\ << >> \o x = x /\ << >> \in Text
  BY ConcatEmptySeq, EmptySeq DEF Text

\* f[i] is f[i - 1] with the i-th of the texts q behind it.
Grows(f, q, n) == \A i \in 1..n : f[i] = f[i - 1] \o q[i]
Chain(f, q, n) ==
    f \in [0..n -> Text] /\ (\A i \in 1..n : q[i] \in Text) /\ Grows(f, q, n)

\* f[i] is what the first i of the texts q give.
Builds(f, q, n) == f \in [0..n -> Text] /\ f[0] = << >> /\ Grows(f, q, n)

\* Such a function exists for any number of texts ...
LEMMA BuildsExists ==
  ASSUME NEW q \in Seq(Text)
  PROVE  \E f : Builds(f, q, Len(q))
<1>0. Len(q) \in Nat
  BY LenProperties
<1> DEFINE T == {n \in 0..Len(q) : ~\E f : Builds(f, q, n)}
<1>1. SUFFICES ASSUME T # {} PROVE FALSE
  BY <1>0
<1>2. T \subseteq Nat
  OBVIOUS
<1>3. PICK n \in T : \A m \in T : n <= m
  BY <1>1, <1>2, LeastNumber
<1>4. n \in 0..Len(q) /\ ~\E f : Builds(f, q, n)
  OBVIOUS
<1>5. << >> \in Text
  BY DEF Text
<1>6. CASE n = 0
  <2> DEFINE f == [i \in 0..0 |-> << >>]
  <2>1. Builds(f, q, 0)
    BY <1>5 DEF Builds, Grows
  <2> QED
    BY <1>4, <1>6, <2>1
<1>7. CASE n # 0
  <2>1. n \in Nat /\ n - 1 \in 0..Len(q) /\ ~(n <= n - 1) /\ n \in 1..Len(q) /\ n - 1 \in 0..n-1
    BY <1>0, <1>4, <1>7
  <2>2. PICK m : m = n - 1
    OBVIOUS
  <2>3. m \in 0..Len(q) /\ m \notin T /\ m \in Nat /\ n = m + 1
    BY <1>3, <2>1, <2>2
  <2>4. PICK g : Builds(g, q, m)
    BY <2>3
  <2>5. q[n] \in Text /\ g[m] \in Text
    BY <2>1, <2>3, <2>4, ElementOfSeq DEF Builds, Grows
  <2>6. g[m] \o q[n] \in Text
    BY <2>5, ConcatProperties DEF Text
  <2> DEFINE f == [i \in 0..n |-> IF i = n THEN g[m] \o q[n] ELSE g[i]]
  <2>7. f \in [0..n -> Text]
    <3>1. \A i \in 0..n : i # n => i \in 0..m
      BY <2>1, <2>3
    <3> QED
      BY <2>4, <2>6, <3>1 DEF Builds, Grows
  <2>8. f[0] = << >> /\ f[n] = g[m] \o q[n] /\ \A i \in 0..m : f[i] = g[i]
    BY <1>7, <2>1, <2>3, <2>4 DEF Builds, Grows
  <2> HIDE DEF f
  <2>9. ASSUME NEW i \in 1..n PROVE f[i] = f[i - 1] \o q[i]
    <3>1. CASE i = n
      <4>1. i - 1 = m /\ m \in 0..m
        BY <2>2, <2>3, <3>1
      <4>2. f[i - 1] = g[m]
        BY <2>8, <4>1
      <4> QED
        BY <2>8, <3>1, <4>2
    <3>2. CASE i # n
      <4>1. i \in 1..m /\ i \in 0..m /\ i - 1 \in 0..m
        BY <2>1, <2>3, <3>2
      <4> QED
        BY <2>4, <2>8, <4>1 DEF Builds, Grows
    <3> QED
      BY <3>1, <3>2
  <2>10. Builds(f, q, n)
    BY <2>7, <2>8, <2>9 DEF Builds, Grows
  <2> QED
    BY <1>4, <2>10
<1> QED
  BY <1>6, <1>7

\* Two functions that go on in the same way stay as far apart as they begin.
LEMMA SameSteps ==
  ASSUME NEW n \in Nat, NEW x \in Text, NEW q, NEW f, NEW g,
         Chain(f, q, n), Chain(g, q, n), f[0] = x \o g[0]
  PROVE  f[n] = x \o g[n]
<1>0. \A u, v \in Text : (x \o u) \o v = x \o (u \o v)
  BY TextAssociative
<1> DEFINE T == {i \in 0..n : f[i] # x \o g[i]}
<1>1. SUFFICES ASSUME T # {} PROVE FALSE
  <2>1. n \in 0..n
    OBVIOUS
  <2> QED
    BY <2>1
<1>2. T \subseteq Nat
  OBVIOUS
<1>3. PICK i \in T : \A m \in T : i <= m
  BY <1>1, <1>2, LeastNumber
<1>4. i \in 0..n /\ f[i] # x \o g[i] /\ i # 0
  OBVIOUS
<1>5. PICK m : m = i - 1
  OBVIOUS
<1>6. m \in 0..n /\ i \in 1..n /\ ~(i <= m)
  BY <1>4, <1>5
<1> HIDE DEF T
<1>7. f[m] = x \o g[m]
  BY <1>3, <1>6 DEF T
<1>8. f[i] = f[m] \o q[i] /\ g[i] = g[m] \o q[i]
  BY <1>5, <1>6 DEF Chain, Grows
<1>9. PICK u, v : u = g[m] /\ v = q[i]
  OBVIOUS
<1>10. u \in Text /\ v \in Text
  BY <1>6, <1>9 DEF Chain
<1>11. (x \o u) \o v = x \o (u \o v)
  BY <1>0, <1>10
<1> QED
  BY <1>4, <1>7, <1>8, <1>9, <1>11

\* ... and FlattenSeq gives its last value.
LEMMA FlattenBuilds ==
  ASSUME NEW q \in Seq(Text), NEW f, Builds(f, q, Len(q))
  PROVE  FlattenSeq(q) = f[Len(q)]
<1> DEFINE n == Len(q)
<1>0. n \in Nat
  BY LenProperties
<1>1. CASE n = 0
  BY <1>1, EmptySeq DEF FlattenSeq, Builds
<1>2. CASE n # 0
  <2> DEFINE Step(h) == [i \in 1..n |-> IF i = 1 THEN q[i] ELSE h[i - 1] \o q[i]]
             g == CHOOSE h : h = Step(h)
             k == [i \in 1..n |-> f[i]]
  <2>1. FlattenSeq(q) = g[n]
    BY <1>2 DEF FlattenSeq
  <2>2. \A i \in 1..n : q[i] \in Text /\ f[i] \in Text
    BY <1>0, ElementOfSeq DEF Builds, Grows
  <2>3. ASSUME NEW i \in 1..n PROVE k[i] = IF i = 1 THEN q[i] ELSE k[i - 1] \o q[i]
    <3>1. CASE i = 1
      <4>1. f[1] = << >> \o q[1]
        BY <3>1 DEF Builds, Grows
      <4> QED
        BY <2>2, <3>1, <4>1, ConcatEmptySeq DEF Text
    <3>2. CASE i # 1
      <4>1. i - 1 \in 1..n
        BY <1>0, <3>2
      <4> QED
        BY <3>2, <4>1 DEF Builds, Grows
    <3> QED
      BY <3>1, <3>2
  <2>4. k = Step(k)
    <3> HIDE DEF n
    <3>1. Step(k) = [i \in 1..n |-> k[i]]
      BY <2>3
    <3> QED
      BY <3>1
  <2>5. g = Step(g)
    <3> HIDE DEF k
    <3> QED
      BY <2>4
  <2> HIDE DEF g
  <2>6. \A i \in 1..n : g[i] = IF i = 1 THEN q[i] ELSE g[i - 1] \o q[i]
    BY <2>5
  <2> DEFINE T == {i \in 1..n : g[i] # f[i]}
  <2>7. ASSUME T # {} PROVE FALSE
    <3>1. T \subseteq Nat
      BY <1>0
    <3>2. PICK i \in T : \A m \in T : i <= m
      BY <2>7, <3>1, LeastNumber
    <3>3. i \in 1..n /\ g[i] # f[i]
      BY <3>2
    <3>0. f[i] = IF i = 1 THEN q[i] ELSE f[i - 1] \o q[i]
      <4>1. k[i] = f[i]
        BY <3>3
      <4>2. i # 1 => i - 1 \in 1..n
        BY <1>0, <3>3
      <4>3. i # 1 => k[i - 1] = f[i - 1]
        BY <4>2
      <4> HIDE DEF k
      <4> QED
        BY <2>3, <3>3, <4>1, <4>3
    <3>4. CASE i = 1
      BY <2>6, <3>0, <3>3, <3>4
    <3>5. CASE i # 1
      <4>1. i - 1 \in 1..n /\ ~(i <= i - 1)
        BY <1>0, <3>3, <3>5
      <4>2. g[i - 1] = f[i - 1]
        BY <3>2, <4>1
      <4> QED
        BY <2>6, <3>0, <3>3, <3>5, <4>2
    <3> QED
      BY <3>4, <3>5
  <2>8. n \in 1..n
    BY <1>0, <1>2
  <2> QED
    BY <2>1, <2>7, <2>8
<1> QED
  BY <1>1, <1>2

\* One text more
LEMMA FlattenAppend ==
  ASSUME NEW q \in Seq(Text), NEW c \in Text
  PROVE  /\ FlattenSeq(q) \in Text
         /\ FlattenSeq(Append(q, c)) = FlattenSeq(q) \o c
<1> DEFINE n == Len(q)
           r == Append(q, c)
<1>1. /\ n \in Nat /\ r \in Seq(Text) /\ Len(r) = n + 1 /\ r[n + 1] = c
      /\ \A i \in 1..n : r[i] = q[i]
  BY LenProperties, AppendProperties
<1> HIDE DEF r
<1>2. PICK f : Builds(f, q, n)
  BY BuildsExists
<1>3. f[n] \in Text /\ f[n] \o c \in Text
  <2>1. f[n] \in Text
    BY <1>1, <1>2 DEF Builds, Grows
  <2> QED
    BY <2>1, ConcatProperties DEF Text
<1> DEFINE g == [i \in 0..n+1 |-> IF i = n + 1 THEN f[n] \o c ELSE f[i]]
<1>4. /\ g \in [0..n+1 -> Text] /\ g[n + 1] = f[n] \o c /\ \A i \in 0..n : g[i] = f[i]
  <2>1. \A i \in 0..n+1 : i # n + 1 => i \in 0..n
    BY <1>1
  <2>2. \A i \in 0..n : i # n + 1 /\ i \in 0..n+1
    BY <1>1
  <2>3. n + 1 \in 0..n+1
    BY <1>1
  <2> QED
    BY <1>2, <1>3, <2>1, <2>2, <2>3 DEF Builds, Grows
<1> HIDE DEF g, n
<1>5. Builds(g, r, n + 1)
  <2>1. g[0] = << >>
    BY <1>1, <1>2, <1>4 DEF Builds, Grows
  <2>2. ASSUME NEW i \in 1..n+1 PROVE g[i] = g[i - 1] \o r[i]
    <3>1. CASE i = n + 1
      <4>1. n + 1 - 1 = n /\ n \in 0..n
        BY <1>1
      <4>2. g[i] = f[n] \o c /\ i - 1 = n /\ g[n] = f[n] /\ r[i] = c
        BY <1>1, <1>4, <3>1, <4>1
      <4> QED
        BY <4>2
    <3>2. CASE i # n + 1
      <4>1. i \in 1..n /\ i \in 0..n /\ i - 1 \in 0..n
        BY <1>1, <3>2
      <4>2. f[i] = f[i - 1] \o q[i]
        BY <1>2, <4>1 DEF Builds, Grows
      <4>3. g[i] = f[i] /\ g[i - 1] = f[i - 1] /\ r[i] = q[i]
        BY <1>1, <1>4, <4>1
      <4>4. g[i - 1] \o r[i] = f[i - 1] \o q[i]
        BY <4>3
      <4>5. g[i] = f[i]
        BY <4>3
      <4> QED
        BY <4>2, <4>4, <4>5
    <3> QED
      BY <3>1, <3>2
  <2> QED
    BY <1>4, <2>1, <2>2 DEF Builds, Grows
<1>6. FlattenSeq(q) = f[n]
  BY <1>2, FlattenBuilds DEF n
<1>7. FlattenSeq(r) = g[n + 1]
  BY <1>1, <1>5, FlattenBuilds
<1> QED
  BY <1>3, <1>4, <1>6, <1>7 DEF r

\* The first n texts and the rest give the whole.
LEMMA FlattenSplit ==
  ASSUME NEW q \in Seq(Text), NEW n \in 0..Len(q)
  PROVE  FlattenSeq(q) = FlattenSeq(SubSeq(q, 1, n)) \o FlattenSeq(SubSeq(q, n + 1, Len(q)))
<1>1. PICK l : l = Len(q) - n
  OBVIOUS
<1>2. Len(q) \in Nat /\ n \in Nat /\ l \in Nat /\ n + l = Len(q)
  BY <1>1, LenProperties
<1>3. PICK y, z : y = SubSeq(q, 1, n) /\ z = SubSeq(q, n + 1, Len(q))
  OBVIOUS
<1>4. /\ y \in Seq(Text) /\ Len(y) = n /\ \A i \in 1..n : y[i] = q[i]
      /\ z \in Seq(Text) /\ Len(z) = l /\ \A i \in 1..l : z[i] = q[n + i]
  BY <1>2, <1>3
<1>5. PICK f, g, h : Builds(f, q, n + l) /\ Builds(g, y, n) /\ Builds(h, z, l)
  <2>1. \E f : Builds(f, q, n + l)
    BY <1>2, BuildsExists
  <2>2. (\E g : Builds(g, y, n)) /\ (\E h : Builds(h, z, l))
    BY <1>4, BuildsExists
  <2> QED
    BY <2>1, <2>2
<1>6. /\ \A i \in 0..n+l : f[i] \in Text
      /\ \A i \in 0..n : g[i] \in Text
      /\ \A i \in 0..l : h[i] \in Text
      /\ \A i \in 1..n+l : q[i] \in Text
      /\ f[0] = << >> /\ g[0] = << >> /\ h[0] = << >>
  BY <1>2, <1>5, ElementOfSeq DEF Builds, Grows
<1>7. f[n] = g[n]
  <2> DEFINE F == [i \in 0..n |-> f[i]]
  <2>1. \A i \in 0..n : i \in 0..n+l
    BY <1>2
  <2>2. F \in [0..n -> Text] /\ g \in [0..n -> Text] /\ \A i \in 0..n : F[i] = f[i]
    BY <1>5, <1>6, <2>1 DEF Builds, Grows
  <2> HIDE DEF F
  <2>3. \A i \in 1..n : i \in 1..n+l /\ i - 1 \in 0..n /\ i \in 0..n
    BY <1>2
  <2>4. \A i \in 1..n : q[i] \in Text
    BY <1>6, <2>3
  <2>5. ASSUME NEW i \in 1..n PROVE F[i] = F[i - 1] \o q[i] /\ g[i] = g[i - 1] \o q[i]
    <3>1. f[i] = f[i - 1] \o q[i]
      BY <1>5, <2>3 DEF Builds, Grows
    <3>2. g[i] = g[i - 1] \o q[i]
      BY <1>4, <1>5 DEF Builds, Grows
    <3> QED
      BY <2>2, <2>3, <3>1, <3>2
  <2>6. << >> \in Text /\ F[0] = << >> \o g[0]
    <3>1. F[0] = << >>
      BY <1>2, <1>6, <2>2
    <3> QED
      BY <1>6, <3>1, ConcatEmptySeq DEF Text
  <2>7. F[n] = << >> \o g[n]
    <3>1. Chain(F, q, n) /\ Chain(g, q, n)
      BY <2>2, <2>4, <2>5 DEF Chain, Grows
    <3>2. PICK e : e = << >>
      OBVIOUS
    <3>3. e \in Text /\ F[0] = e \o g[0] /\ n \in Nat
      BY <1>2, <2>6, <3>2
    <3>4. F[n] = e \o g[n]
      BY <3>1, <3>3, SameSteps
    <3> QED
      BY <3>2, <3>4
  <2>8. n \in 0..n
    BY <1>2
  <2> QED
    BY <1>6, <2>2, <2>7, <2>8, ConcatEmptySeq DEF Text
<1>8. f[n + l] = f[n] \o h[l]
  <2> DEFINE F == [i \in 0..l |-> f[n + i]]
  <2>1. \A i \in 0..l : n + i \in 0..n+l
    BY <1>2
  <2>2. F \in [0..l -> Text] /\ h \in [0..l -> Text] /\ \A i \in 0..l : F[i] = f[n + i]
    BY <1>5, <1>6, <2>1 DEF Builds, Grows
  <2> HIDE DEF F
  <2>3. \A i \in 1..l : n + i \in 1..n+l /\ i - 1 \in 0..l /\ i \in 0..l
    BY <1>2
  <2>4. \A i \in 1..l : z[i] \in Text
    BY <1>4, <1>6, <2>3
  <2>5. ASSUME NEW i \in 1..l PROVE F[i] = F[i - 1] \o z[i] /\ h[i] = h[i - 1] \o z[i]
    <3>1. PICK j : j = n + i
      OBVIOUS
    <3>2. j \in 1..n+l /\ n + (i - 1) = j - 1
      BY <1>2, <2>3, <3>1
    <3>3. f[j] = f[j - 1] \o q[j]
      BY <1>5, <3>2 DEF Builds, Grows
    <3>4. F[i] = f[j] /\ F[i - 1] = f[j - 1] /\ z[i] = q[j]
      BY <1>4, <2>2, <2>3, <3>1, <3>2
    <3>5. h[i] = h[i - 1] \o z[i]
      BY <1>5 DEF Builds, Grows
    <3> QED
      BY <3>3, <3>4, <3>5
  <2>6. f[n] \in Text /\ F[0] = f[n] /\ F[l] = f[n + l]
    <3>1. n \in 0..n+l /\ 0 \in 0..l /\ l \in 0..l /\ n + 0 = n
      BY <1>2
    <3> QED
      BY <1>6, <2>2, <3>1
  <2>7. F[0] = f[n] \o h[0]
    BY <1>6, <2>6, ConcatEmptySeq DEF Text
  <2>8. PICK x : x = f[n]
    OBVIOUS
  <2>9. x \in Text /\ F[0] = x \o h[0] /\ l \in Nat
    BY <1>2, <2>6, <2>7, <2>8
  <2>10. Chain(F, z, l) /\ Chain(h, z, l)
    BY <2>2, <2>4, <2>5 DEF Chain, Grows
  <2>11. F[l] = x \o h[l]
    BY <2>9, <2>10, SameSteps
  <2> QED
    BY <2>6, <2>8, <2>11
<1>9. FlattenSeq(q) = f[n + l] /\ FlattenSeq(y) = g[n] /\ FlattenSeq(z) = h[l]
  BY <1>2, <1>4, <1>5, FlattenBuilds
<1> QED
  BY <1>3, <1>7, <1>8, <1>9

-----------------------------------------------------------------------------
(* Characters that are cut in the middle.                                  *)

\* Continuations up to a first byte that announces more of them.
LEMMA InCutOff ==
  ASSUME NEW s \in Text, NEW i
  PROVE  i \in CutOff(s) <=>
           /\ i \in 1..4 /\ i <= Len(s)
           /\ \A j \in 1..(i - 1) : s[Len(s) + 1 - j] = Continuation
           /\ s[Len(s) + 1 - i] \in 2..4 /\ i < s[Len(s) + 1 - i]
  BY DEF CutOff

\* A text ends with one such character at most.
LEMMA CutOffUnique ==
  ASSUME NEW s \in Text, NEW i \in CutOff(s), NEW j \in CutOff(s)
  PROVE  i = j
<1>1. ASSUME NEW k \in CutOff(s), NEW l \in CutOff(s), k < l PROVE FALSE
  <2>1. k \in 1..4 /\ l \in 1..4 /\ k \in 1..(l - 1)
    BY <1>1, InCutOff
  <2>2. s[Len(s) + 1 - k] = Continuation
    BY <2>1, InCutOff
  <2>3. s[Len(s) + 1 - k] \in 2..4
    BY InCutOff
  <2> QED
    BY <2>2, <2>3 DEF Continuation
<1>2. i \in 1..4 /\ j \in 1..4
  BY InCutOff
<1> QED
  BY <1>1, <1>2

\* The bytes at the end of x \o y, counted from the last.
LEMMA FromTheEnd ==
  ASSUME NEW x \in Text, NEW y \in Text
  PROVE  /\ x \o y \in Text /\ Len(x \o y) = Len(x) + Len(y) /\ Len(x) \in Nat /\ Len(y) \in Nat
         /\ \A k \in 1..Len(y) : (x \o y)[Len(x) + Len(y) + 1 - k] = y[Len(y) + 1 - k]
         /\ \A k \in 1..Len(x) : (x \o y)[Len(x) + 1 - k] = x[Len(x) + 1 - k]
<1>1. PICK a, b, s : a = Len(x) /\ b = Len(y) /\ s = x \o y
  OBVIOUS
<1>2. a \in Nat /\ b \in Nat
  BY <1>1, LenProperties DEF Text
<1>3. /\ s \in Text /\ Len(s) = a + b
      /\ \A i \in 1..a + b : s[i] = IF i <= a THEN x[i] ELSE y[i - a]
  BY <1>1, ConcatProperties DEF Text
<1>4. ASSUME NEW k \in 1..b PROVE s[a + b + 1 - k] = y[b + 1 - k]
  <2>1. PICK i : i = a + b + 1 - k
    OBVIOUS
  <2>2. i \in 1..a + b /\ ~(i <= a) /\ i - a = b + 1 - k
    BY <1>2, <2>1
  <2> QED
    BY <1>3, <2>1, <2>2
<1>5. ASSUME NEW k \in 1..a PROVE s[a + 1 - k] = x[a + 1 - k]
  <2>1. PICK i : i = a + 1 - k
    OBVIOUS
  <2>2. i \in 1..a + b /\ i <= a
    BY <1>2, <2>1
  <2> QED
    BY <1>3, <2>1, <2>2
<1> QED
  BY <1>1, <1>2, <1>3, <1>4, <1>5

\* A character cut off at the end of y is cut off at the end of x \o y.
LEMMA CutOffBehind ==
  ASSUME NEW x \in Text, NEW y \in Text, NEW i \in CutOff(y)
  PROVE  i \in CutOff(x \o y)
<1>1. PICK a, b, s : a = Len(x) /\ b = Len(y) /\ s = x \o y
  OBVIOUS
<1>2. /\ a \in Nat /\ b \in Nat /\ s \in Text /\ Len(s) = a + b
      /\ \A k \in 1..b : s[a + b + 1 - k] = y[b + 1 - k]
  BY <1>1, FromTheEnd
<1>3. /\ i \in 1..4 /\ i <= b
      /\ \A j \in 1..(i - 1) : y[b + 1 - j] = Continuation
      /\ y[b + 1 - i] \in 2..4 /\ i < y[b + 1 - i]
  BY <1>1, InCutOff
<1>4. i \in 1..b /\ \A j \in 1..(i - 1) : j \in 1..b
  BY <1>2, <1>3
<1>5. i <= Len(s)
  BY <1>2, <1>3
<1>6. s[Len(s) + 1 - i] = y[b + 1 - i]
  BY <1>2, <1>4
<1>7. \A j \in 1..(i - 1) : s[Len(s) + 1 - j] = Continuation
  BY <1>2, <1>3, <1>4
<1> QED
  BY <1>1, <1>2, <1>3, <1>5, <1>6, <1>7, InCutOff

\* Whole characters behind whole characters are whole.
LEMMA WholeConcat ==
  ASSUME NEW x \in Text, NEW y \in Text, CutOff(x) = {}, CutOff(y) = {}
  PROVE  CutOff(x \o y) = {}
<1>1. SUFFICES ASSUME NEW i \in CutOff(x \o y) PROVE FALSE
  OBVIOUS
<1>2. PICK a, b, s : a = Len(x) /\ b = Len(y) /\ s = x \o y
  OBVIOUS
<1>3. /\ a \in Nat /\ b \in Nat /\ s \in Text /\ Len(s) = a + b
      /\ \A k \in 1..b : s[a + b + 1 - k] = y[b + 1 - k]
      /\ \A k \in 1..a : s[a + 1 - k] = x[a + 1 - k]
  BY <1>2, FromTheEnd
<1>4. /\ i \in 1..4 /\ i <= a + b
      /\ \A j \in 1..(i - 1) : s[a + b + 1 - j] = Continuation
      /\ s[a + b + 1 - i] \in 2..4 /\ i < s[a + b + 1 - i]
  <2>1. /\ i \in 1..4 /\ i <= Len(s)
        /\ \A j \in 1..(i - 1) : s[Len(s) + 1 - j] = Continuation
        /\ s[Len(s) + 1 - i] \in 2..4 /\ i < s[Len(s) + 1 - i]
    <3>1. s \in Text /\ i \in CutOff(s)
      BY <1>1, <1>2, <1>3
    <3> QED
      BY <3>1, InCutOff
  <2> QED
    BY <1>3, <2>1
<1>5. CASE i <= b
  <2>1. i \in 1..b /\ \A j \in 1..(i - 1) : j \in 1..b
    BY <1>3, <1>4, <1>5
  <2>2. y[b + 1 - i] = s[a + b + 1 - i]
    BY <1>3, <2>1
  <2>3. \A j \in 1..(i - 1) : y[b + 1 - j] = Continuation
    BY <1>3, <1>4, <2>1
  <2>4. i \in CutOff(y)
    BY <1>2, <1>4, <1>5, <2>2, <2>3, InCutOff
  <2> QED
    BY <2>4
<1>6. CASE ~(i <= b)
  <2>1. PICK k : k = i - b
    OBVIOUS
  <2>2. k \in 1..4 /\ k \in 1..a /\ k <= a /\ k <= i /\ a + b + 1 - i = a + 1 - k
    BY <1>3, <1>4, <1>6, <2>1
  <2>3. x[a + 1 - k] = s[a + b + 1 - i]
    BY <1>3, <2>2
  <2>4. x[a + 1 - k] \in 2..4 /\ k < x[a + 1 - k]
    BY <1>4, <2>2, <2>3
  <2>5. ASSUME NEW j \in 1..(k - 1) PROVE x[a + 1 - j] = Continuation
    <3>1. PICK l : l = j + b
      OBVIOUS
    <3>2. l \in 1..(i - 1) /\ j \in 1..a /\ a + b + 1 - l = a + 1 - j
      BY <1>3, <1>4, <2>1, <2>2, <3>1
    <3>3. s[a + b + 1 - l] = Continuation
      BY <1>4, <3>2
    <3> QED
      BY <1>3, <3>2, <3>3
  <2>6. k \in CutOff(x)
    BY <1>2, <2>2, <2>4, <2>5, InCutOff
  <2> QED
    BY <2>6
<1> QED
  BY <1>5, <1>6

\* Cutting a character off leaves a text.
LEMMA RemoveCuts ==
  ASSUME NEW s \in Text, NEW i \in CutOff(s)
  PROVE  /\ remove_incomplete_utf8_char(s) = SubSeq(s, 1, Len(s) - i)
         /\ i \in 1..Len(s)
<1>1. (CHOOSE j \in CutOff(s) : TRUE) = i
  BY CutOffUnique
<1>2. i \in 1..4 /\ i <= Len(s)
  BY InCutOff
<1>3. Len(s) \in Nat
  BY LenProperties DEF Text
<1> QED
  <2>1. remove_incomplete_utf8_char(s) = SubSeq(s, 1, Len(s) - (CHOOSE j \in CutOff(s) : TRUE))
    BY DEF remove_incomplete_utf8_char
  <2>2. i \in 1..Len(s)
    BY <1>2, <1>3
  <2> QED
    BY <1>1, <2>1, <2>2

\* What is cut off at the end of a text is cut off at the end of the buffer,
\* once everything before it is whole.
LEMMA RemoveBehind ==
  ASSUME NEW x \in Text, NEW y \in Text, CutOff(x) = {}, y = << >> \/ CutOff(y) # {}
  PROVE  remove_incomplete_utf8_char(x \o y) = x \o remove_incomplete_utf8_char(y)
<1>1. CASE y = << >>
  <2>1. x \o y = x
    BY <1>1, TextEmpty
  <2>2. CutOff(y) = {}
    BY <1>1, InCutOff, LenProperties, EmptySeq DEF Text, CutOff
  <2> QED
    BY <1>1, <2>1, <2>2 DEF remove_incomplete_utf8_char
<1>2. CASE CutOff(y) # {}
  <2>1. PICK i : i \in CutOff(y)
    BY <1>2
  <2>2. PICK a, b, s : a = Len(x) /\ b = Len(y) /\ s = x \o y
    OBVIOUS
  <2>3. a \in Nat /\ b \in Nat /\ s \in Text /\ Len(s) = a + b
    BY <2>2, FromTheEnd
  <2>4. i \in CutOff(s)
    BY <2>1, <2>2, CutOffBehind
  <2>5. remove_incomplete_utf8_char(s) = SubSeq(s, 1, a + b - i)
    <3>1. remove_incomplete_utf8_char(s) = SubSeq(s, 1, Len(s) - i) /\ i \in 1..Len(s)
      BY <2>3, <2>4, RemoveCuts
    <3>2. Len(s) - i = a + b - i
      BY <2>3, <3>1
    <3> QED
      BY <3>1, <3>2
  <2>6. remove_incomplete_utf8_char(y) = SubSeq(y, 1, b - i) /\ i \in 1..b
    BY <2>1, <2>2, RemoveCuts
  <2>7. SubSeq(s, 1, a + b - i) = x \o SubSeq(y, 1, b - i)
    <3>1. PICK c : c = b - i
      OBVIOUS
    <3>2. c \in 0..b /\ a + b - i = a + c
      BY <2>3, <2>6, <3>1
    <3>3. SubSeq(s, 1, a + c) = x \o SubSeq(y, 1, c)
      <4>1. PICK l, z : l = SubSeq(s, 1, a + c) /\ z = SubSeq(y, 1, c)
        OBVIOUS
      <4>2. l \in Text /\ Len(l) = a + c /\ \A k \in 1..a+c : l[k] = s[k]
        BY <2>3, <3>2, <4>1 DEF Text
      <4>3. z \in Text /\ Len(z) = c /\ \A k \in 1..c : z[k] = y[k]
        BY <2>2, <2>3, <3>2, <4>1 DEF Text
      <4>4. x \o z \in Text /\ Len(x \o z) = a + c
            /\ \A k \in 1..a+c : (x \o z)[k] = IF k <= a THEN x[k] ELSE z[k - a]
        BY <2>2, <4>3, ConcatProperties DEF Text
      <4>5. \A k \in 1..a+b : s[k] = IF k <= a THEN x[k] ELSE y[k - a]
        BY <2>2, ConcatProperties DEF Text
      <4>6. ASSUME NEW k \in 1..a+c PROVE l[k] = (x \o z)[k]
        <5>1. k \in 1..a+b /\ (~(k <= a) => k - a \in 1..c)
          BY <2>3, <3>2
        <5>2. l[k] = IF k <= a THEN x[k] ELSE y[k - a]
          BY <4>2, <4>5, <5>1
        <5>3. ~(k <= a) => z[k - a] = y[k - a]
          BY <4>3, <5>1
        <5> QED
          BY <4>4, <5>2, <5>3
      <4> QED
        BY <4>1, <4>2, <4>4, <4>6, SeqEqual DEF Text
    <3> QED
      BY <3>1, <3>2, <3>3
  <2> QED
    BY <2>2, <2>5, <2>6, <2>7
<1> QED
  BY <1>1, <1>2

\* What comes first is a prefix.
LEMMA FirstIsPrefix ==
  ASSUME NEW x \in Text, NEW y \in Text
  PROVE  IsPrefix(x, x \o y)
<1>1. PICK s : s = x \o y
  OBVIOUS
<1>2. Len(s) = Len(x) + Len(y) /\ s \in Text /\ Len(x) \in Nat /\ Len(y) \in Nat
  BY <1>1, FromTheEnd
<1>3. \A k \in 1..Len(x) : s[k] = x[k]
  <2>1. \A k \in 1..Len(x) + Len(y) :
          s[k] = IF k <= Len(x) THEN x[k] ELSE y[k - Len(x)]
    BY <1>1, ConcatProperties DEF Text
  <2>2. \A k \in 1..Len(x) : k \in 1..Len(x) + Len(y) /\ k <= Len(x)
    BY <1>2
  <2> QED
    BY <2>1, <2>2
<1>4. SubSeq(s, 1, Len(x)) = [k \in 1..Len(x) |-> x[k]]
  BY <1>2, <1>3 DEF Text
<1>5. SubSeq(x, 1, Len(x)) = [k \in 1..Len(x) |-> x[k]]
  BY <1>2 DEF Text
<1> QED
  BY <1>1, <1>2, <1>4, <1>5 DEF IsPrefix

-----------------------------------------------------------------------------
(* What is in the queue.                                                   *)

Lines(q) == [i \in DOMAIN q |-> q[i].text]
Texts(q) == FlattenSeq(Lines(q))

\* The texts of the chunks, one for each
LEMMA TextOfEach ==
  ASSUME NEW q \in Seq(Chunks)
  PROVE  /\ Lines(q) \in Seq(Text) /\ Len(Lines(q)) = Len(q) /\ Len(q) \in Nat
         /\ \A i \in 1..Len(q) : Lines(q)[i] = q[i].text
<1> DEFINE t == Lines(q)
<1>1. Len(q) \in Nat /\ DOMAIN q = 1..Len(q)
  BY LenProperties
<1>2. \A i \in 1..Len(q) : q[i].text \in Text
  <2>1. ASSUME NEW i \in 1..Len(q) PROVE q[i].text \in Text
    <3>1. q[i] \in Chunks
      BY ElementOfSeq
    <3> QED
      BY <3>1 DEF Chunks, Text
  <2> QED
    BY <2>1
<1>3. t = [i \in 1..Len(q) |-> q[i].text]
  BY <1>1 DEF Lines
<1> HIDE DEF t
<1>4. t \in [1..Len(q) -> Text]
  BY <1>2, <1>3
<1>5. t \in Seq(Text)
  BY <1>1, <1>4, IsASeq
<1>6. Len(t) = Len(q)
  BY <1>1, <1>3, <1>5, LenProperties
<1> QED
  BY <1>1, <1>3, <1>5, <1>6 DEF t

\* A sequence cut in two, element by element
LEMMA TwoParts ==
  ASSUME NEW S, NEW q \in Seq(S), NEW n \in Nat, NEW l \in Nat, n + l = Len(q)
  PROVE  /\ SubSeq(q, 1, n) \in Seq(S) /\ Len(SubSeq(q, 1, n)) = n
         /\ \A i \in 1..n : SubSeq(q, 1, n)[i] = q[i]
         /\ SubSeq(q, n + 1, Len(q)) \in Seq(S) /\ Len(SubSeq(q, n + 1, Len(q))) = l
         /\ \A i \in 1..l : SubSeq(q, n + 1, Len(q))[i] = q[n + i]
<1> QED
  OBVIOUS

\* What waits in the queue is a text.
LEMMA TextsType ==
  ASSUME NEW q \in Seq(Chunks)
  PROVE  Texts(q) \in Text
<1>1. Lines(q) \in Seq(Text)
  BY TextOfEach
<1>2. << >> \in Text
  BY TextEmpty, EmptySeq DEF Text
<1> QED
  BY <1>1, <1>2, FlattenAppend DEF Texts

\* Nothing waits in an empty queue.
LEMMA TextsEmpty == Texts(<< >>) = << >>
<1>1. Lines(<< >>) = << >>
  BY DEF Lines
<1> QED
  BY <1>1 DEF Texts, FlattenSeq

\* A chunk more is its text more.
LEMMA TextsAppend ==
  ASSUME NEW q \in Seq(Chunks), NEW c \in Chunks
  PROVE  Texts(Append(q, c)) = Texts(q) \o c.text
<1> DEFINE r == Append(q, c)
           t == Lines(q)
           u == Lines(r)
<1>1. /\ r \in Seq(Chunks) /\ Len(r) = Len(q) + 1 /\ r[Len(q) + 1] = c
      /\ \A i \in 1..Len(q) : r[i] = q[i]
  BY AppendProperties
<1> HIDE DEF r
<1>2. /\ t \in Seq(Text) /\ Len(t) = Len(q) /\ Len(q) \in Nat
      /\ \A i \in 1..Len(q) : t[i] = q[i].text
  BY TextOfEach
<1>3. /\ u \in Seq(Text) /\ Len(u) = Len(q) + 1
      /\ \A i \in 1..Len(q)+1 : u[i] = r[i].text
  <2>1. /\ u \in Seq(Text) /\ Len(u) = Len(r)
        /\ \A i \in 1..Len(r) : u[i] = r[i].text
    BY <1>1, TextOfEach
  <2> HIDE DEF u
  <2> QED
    BY <1>1, <2>1
<1> HIDE DEF t, u
<1>4. c.text \in Text
  BY DEF Chunks, Text
<1>5. PICK v : v = Append(t, c.text)
  OBVIOUS
<1>6. /\ v \in Seq(Text) /\ Len(v) = Len(q) + 1 /\ v[Len(q) + 1] = c.text
      /\ \A i \in 1..Len(q) : v[i] = t[i]
  BY <1>2, <1>4, <1>5, AppendProperties
<1>7. \A i \in 1..Len(q)+1 : u[i] = v[i]
  <2>1. ASSUME NEW i \in 1..Len(q)+1 PROVE u[i] = v[i]
    <3>1. CASE i = Len(q) + 1
      BY <1>1, <1>3, <1>6, <3>1
    <3>2. CASE i # Len(q) + 1
      <4>1. i \in 1..Len(q)
        BY <1>2, <3>2
      <4> QED
        BY <1>1, <1>2, <1>3, <1>6, <4>1
    <3> QED
      BY <3>1, <3>2
  <2> QED
    BY <2>1
<1>8. u = v
  BY <1>3, <1>6, <1>7, SeqEqual
<1>9. FlattenSeq(v) = FlattenSeq(t) \o c.text
  BY <1>2, <1>4, <1>5, FlattenAppend
<1> QED
  BY <1>8, <1>9 DEF Texts, t, u, r

\* The chunks that are merged into one answer, and those left.
LEMMA TextsSplit ==
  ASSUME NEW q \in Seq(Chunks), NEW n \in 0..Len(q)
  PROVE  /\ SubSeq(q, 1, n) \in Seq(Chunks) /\ SubSeq(q, n + 1, Len(q)) \in Seq(Chunks)
         /\ Texts(q) = Texts(SubSeq(q, 1, n)) \o Texts(SubSeq(q, n + 1, Len(q)))
<1> DEFINE y == SubSeq(q, 1, n)
           z == SubSeq(q, n + 1, Len(q))
           t == Lines(q)
           ty == Lines(y)
           tz == Lines(z)
<1>1. PICK l : l = Len(q) - n
  OBVIOUS
<1>2. Len(q) \in Nat /\ n \in Nat /\ l \in Nat /\ n + l = Len(q)
  BY <1>1, LenProperties
<1>3. /\ y \in Seq(Chunks) /\ Len(y) = n /\ \A i \in 1..n : y[i] = q[i]
      /\ z \in Seq(Chunks) /\ Len(z) = l /\ \A i \in 1..l : z[i] = q[n + i]
  <2>1. y \in Seq(Chunks) /\ Len(y) = n /\ \A i \in 1..n : y[i] = q[i]
    BY <1>2, TwoParts
  <2>2. z \in Seq(Chunks) /\ Len(z) = l /\ \A i \in 1..l : z[i] = q[n + i]
    BY <1>2, TwoParts
  <2> QED
    BY <2>1, <2>2
<1> HIDE DEF y, z
<1>4. /\ t \in Seq(Text) /\ Len(t) = Len(q) /\ \A i \in 1..Len(q) : t[i] = q[i].text
      /\ ty \in Seq(Text) /\ Len(ty) = n /\ \A i \in 1..n : ty[i] = y[i].text
      /\ tz \in Seq(Text) /\ Len(tz) = l /\ \A i \in 1..l : tz[i] = z[i].text
  <2>1. /\ t \in Seq(Text) /\ Len(t) = Len(q) /\ \A i \in 1..Len(q) : t[i] = q[i].text
    BY TextOfEach
  <2>2. /\ ty \in Seq(Text) /\ Len(ty) = Len(y) /\ \A i \in 1..Len(y) : ty[i] = y[i].text
    BY <1>3, TextOfEach
  <2>3. /\ tz \in Seq(Text) /\ Len(tz) = Len(z) /\ \A i \in 1..Len(z) : tz[i] = z[i].text
    BY <1>3, TextOfEach
  <2> HIDE DEF t, ty, tz
  <2> QED
    BY <1>3, <2>1, <2>2, <2>3
<1> HIDE DEF t, ty, tz
<1>5. PICK v, w : v = SubSeq(t, 1, n) /\ w = SubSeq(t, n + 1, Len(t))
  OBVIOUS
<1>6. /\ v \in Seq(Text) /\ Len(v) = n /\ \A i \in 1..n : v[i] = t[i]
      /\ w \in Seq(Text) /\ Len(w) = l /\ \A i \in 1..l : w[i] = t[n + i]
  <2>1. n + l = Len(t)
    BY <1>2, <1>4
  <2>2. v \in Seq(Text) /\ Len(v) = n /\ \A i \in 1..n : v[i] = t[i]
    BY <1>2, <1>4, <1>5, <2>1, TwoParts
  <2>3. w \in Seq(Text) /\ Len(w) = l /\ \A i \in 1..l : w[i] = t[n + i]
    BY <1>2, <1>4, <1>5, <2>1, TwoParts
  <2> QED
    BY <2>2, <2>3
<1>7. v = ty
  <2>1. \A i \in 1..n : i \in 1..Len(q)
    BY <1>2
  <2>2. \A i \in 1..n : v[i] = ty[i]
    BY <1>3, <1>4, <1>6, <2>1
  <2> QED
    BY <1>4, <1>6, <2>2, SeqEqual
<1>8. w = tz
  <2>1. \A i \in 1..l : n + i \in 1..Len(q)
    BY <1>2
  <2>2. ASSUME NEW i \in 1..l PROVE w[i] = tz[i]
    <3>1. n + i \in 1..Len(q)
      BY <2>1
    <3>2. w[i] = t[n + i] /\ t[n + i] = q[n + i].text
      BY <1>4, <1>6, <3>1
    <3>3. tz[i] = z[i].text /\ z[i] = q[n + i]
      BY <1>3, <1>4
    <3> QED
      BY <3>2, <3>3
  <2> QED
    BY <1>4, <1>6, <2>2, SeqEqual
<1>9. FlattenSeq(t) = FlattenSeq(v) \o FlattenSeq(w)
  <2>1. n \in 0..Len(t)
    BY <1>4
  <2> QED
    BY <1>4, <1>5, <2>1, FlattenSplit
<1>10. /\ Texts(q) = FlattenSeq(t) /\ Texts(y) = FlattenSeq(ty) /\ Texts(z) = FlattenSeq(tz)
  BY DEF Texts, t, ty, tz
<1> QED
  BY <1>3, <1>7, <1>8, <1>9, <1>10 DEF y, z

-----------------------------------------------------------------------------
(* What a stream has told and what it is still to tell. o stands for what  *)
(* the generating thread has put out, w for the text the client has.       *)

\* The text told, or waiting in the queue to be told
Told(o, w) == w \o Texts(o.queue)

\* Whole characters have been told; what waits in the buffer is the rest.
Underway(o, w) ==
    /\ Told(o, w) \o o.buffer = o.text
    /\ CutOff(Told(o, w)) = {}
    /\ o.buffer = << >> \/ CutOff(o.buffer) # {}

\* A text that is the answer, or what an exception has left of it
IsAnswer(o, text) ==
    IF o.stop = "exception"
    THEN IsPrefix(text, o.text) /\ CutOff(text) = {}
    ELSE text = remove_incomplete_utf8_char(o.text)

\* The last chunk, and no other, says why the stream ends.
EndsWith(queue, stop) ==
    /\ stop # "none" /\ queue # << >> /\ queue[Len(queue)].stop = stop
    /\ \A i \in 1..Len(queue) - 1 : queue[i].stop = "none"

Ending(o, w) == EndsWith(o.queue, o.stop) /\ IsAnswer(o, Told(o, w))
Ended(o, answer) == answer.stop = o.stop /\ IsAnswer(o, answer.text)

Streamed == {"poll", "end", "close", "join"}
Answers  == [text : Text, stop : Stops, done : BOOLEAN]

StreamInv(r) ==
    /\ conn[r] \in {"unsent", "waiting"} => out[r] = NoOutput /\ wire[r] = NoAnswer
    /\ conn[r] \in Streamed => request[r].stream
    /\ conn[r] = "poll" /\ gen[r] \notin Past => Underway(out[r], wire[r].text)
    /\ conn[r] = "poll" /\ gen[r] \in Past => Ending(out[r], wire[r].text)
    /\ conn[r] \in {"end", "close", "join"} => Ended(out[r], wire[r])

\* What can be asked for: nothing yet, or something with a name.
Asked == [name : Names \cup {<< >>}, stream : BOOLEAN, max_tokens : Nat]

StreamsInv ==
    /\ wire \in [Requests -> Answers]
    /\ request \in [Requests -> Asked]
    /\ \A r \in Requests : StreamInv(r)

\* p has one more chunk in its queue than o, and tells it.
Queued(o, p, c) == p.queue = Append(o.queue, c)
Tells(o, p, w, c) == Told(o, w) \in Text /\ Told(p, w) = Told(o, w) \o c.text

\* A whole text put into the queue is told.
LEMMA ToldMore ==
  ASSUME NEW o \in Outputs, NEW p \in Outputs, NEW w \in Text, NEW c \in Chunks,
         Queued(o, p, c)
  PROVE  Tells(o, p, w, c)
<1>1. PICK q, t : q = o.queue /\ t = Texts(q)
  OBVIOUS
<1>2. q \in Seq(Chunks) /\ c.text \in Text
  BY <1>1 DEF Outputs, Chunks, Text
<1>3. t \in Text
  BY <1>1, <1>2, TextsType
<1>4. Told(o, w) = w \o t /\ w \o t \in Text
  BY <1>1, <1>3, TextConcat DEF Told
<1>5. Told(p, w) = w \o (t \o c.text)
  BY <1>1, <1>2, TextsAppend DEF Told, Queued
<1>6. (w \o t) \o c.text = w \o (t \o c.text)
  BY <1>2, <1>3, TextAssociative
<1> QED
  BY <1>2, <1>4, <1>5, <1>6 DEF Tells

\* More text keeps a stream underway.
LEMMA PutUnderway ==
  ASSUME NEW o \in Outputs, NEW w \in Text, NEW piece \in Text, Underway(o, w)
  PROVE  Underway(Put([o EXCEPT !.text = @ \o piece], piece), w)
<1> DEFINE told == [o EXCEPT !.text = @ \o piece]
<1>1. PICK b, s, x : b = o.buffer /\ s = o.text /\ x = Told(o, w)
  OBVIOUS
<1>2. b \in Text /\ s \in Text /\ o.queue \in Seq(Chunks)
  BY <1>1 DEF Outputs, Text
<1>3. x \in Text
  BY <1>1, <1>2, TextsType, TextConcat DEF Told
<1>4. x \o b = s /\ CutOff(x) = {}
  BY <1>1 DEF Underway
<1>5. PICK c, z : c = b \o piece /\ z = s \o piece
  OBVIOUS
<1>6. c \in Text /\ z \in Text /\ x \o c = z
  <2>1. (x \o b) \o piece = x \o (b \o piece)
    BY <1>2, <1>3, TextAssociative
  <2> QED
    BY <1>2, <1>4, <1>5, <2>1, TextConcat
<1>7. /\ told \in Outputs /\ told.text = z /\ told.buffer = b /\ told.queue = o.queue
  BY <1>1, <1>5, <1>6 DEF Outputs, Text
<1> HIDE DEF told
<1>8. CASE is_utf8_string_incomplete(c)
  <2> DEFINE p == [told EXCEPT !.buffer = c]
  <2>1. Put(told, piece) = p
    BY <1>5, <1>7, <1>8 DEF Put
  <2>2. p.text = z /\ p.buffer = c /\ p.queue = o.queue
    BY <1>7 DEF Outputs
  <2> HIDE DEF p
  <2>3. Told(p, w) = x
    BY <1>1, <2>2 DEF Told
  <2> QED
    BY <1>4, <1>6, <1>8, <2>1, <2>2, <2>3 DEF Underway, told, is_utf8_string_incomplete
<1>9. CASE ~is_utf8_string_incomplete(c)
  <2> DEFINE p == [told EXCEPT !.buffer = << >>, !.queue = Append(@, Chunk(c, "none"))]
             d == Chunk(c, "none")
  <2>1. Put(told, piece) = p
    BY <1>5, <1>7, <1>9 DEF Put
  <2>2. d \in Chunks /\ d.text = c
    BY <1>6 DEF Chunk, Chunks, Stops, Text
  <2> HIDE DEF d
  <2>3. p.text = z /\ p.buffer = << >> /\ p.queue = Append(o.queue, d)
    BY <1>7 DEF Outputs, d
  <2>4. p \in Outputs
    <3>1. Append(told.queue, d) \in Seq(Chunks)
      BY <1>2, <1>7, <2>2
    <3>2. << >> \in Seq(Bytes)
      OBVIOUS
    <3> QED
      BY <1>7, <3>1, <3>2 DEF Outputs, d
  <2> HIDE DEF p
  <2>5. Told(p, w) = x \o c
    <3>1. Queued(o, p, d)
      BY <2>3 DEF Queued
    <3>2. Tells(o, p, w, d)
      BY <2>2, <2>4, <3>1, ToldMore
    <3> QED
      BY <1>1, <2>2, <3>2 DEF Tells
  <2>6. CutOff(x \o c) = {}
    BY <1>3, <1>4, <1>6, <1>9, WholeConcat DEF is_utf8_string_incomplete
  <2>7. z \o << >> = z
    BY <1>6, TextEmpty
  <2> QED
    BY <1>6, <2>1, <2>3, <2>5, <2>6, <2>7 DEF Underway, told
<1> QED
  BY <1>8, <1>9 DEF told

\* A chunk with a stop reason behind others without one ends the queue.
LEMMA AppendEnds ==
  ASSUME NEW q \in Seq(Chunks), NEW c \in Chunks, NoStop(q), c.stop # "none"
  PROVE  EndsWith(Append(q, c), c.stop)
<1>1. /\ Append(q, c) # << >> /\ Len(Append(q, c)) = Len(q) + 1 /\ Len(q) \in Nat
      /\ Append(q, c)[Len(q) + 1] = c /\ \A i \in 1..Len(q) : Append(q, c)[i] = q[i]
  BY AppendProperties, LenProperties
<1>2. \A i \in 1..Len(q) : q[i].stop = "none"
  BY LenProperties DEF NoStop
<1>3. Len(q) + 1 - 1 = Len(q)
  BY <1>1
<1> QED
  BY <1>1, <1>2, <1>3 DEF EndsWith

\* An exception leaves the characters told.
LEMMA ExceptionEnds ==
  ASSUME NEW o \in Outputs, NEW p \in Outputs, NEW w \in Text, Underway(o, w), NoStop(o.queue),
         p.text = o.text, p.stop = "exception",
         p.queue = Append(o.queue, Chunk(<< >>, "exception"))
  PROVE  Ending(p, w)
<1>1. PICK c : c = Chunk(<< >>, "exception")
  OBVIOUS
<1>2. c \in Chunks /\ c.text = << >> /\ c.stop = "exception"
  BY <1>1 DEF Chunk, Chunks, Stops
<1>3. PICK x : x = Told(o, w)
  OBVIOUS
<1>4. x \in Text /\ Told(p, w) = x
  <2>1. Queued(o, p, c)
    BY <1>1 DEF Queued
  <2>2. Tells(o, p, w, c)
    BY <1>2, <2>1, ToldMore
  <2>3. x \in Text /\ Told(p, w) = x \o c.text
    BY <1>3, <2>2 DEF Tells
  <2> QED
    BY <1>2, <2>3, TextEmpty
<1>5. IsPrefix(x, o.text) /\ CutOff(x) = {}
  <2>1. o.buffer \in Text
    BY DEF Outputs, Text
  <2> QED
    BY <1>3, <1>4, <2>1, FirstIsPrefix DEF Underway
<1>6. EndsWith(p.queue, "exception")
  <2>1. o.queue \in Seq(Chunks)
    BY DEF Outputs
  <2> QED
    BY <1>1, <1>2, <2>1, AppendEnds
<1> QED
  BY <1>4, <1>5, <1>6 DEF Ending, IsAnswer

\* The last chunk completes the answer.
LEMMA FinishEnds ==
  ASSUME NEW o \in Outputs, NEW p \in Outputs, NEW w \in Text, Underway(o, w), NoStop(o.queue),
         NEW stop \in {"stop", "length"}, p.text = o.text, p.stop = stop,
         p.queue = Append(o.queue, Chunk(remove_incomplete_utf8_char(o.buffer), stop))
  PROVE  Ending(p, w)
<1>1. PICK c, e : e = remove_incomplete_utf8_char(o.buffer) /\ c = Chunk(e, stop)
  OBVIOUS
<1>2. o.buffer \in Text /\ e \in Text
  BY <1>1, RemoveType DEF Outputs, Text
<1>3. c \in Chunks /\ c.text = e /\ c.stop = stop
  BY <1>1, <1>2 DEF Chunk, Chunks, Stops, Text
<1>4. PICK x : x = Told(o, w)
  OBVIOUS
<1>5. x \in Text /\ Told(p, w) = x \o e
  <2>1. Queued(o, p, c)
    BY <1>1 DEF Queued
  <2>2. Tells(o, p, w, c)
    BY <1>3, <2>1, ToldMore
  <2> QED
    BY <1>3, <1>4, <2>2 DEF Tells
<1>6. x \o e = remove_incomplete_utf8_char(o.text)
  <2>1. /\ CutOff(x) = {} /\ x \o o.buffer = o.text
        /\ o.buffer = << >> \/ CutOff(o.buffer) # {}
    BY <1>4 DEF Underway
  <2>2. remove_incomplete_utf8_char(x \o o.buffer) = x \o e
    BY <1>1, <1>2, <1>5, <2>1, RemoveBehind
  <2> QED
    BY <2>1, <2>2
<1>7. EndsWith(p.queue, stop)
  <2>1. o.queue \in Seq(Chunks)
    BY DEF Outputs
  <2> QED
    BY <1>1, <1>3, <2>1, AppendEnds
<1> QED
  BY <1>5, <1>6, <1>7 DEF Ending, IsAnswer

\* Fetching moves text from the queue to the client.
LEMMA FetchTold ==
  ASSUME NEW o \in Outputs, NEW p \in Outputs, NEW w \in Text, NEW n \in 0..Len(o.queue),
         p.queue = SubSeq(o.queue, n + 1, Len(o.queue))
  PROVE  /\ Texts(SubSeq(o.queue, 1, n)) \in Text
         /\ w \o Texts(SubSeq(o.queue, 1, n)) \in Text
         /\ Told(p, w \o Texts(SubSeq(o.queue, 1, n))) = Told(o, w)
<1>1. PICK q, x, y : /\ q = o.queue
                     /\ x = Texts(SubSeq(q, 1, n)) /\ y = Texts(SubSeq(q, n + 1, Len(q)))
  OBVIOUS
<1>2. q \in Seq(Chunks) /\ n \in 0..Len(q)
  BY <1>1 DEF Outputs
<1>3. Texts(q) = x \o y /\ x \in Text /\ y \in Text
  BY <1>1, <1>2, TextsSplit, TextsType
<1>4. (w \o x) \o y = w \o (x \o y) /\ w \o x \in Text
  BY <1>3, TextAssociative, TextConcat
<1> QED
  BY <1>1, <1>3, <1>4 DEF Told

\* What is left of a queue that ends ends in the same way.
LEMMA RestEnds ==
  ASSUME NEW q \in Seq(Chunks), NEW stop, EndsWith(q, stop), NEW n \in Nat, n < Len(q)
  PROVE  EndsWith(SubSeq(q, n + 1, Len(q)), stop)
<1>1. PICK l : l = Len(q) - n
  OBVIOUS
<1>2. Len(q) \in Nat /\ l \in Nat \ {0} /\ n + l = Len(q)
  BY <1>1, LenProperties
<1>3. PICK z : z = SubSeq(q, n + 1, Len(q))
  OBVIOUS
<1>4. z \in Seq(Chunks) /\ Len(z) = l /\ \A i \in 1..l : z[i] = q[n + i]
  BY <1>2, <1>3, TwoParts
<1>5. z # << >>
  BY <1>2, <1>4, EmptySeq
<1>6. z[l] = q[Len(q)]
  BY <1>2, <1>4
<1>7. ASSUME NEW i \in 1..l - 1 PROVE z[i].stop = "none"
  <2>1. i \in 1..l /\ n + i \in 1..Len(q) - 1
    BY <1>2
  <2> QED
    BY <1>4, <2>1 DEF EndsWith
<1> QED
  BY <1>3, <1>4, <1>5, <1>6, <1>7 DEF EndsWith

-----------------------------------------------------------------------------
(* The streams, step by step.                                              *)

\* What a step of r does to the streams.
StreamMoves(r) ==
    /\ wire' \in [Requests -> Answers] /\ request' \in [Requests -> Asked]
    /\ \A s \in Requests \ {r} : wire'[s] = wire[s] /\ request'[s] = request[s]
    /\ StreamInv(r)'

\* A stream follows from what is known of its own request.
LEMMA SameStream ==
  ASSUME NEW s, StreamInv(s), conn'[s] = conn[s], out'[s] = out[s], wire'[s] = wire[s],
         request'[s] = request[s], gen'[s] \in Past <=> gen[s] \in Past
  PROVE  StreamInv(s)'
<1>1. /\ conn[s] \in {"unsent", "waiting"} => out[s] = NoOutput /\ wire[s] = NoAnswer
      /\ conn[s] \in Streamed => request[s].stream
      /\ conn[s] = "poll" /\ gen[s] \notin Past => Underway(out[s], wire[s].text)
      /\ conn[s] = "poll" /\ gen[s] \in Past => Ending(out[s], wire[s].text)
      /\ conn[s] \in {"end", "close", "join"} => Ended(out[s], wire[s])
  BY DEF StreamInv
<1> QED
  BY <1>1 DEF StreamInv

\* The streams of the others stay as they are.
LEMMA OneStreamMoves ==
  ASSUME StreamsInv, NEW r \in Requests, Others(r), StreamMoves(r)
  PROVE  StreamsInv'
<1>1. ASSUME NEW s \in Requests PROVE StreamInv(s)'
  <2>1. CASE s = r
    BY <2>1 DEF StreamMoves
  <2>2. CASE s # r
    <3>1. /\ conn'[s] = conn[s] /\ gen'[s] = gen[s] /\ out'[s] = out[s]
          /\ wire'[s] = wire[s] /\ request'[s] = request[s]
      BY <2>2 DEF Others, StreamMoves
    <3>2. StreamInv(s)
      BY DEF StreamsInv
    <3> QED
      BY <3>1, <3>2, SameStream
  <2> QED
    BY <2>1, <2>2
<1> QED
  BY <1>1 DEF StreamsInv, StreamMoves

\* A step that does nothing a client of r could see
LEMMA QuietStream ==
  ASSUME StreamsInv, NEW r \in Requests, UNCHANGED << conn, out, wire, request >>,
         gen'[r] \in Past <=> gen[r] \in Past
  PROVE  StreamMoves(r)
<1>1. StreamInv(r)
  BY DEF StreamsInv
<1>2. StreamInv(r)'
  BY <1>1, SameStream
<1> QED
  BY <1>2 DEF StreamMoves, StreamsInv

\* A request that is answered in one piece, or has been answered
LEMMA NotStreamed ==
  ASSUME NEW r \in Requests, conn'[r] \in {"inline", "answered"}
  PROVE  StreamInv(r)'
<1> QED
  BY DEF StreamInv, Streamed

\* What a whole text can be told in one piece is typed.
LEMMA AnswerTypes ==
  /\ NoAnswer \in Answers
  /\ \A stop \in Stops : Answered(stop) \in Answers
<1>1. << >> \in Text
  BY EmptySeq DEF Text
<1> QED
  BY <1>1 DEF NoAnswer, Answered, Answers, Stops

\* Nothing has been told of nothing.
LEMMA UnderwayFirst == Underway(NoOutput, NoAnswer.text)
<1>1. << >> \in Text
  BY EmptySeq DEF Text
<1>2. Told(NoOutput, << >>) = << >>
  <2>1. Told(NoOutput, << >>) = << >> \o Texts(<< >>)
    BY DEF Told, NoOutput
  <2> QED
    BY <1>1, <2>1, TextsEmpty, TextEmpty
<1>3. CutOff(<< >>) = {}
  BY DEF CutOff
<1>4. << >> \o << >> = << >>
  BY <1>1, TextEmpty
<1> QED
  BY <1>2, <1>3, <1>4 DEF Underway, NoOutput, NoAnswer

\* An exception, wherever it is thrown
LEMMA ReportStream ==
  ASSUME IInv, StreamsInv, NEW r \in Requests, Report(r), request' = request,
         gen[r] \notin Past, gen[r] # "none", TypedNext
  PROVE  StreamMoves(r)
<1>1. CASE ~request[r].stream
  <2>1. /\ conn' = [conn EXCEPT ![r] = "answered"]
        /\ wire' = [wire EXCEPT ![r] = Answered("exception")]
    BY <1>1 DEF Report
  <2>2. conn'[r] = "answered"
    BY <2>1 DEF IInv, Typed
  <2>3. wire' \in [Requests -> Answers]
    BY <2>1, AnswerTypes DEF StreamsInv, Stops
  <2> QED
    BY <2>1, <2>2, <2>3, NotStreamed DEF StreamMoves, StreamsInv
<1>2. CASE request[r].stream
  <2>1. /\ UNCHANGED << conn, wire >> /\ gen' = [gen EXCEPT ![r] = "exited"]
        /\ out' = [out EXCEPT ![r].queue = Append(@, Chunk(<< >>, "exception")),
                              ![r].stop = "exception"]
    BY <1>2 DEF Report
  <2>2. gen'[r] = "exited" /\ out[r] \in Outputs /\ out'[r] \in Outputs
    BY <2>1 DEF IInv, Typed, TypedNext
  <2>3. /\ out'[r].text = out[r].text /\ out'[r].stop = "exception"
        /\ out'[r].queue = Append(out[r].queue, Chunk(<< >>, "exception"))
    BY <2>1, <2>2 DEF IInv, Typed, Outputs
  <2>4. NoStop(out[r].queue) /\ conn[r] \notin {"unsent", "waiting", "end", "close", "join"}
    BY DEF IInv, ThreadsInStep
  <2>5. /\ StreamInv(r) /\ wire \in [Requests -> Answers] /\ request \in [Requests -> Asked]
    BY DEF StreamsInv
  <2>6. conn[r] = "poll" => Ending(out'[r], wire[r].text)
    <3>1. SUFFICES ASSUME conn[r] = "poll" PROVE Ending(out'[r], wire[r].text)
      OBVIOUS
    <3>2. Underway(out[r], wire[r].text)
      BY <3>1, <2>5 DEF StreamInv
    <3>3. PICK o, p, w : o = out[r] /\ p = out'[r] /\ w = wire[r].text
      OBVIOUS
    <3>4. w \in Text
      BY <2>5, <3>3 DEF Answers
    <3>5. Ending(p, w)
      BY <2>2, <2>3, <2>4, <3>2, <3>3, <3>4, ExceptionEnds
    <3> QED
      BY <3>3, <3>5
  <2>7. StreamInv(r)'
    BY <1>2, <2>1, <2>2, <2>4, <2>6 DEF StreamInv, Past
  <2> QED
    BY <2>1, <2>5, <2>7 DEF StreamMoves
<1> QED
  BY <1>1, <1>2

\* The chunks that are fetched at once, and the answer that is made of them
LEMMA FetchedChunks ==
  ASSUME NEW r \in Requests, out[r].queue \in Seq(Chunks), Fetchable(r) # << >>
  PROVE  \E n \in 1..Len(out[r].queue) :
            /\ Merged(Fetchable(r)).text = Texts(SubSeq(out[r].queue, 1, n))
            /\ Merged(Fetchable(r)).stop = out[r].queue[n].stop
            /\ Len(Fetchable(r)) = n
<1> DEFINE q == out[r].queue
           n == IF Len(q) < MaxChunk THEN Len(q) ELSE MaxChunk
<1>1. n \in 1..Len(q) /\ Fetchable(r) = SubSeq(q, 1, n) /\ Len(Fetchable(r)) = n
  BY ServerAssumption DEF Fetchable
<1>2. Last(Fetchable(r)) = q[n]
  BY <1>1 DEF Last
<1>3. Merged(Fetchable(r)).text = Texts(Fetchable(r))
  BY DEF Merged, Chunk, Texts, Lines
<1>4. Merged(Fetchable(r)).stop = Last(Fetchable(r)).stop
  BY DEF Merged, Chunk
<1> HIDE DEF n
<1> QED
  BY <1>1, <1>2, <1>3, <1>4

\* Text and buffer stay, and so does what has been told.
LEMMA StaysUnderway ==
  ASSUME NEW o, NEW p, NEW w, NEW v, Underway(o, w), p.text = o.text, p.buffer = o.buffer,
         Told(p, v) = Told(o, w)
  PROVE  Underway(p, v)
<1> QED
  BY DEF Underway

\* Fetching while the generation goes on
LEMMA FetchUnderway ==
  ASSUME NEW o \in Outputs, NEW w \in Text, NEW n \in 0..Len(o.queue), Underway(o, w),
         NEW p \in Outputs, p.text = o.text, p.buffer = o.buffer,
         p.queue = SubSeq(o.queue, n + 1, Len(o.queue))
  PROVE  Underway(p, w \o Texts(SubSeq(o.queue, 1, n)))
<1>1. PICK v : v = w \o Texts(SubSeq(o.queue, 1, n))
  OBVIOUS
<1>2. Told(p, v) = Told(o, w)
  BY <1>1, FetchTold
<1> QED
  BY <1>1, <1>2, StaysUnderway

\* Fetching a part of what is left
LEMMA FetchEnding ==
  ASSUME NEW o \in Outputs, NEW w \in Text, NEW n \in Nat, n < Len(o.queue), Ending(o, w),
         NEW p \in Outputs, p.text = o.text, p.stop = o.stop,
         p.queue = SubSeq(o.queue, n + 1, Len(o.queue))
  PROVE  Ending(p, w \o Texts(SubSeq(o.queue, 1, n)))
<1>1. PICK v, q : v = w \o Texts(SubSeq(o.queue, 1, n)) /\ q = o.queue
  OBVIOUS
<1>2. q \in Seq(Chunks) /\ Len(q) \in Nat
  BY <1>1, LenProperties DEF Outputs
<1>3. n \in 0..Len(q)
  BY <1>1, <1>2
<1>4. Told(p, v) = Told(o, w)
  BY <1>1, <1>3, FetchTold
<1>5. EndsWith(q, o.stop)
  BY <1>1 DEF Ending
<1>6. EndsWith(p.queue, p.stop)
  BY <1>1, <1>2, <1>5, RestEnds
<1>7. IsAnswer(p, Told(p, v))
  BY <1>4 DEF Ending, IsAnswer
<1> QED
  BY <1>1, <1>6, <1>7 DEF Ending

\* Fetching all that is left
LEMMA FetchLast ==
  ASSUME NEW o \in Outputs, NEW w \in Text, Ending(o, w),
         NEW p \in Outputs, p.text = o.text, p.stop = o.stop,
         p.queue = SubSeq(o.queue, Len(o.queue) + 1, Len(o.queue))
  PROVE  IsAnswer(p, w \o Texts(SubSeq(o.queue, 1, Len(o.queue))))
<1>1. PICK n : n = Len(o.queue)
  OBVIOUS
<1>2. o.queue \in Seq(Chunks) /\ n \in 0..Len(o.queue)
  BY <1>1, LenProperties DEF Outputs
<1>3. PICK v : v = w \o Texts(SubSeq(o.queue, 1, n))
  OBVIOUS
<1>4. v \in Text /\ Told(p, v) = Told(o, w)
  BY <1>1, <1>2, <1>3, FetchTold
<1>5. p.queue = << >>
  BY <1>2
<1>6. Told(p, v) = v
  BY <1>4, <1>5, TextsEmpty, TextEmpty DEF Told
<1>7. IsAnswer(p, v)
  BY <1>4, <1>6 DEF Ending, IsAnswer
<1> QED
  BY <1>1, <1>3, <1>7

\* Fetching a result tells the client what was in the queue, and ends the
\* stream with the last chunk.
LEMMA FetchStream ==
  ASSUME IInv, StreamsInv, NEW r \in Requests, FetchResult(r), TypedNext
  PROVE  StreamMoves(r)
<1>1. /\ out[r] \in Outputs /\ out[r].queue \in Seq(Chunks) /\ out'[r] \in Outputs
      /\ wire \in [Requests -> Answers] /\ request \in [Requests -> Asked]
      /\ StreamInv(r) /\ ThreadsInStep(r)
  BY DEF IInv, Typed, TypedNext, Outputs, StreamsInv
<1>2. conn[r] = "poll" /\ Fetchable(r) # << >> /\ UNCHANGED << gen, request >>
  BY DEF FetchResult
<1>3. PICK n \in 1..Len(out[r].queue) :
          /\ Merged(Fetchable(r)).text = Texts(SubSeq(out[r].queue, 1, n))
          /\ Merged(Fetchable(r)).stop = out[r].queue[n].stop
          /\ Len(Fetchable(r)) = n
  BY <1>1, <1>2, FetchedChunks
<1>4. PICK o, p, q, w, t, e : /\ o = out[r] /\ p = out'[r] /\ q = o.queue /\ w = wire[r].text
                              /\ t = Texts(SubSeq(q, 1, n)) /\ e = q[n].stop
  OBVIOUS
<1>5. o \in Outputs /\ p \in Outputs /\ q \in Seq(Chunks) /\ w \in Text
  BY <1>1, <1>4 DEF Answers
<1>6. Len(q) \in Nat /\ n \in 1..Len(q)
  BY <1>3, <1>4, <1>5, LenProperties
<1>7. e \in Stops
  <2>1. q[n] \in Chunks
    BY <1>5, <1>6, ElementOfSeq
  <2> QED
    BY <1>4, <2>1 DEF Chunks
<1>8. out' = [out EXCEPT ![r].queue = SubSeq(q, n + 1, Len(q))]
  BY <1>3, <1>4 DEF FetchResult, Dequeued
<1>9. /\ p.text = o.text /\ p.buffer = o.buffer /\ p.stop = o.stop
      /\ p.queue = SubSeq(q, n + 1, Len(q))
  BY <1>1, <1>4, <1>8 DEF IInv, Typed, Outputs
<1>10. w \o t \in Text
  BY <1>4, <1>5, <1>6, <1>9, FetchTold
<1>11. wire' = [wire EXCEPT ![r].text = @ \o t, ![r].stop = e]
  BY <1>3, <1>4 DEF FetchResult
<1>12. conn' = IF e = "none" THEN conn ELSE [conn EXCEPT ![r] = "end"]
  BY <1>3, <1>4 DEF FetchResult
<1>13. wire' \in [Requests -> Answers] /\ wire'[r].text = w \o t /\ wire'[r].stop = e
  <2>1. PICK a : a = [wire[r] EXCEPT !.text = w \o t, !.stop = e]
    OBVIOUS
  <2>2. a \in Answers /\ a.text = w \o t /\ a.stop = e
    BY <1>1, <1>7, <1>10, <2>1 DEF Answers
  <2>3. wire' = [wire EXCEPT ![r] = a]
    BY <1>1, <1>4, <1>11, <2>1
  <2> QED
    BY <1>1, <2>2, <2>3
<1>14. CASE gen[r] \notin Past
  <2>1. e = "none"
    <3>1. n \in DOMAIN q
      BY <1>5, <1>6, LenProperties
    <3>2. NoStop(q)
      BY <1>1, <1>4, <1>14 DEF ThreadsInStep
    <3> QED
      BY <1>4, <3>1, <3>2 DEF NoStop
  <2>2. conn' = conn
    BY <1>12, <2>1
  <2>3. Underway(o, w)
    BY <1>1, <1>2, <1>4, <1>14 DEF StreamInv
  <2>4. Underway(p, w \o t)
    <3>1. n \in 0..Len(o.queue) /\ p.queue = SubSeq(o.queue, n + 1, Len(o.queue))
      BY <1>4, <1>6, <1>9
    <3>2. t = Texts(SubSeq(o.queue, 1, n))
      BY <1>4
    <3> QED
      BY <1>5, <1>9, <2>3, <3>1, <3>2, FetchUnderway
  <2>5. StreamInv(r)'
    BY <1>1, <1>2, <1>4, <1>13, <1>14, <2>2, <2>4 DEF StreamInv, Streamed
  <2> QED
    BY <1>1, <1>2, <1>11, <1>13, <2>5 DEF StreamMoves
<1>15. CASE gen[r] \in Past
  <2>1. Ending(o, w)
    BY <1>1, <1>2, <1>4, <1>15 DEF StreamInv
  <2>2. CASE n = Len(q)
    <3>1. e = o.stop /\ e # "none"
      BY <1>4, <2>1, <2>2 DEF Ending, EndsWith
    <3>2. conn'[r] = "end"
      BY <1>12, <3>1 DEF IInv, Typed
    <3>3. IsAnswer(p, w \o t)
      BY <1>4, <1>5, <1>9, <2>1, <2>2, FetchLast
    <3>4. Ended(out'[r], wire'[r])
      BY <1>4, <1>9, <1>13, <3>1, <3>3 DEF Ended
    <3>5. request'[r].stream
      BY <1>1, <1>2 DEF StreamInv, Streamed
    <3>6. StreamInv(r)'
      BY <3>2, <3>4, <3>5 DEF StreamInv
    <3> QED
      BY <1>1, <1>2, <1>11, <1>13, <3>6 DEF StreamMoves
  <2>3. CASE n # Len(q)
    <3>1. n \in Nat /\ n < Len(q) /\ n \in 1..Len(q) - 1
      BY <1>6, <2>3
    <3>2. e = "none"
      BY <1>4, <2>1, <3>1 DEF Ending, EndsWith
    <3>3. conn' = conn
      BY <1>12, <3>2
    <3>4. Ending(p, w \o t)
      BY <1>4, <1>5, <1>9, <2>1, <3>1, FetchEnding
    <3>5. StreamInv(r)'
      BY <1>1, <1>2, <1>4, <1>13, <1>15, <3>3, <3>4 DEF StreamInv, Streamed
    <3> QED
      BY <1>1, <1>2, <1>11, <1>13, <3>5 DEF StreamMoves
  <2> QED
    BY <2>2, <2>3
<1> QED
  BY <1>14, <1>15

\* The thread that serves a request
LEMMA ServeStream ==
  ASSUME IInv, StreamsInv, NEW r \in Requests, TypedNext,
         \/ Send(r) \/ AnswerAtOnce(r) \/ Accept(r) \/ SendDone(r) \/ EraseSession(r)
         \/ JoinThread(r) \/ DumpThrows(r)
  PROVE  StreamMoves(r)
<1>1. /\ conn \in [Requests -> ConnStates] /\ gen \in [Requests -> GenStates]
      /\ wire \in [Requests -> Answers] /\ request \in [Requests -> Asked] /\ StreamInv(r)
  BY DEF IInv, Typed, StreamsInv
<1>2. CASE Send(r)
  <2>1. PICK q \in [name : Names, stream : BOOLEAN, max_tokens : Budgets] :
           request' = [request EXCEPT ![r] = q]
    BY <1>2 DEF Send
  <2>2. q \in Asked
    BY ServerAssumption DEF Asked
  <2>3. request' \in [Requests -> Asked] /\ \A s \in Requests \ {r} : request'[s] = request[s]
    BY <1>1, <2>1, <2>2
  <2>4. conn[r] = "unsent" /\ conn'[r] = "waiting" /\ UNCHANGED << out, wire >>
    BY <1>1, <1>2 DEF Send
  <2>5. StreamInv(r)'
    BY <1>1, <2>4 DEF StreamInv, Streamed
  <2> QED
    BY <1>1, <2>3, <2>4, <2>5 DEF StreamMoves
<1>3. CASE AnswerAtOnce(r)
  <2>1. /\ conn'[r] = "answered" /\ wire' = [wire EXCEPT ![r] = Answered("exception")]
        /\ request' = request
    BY <1>1, <1>3 DEF AnswerAtOnce
  <2>2. wire' \in [Requests -> Answers]
    BY <1>1, <2>1, AnswerTypes DEF Stops
  <2> QED
    BY <1>1, <2>1, <2>2, NotStreamed DEF StreamMoves
<1>4. CASE StartInline(r)
  <2>1. conn'[r] = "inline" /\ UNCHANGED << wire, request >>
    BY <1>1, <1>4 DEF StartInline
  <2> QED
    BY <1>1, <2>1, NotStreamed DEF StreamMoves
<1>5. CASE conn[r] = "waiting" /\ StartSession(r)
  <2>1. /\ conn'[r] = "poll" /\ gen'[r] = "setup" /\ request[r].stream
        /\ UNCHANGED << out, wire, request >>
    BY <1>1, <1>5 DEF StartSession
  <2>2. out[r] = NoOutput /\ wire[r] = NoAnswer
    BY <1>1, <1>5 DEF StreamInv
  <2>3. Underway(out'[r], wire'[r].text)
    BY <2>1, <2>2, UnderwayFirst
  <2>4. StreamInv(r)'
    BY <2>1, <2>3 DEF StreamInv, Past
  <2> QED
    BY <1>1, <2>1, <2>4 DEF StreamMoves
<1>6. CASE SendDone(r)
  <2>1. /\ conn[r] = "end" /\ conn'[r] = "close" /\ wire' = [wire EXCEPT ![r].done = TRUE]
        /\ UNCHANGED << gen, out, request >>
    BY <1>1, <1>6 DEF SendDone
  <2>2. /\ wire' \in [Requests -> Answers]
        /\ wire'[r].text = wire[r].text /\ wire'[r].stop = wire[r].stop
    BY <1>1, <2>1 DEF Answers
  <2>3. Ended(out'[r], wire'[r])
    BY <1>1, <2>1, <2>2 DEF StreamInv, Ended
  <2>4. StreamInv(r)'
    BY <1>1, <2>1, <2>3 DEF StreamInv, Streamed
  <2> QED
    BY <1>1, <2>1, <2>2, <2>4 DEF StreamMoves
<1>7. CASE EraseSession(r)
  <2>1. conn[r] = "close" /\ conn'[r] = "join" /\ UNCHANGED << gen, out, wire, request >>
    BY <1>1, <1>7 DEF EraseSession
  <2>2. StreamInv(r)'
    BY <1>1, <2>1 DEF StreamInv, Streamed
  <2> QED
    BY <1>1, <2>1, <2>2 DEF StreamMoves
<1>8. CASE JoinThread(r)
  <2>1. /\ conn'[r] = "answered" /\ request' = request
        /\ wire' = [wire EXCEPT ![r].text = << >>, ![r].stop = "none"]
    BY <1>1, <1>8 DEF JoinThread
  <2>2. wire' \in [Requests -> Answers]
    <3>1. << >> \in Text
      BY EmptySeq DEF Text
    <3>2. "none" \in Stops
      BY DEF Stops
    <3> QED
      BY <1>1, <2>1, <3>1, <3>2 DEF Answers
  <2> QED
    BY <1>1, <2>1, <2>2, NotStreamed DEF StreamMoves
<1>9. CASE DumpThrows(r)
  BY <1>9, QuietStream DEF DumpThrows, Stop
<1> QED
  BY <1>2, <1>3, <1>4, <1>5, <1>6, <1>7, <1>8, <1>9 DEF Accept

\* The thread that generates, before it has a context
LEMMA SetupStream ==
  ASSUME IInv, StreamsInv, NEW r \in Requests, TypedNext, Setup(r)
  PROVE  StreamMoves(r)
<1>1. gen \in [Requests -> GenStates]
  BY DEF IInv, Typed
<1>2. CASE SetupCached(r) \/ LoadModel(r) \/ KeepContext(r)
  <2>1. gen[r] \notin Past /\ gen'[r] \notin Past /\ UNCHANGED << conn, out, wire, request >>
    BY <1>1, <1>2 DEF SetupCached, LoadModel, KeepContext, Past
  <2> QED
    BY <2>1, QuietStream
<1>3. CASE LoadFails(r)
  BY <1>3, ReportStream DEF LoadFails, Past
<1>4. CASE BeginLoad(r)
  <2>1. gen[r] = "setup" /\ request' = request
    BY <1>4 DEF BeginLoad
  <2>2. CASE Report(r)
    BY <2>1, <2>2, ReportStream DEF Past
  <2>3. CASE gen' = [gen EXCEPT ![r] = "load"] /\ UNCHANGED << conn, out, wire >>
    <3>1. gen[r] \notin Past /\ gen'[r] \notin Past
      BY <1>1, <2>1, <2>3 DEF Past
    <3> QED
      BY <2>1, <2>3, <3>1, QuietStream
  <2> QED
    BY <1>4, <2>2, <2>3 DEF BeginLoad
<1> QED
  BY <1>2, <1>3, <1>4 DEF Setup

\* Counting a step changes nothing else.
LEMMA CountStep ==
  ASSUME NEW o \in Outputs
  PROVE  LET p == [o EXCEPT !.step = @ + 1]
         IN  p \in Outputs /\ p.text = o.text /\ p.buffer = o.buffer /\ p.queue = o.queue
<1> QED
  BY DEF Outputs

\* A forward pass, and what it gives to show
LEMMA ForwardStream ==
  ASSUME IInv, StreamsInv, NEW r \in Requests, EndForward(r)
  PROVE  StreamMoves(r)
<1>1. /\ out \in [Requests -> Outputs] /\ gen \in [Requests -> GenStates] /\ out[r] \in Outputs
      /\ wire \in [Requests -> Answers] /\ request \in [Requests -> Asked]
      /\ StreamInv(r) /\ ThreadsInStep(r)
  BY DEF IInv, Typed, StreamsInv
<1>2. gen[r] = "forward" /\ gen'[r] \notin Past /\ UNCHANGED << conn, wire, request >>
  BY <1>1 DEF EndForward, Past
<1>3. conn[r] \notin {"unsent", "waiting", "end", "close", "join"}
  BY <1>1, <1>2 DEF ThreadsInStep, Past
<1>4. ASSUME conn[r] = "poll" PROVE Underway(out'[r], wire[r].text)
  <2> DEFINE o == [out[r] EXCEPT !.step = @ + 1]
             w == wire[r].text
  <2>1. w \in Text /\ Underway(out[r], w) /\ request[r].stream
    BY <1>1, <1>2, <1>4 DEF StreamInv, Streamed, Past, Answers
  <2>2. o \in Outputs /\ o.text = out[r].text /\ o.buffer = out[r].buffer /\ o.queue = out[r].queue
    BY <1>1, CountStep
  <2>3. \/ out' = [out EXCEPT ![r] = o]
        \/ \E piece \in Pieces : out' = [out EXCEPT ![r] = Yield(r, o, piece)]
        \/ out' = [out EXCEPT ![r] = [o EXCEPT !.stop = "stop"]]
    BY DEF EndForward
  <2> HIDE DEF o, w
  <2>4. Underway(o, w)
    <3>1. Told(o, w) = Told(out[r], w)
      BY <2>2 DEF Told
    <3> QED
      BY <2>1, <2>2, <3>1, StaysUnderway
  <2>5. CASE out' = [out EXCEPT ![r] = o]
    BY <1>1, <2>4, <2>5 DEF w
  <2>6. CASE out' = [out EXCEPT ![r] = [o EXCEPT !.stop = "stop"]]
    <3>1. PICK p : p = [o EXCEPT !.stop = "stop"]
      OBVIOUS
    <3>2. p.text = o.text /\ p.buffer = o.buffer /\ p.queue = o.queue
      BY <2>2, <3>1 DEF Outputs
    <3>3. Told(p, w) = Told(o, w)
      BY <3>2 DEF Told
    <3>4. Underway(p, w)
      BY <2>4, <3>2, <3>3, StaysUnderway
    <3> QED
      BY <1>1, <2>6, <3>1, <3>4 DEF w
  <2>7. ASSUME NEW piece \in Pieces, out' = [out EXCEPT ![r] = Yield(r, o, piece)]
        PROVE  Underway(out'[r], wire[r].text)
    <3>1. piece \in Text
      BY ServerAssumption DEF Text
    <3>2. Yield(r, o, piece) = Put([o EXCEPT !.text = @ \o piece], piece)
      BY <2>1 DEF Yield
    <3>3. Underway(Yield(r, o, piece), w)
      BY <2>1, <2>2, <2>4, <3>1, <3>2, PutUnderway
    <3> QED
      BY <1>1, <2>7, <3>3 DEF w
  <2> QED
    BY <2>3, <2>5, <2>6, <2>7
<1>5. StreamInv(r)'
  BY <1>1, <1>2, <1>3, <1>4 DEF StreamInv, Streamed
<1> QED
  BY <1>1, <1>2, <1>5 DEF StreamMoves

\* The end of an answer
LEMMA FinishStream ==
  ASSUME IInv, StreamsInv, NEW r \in Requests, TypedNext, Finish(r)
  PROVE  StreamMoves(r)
<1>1. /\ out \in [Requests -> Outputs] /\ gen \in [Requests -> GenStates]
      /\ out[r] \in Outputs /\ out'[r] \in Outputs
      /\ wire \in [Requests -> Answers] /\ request \in [Requests -> Asked]
      /\ StreamInv(r) /\ ThreadsInStep(r)
  BY DEF IInv, Typed, StreamsInv, TypedNext
<1>2. /\ gen[r] \in {"final", "decode"} /\ gen'[r] = "closing"
      /\ UNCHANGED << conn, wire, request >>
  BY <1>1 DEF Finish
<1>3. conn[r] \notin {"unsent", "waiting", "end", "close", "join"} /\ NoStop(out[r].queue)
  BY <1>1, <1>2 DEF ThreadsInStep, Past
<1>4. ASSUME conn[r] = "poll" PROVE Ending(out'[r], wire[r].text)
  <2>1. PICK o, p, w : o = out[r] /\ p = out'[r] /\ w = wire[r].text
    OBVIOUS
  <2>2. w \in Text /\ Underway(o, w) /\ request[r].stream
    BY <1>1, <1>2, <1>4, <2>1 DEF StreamInv, Streamed, Past, Answers
  <2>3. PICK stop \in {"stop", "length"} :
          out' = [out EXCEPT
                    ![r].stop = stop,
                    ![r].queue = Append(@, Chunk(remove_incomplete_utf8_char(out[r].buffer), stop))]
    BY <2>2 DEF Finish
  <2>4. PICK c : c = Chunk(remove_incomplete_utf8_char(o.buffer), stop)
    OBVIOUS
  <2>5. out' = [out EXCEPT ![r].stop = stop, ![r].queue = Append(@, c)]
    BY <2>1, <2>3, <2>4
  <2>6. p.text = o.text /\ p.stop = stop /\ p.queue = Append(o.queue, c)
    BY <1>1, <2>1, <2>5 DEF Outputs
  <2>7. o \in Outputs /\ p \in Outputs /\ NoStop(o.queue)
    BY <1>1, <1>3, <2>1
  <2>8. Ending(p, w)
    BY <2>2, <2>4, <2>6, <2>7, FinishEnds
  <2> QED
    BY <2>1, <2>8
<1>5. StreamInv(r)'
  BY <1>1, <1>2, <1>3, <1>4 DEF StreamInv, Streamed, Past
<1> QED
  BY <1>1, <1>2, <1>5 DEF StreamMoves

\* The thread that generates, once it has a context
LEMMA GenerateStream ==
  ASSUME IInv, StreamsInv, NEW r \in Requests, TypedNext, Generate(r)
  PROVE  StreamMoves(r)
<1>1. /\ gen \in [Requests -> GenStates] /\ conn \in [Requests -> ConnStates]
      /\ out[r] \in Outputs /\ wire \in [Requests -> Answers] /\ request \in [Requests -> Asked]
  BY DEF IInv, Typed, StreamsInv
<1>2. CASE UseDestroyed(r) \/ LosePool(r) \/ ForwardAborts(r)
  BY <1>2, QuietStream DEF UseDestroyed, LosePool, ForwardAborts, Stop
<1>3. CASE ConstructEmpty(r) \/ BeginForward(r)
  <2>1. gen[r] \notin Past /\ gen'[r] \notin Past /\ UNCHANGED << conn, out, wire, request >>
    BY <1>1, <1>3 DEF ConstructEmpty, BeginForward, Past
  <2> QED
    BY <2>1, QuietStream
<1>4. CASE Construct(r)
  <2>1. gen[r] = "construct" /\ request' = request
    BY <1>4 DEF Construct
  <2>2. CASE Report(r)
    BY <2>1, <2>2, ReportStream DEF Past
  <2>3. CASE gen' = [gen EXCEPT ![r] = "decode"] /\ UNCHANGED << conn, out, wire >>
    <3>1. gen[r] \notin Past /\ gen'[r] \notin Past
      BY <1>1, <2>1, <2>3 DEF Past
    <3> QED
      BY <2>1, <2>3, <3>1, QuietStream
  <2> QED
    BY <1>4, <2>2, <2>3 DEF Construct
<1>5. CASE EndForward(r)
  BY <1>5, ForwardStream
<1>6. CASE Finish(r)
  BY <1>6, FinishStream
<1>7. CASE Unwind(r)
  BY <1>7, ReportStream DEF Unwind, Past
<1>8. CASE Close(r)
  <2>1. gen[r] = "closing" /\ gen'[r] = "exited" /\ request' = request
    BY <1>1, <1>8 DEF Close
  <2>2. CASE request[r].stream
    <3>1. UNCHANGED << conn, out, wire >>
      BY <1>8, <2>2 DEF Close
    <3> QED
      BY <2>1, <3>1, QuietStream DEF Past
  <2>3. CASE ~request[r].stream
    <3>1. /\ conn' = [conn EXCEPT ![r] = "answered"]
          /\ wire' = [wire EXCEPT ![r] = Whole(r)]
      BY <1>8, <2>3 DEF Close
    <3>2. Whole(r) \in Answers
      BY AnswerTypes DEF Whole, Stops
    <3>3. conn'[r] = "answered" /\ wire' \in [Requests -> Answers]
      BY <1>1, <3>1, <3>2
    <3> QED
      BY <1>1, <2>1, <3>1, <3>3, NotStreamed DEF StreamMoves
  <2> QED
    BY <2>2, <2>3
<1> QED
  BY <1>2, <1>3, <1>4, <1>5, <1>6, <1>7, <1>8 DEF Generate

\* Whatever is done for r keeps its stream and those of the others.
LEMMA StreamStep ==
  ASSUME IInv, StreamsInv, NEW r \in Requests, TypedNext, StepOf(r)
  PROVE  StreamMoves(r)
<1>1. CASE Spin(r) /\ r \notin spinning
  <2>1. UNCHANGED << conn, out, wire, request >> /\ (gen'[r] \in Past <=> gen[r] \in Past)
    BY <1>1, SpinStep DEF IInv, Typed, Past
  <2> QED
    BY <2>1, QuietStream
<1>2. CASE ~(Spin(r) /\ r \notin spinning)
  BY <1>2, ServeStream, FetchStream, SetupStream, GenerateStream DEF StepOf, Serve, Infer
<1> QED
  BY <1>1, <1>2

-----------------------------------------------------------------------------

\* Initially nothing has been asked or told.
LEMMA InitStreams == Init => StreamsInv
<1>1. SUFFICES ASSUME Init PROVE StreamsInv
  OBVIOUS
<1>2. wire \in [Requests -> Answers]
  BY <1>1, AnswerTypes DEF Init
<1>3. request \in [Requests -> Asked]
  BY <1>1 DEF Init, Asked
<1>4. \A r \in Requests : StreamInv(r)
  BY <1>1 DEF Init, StreamInv, Streamed
<1> QED
  BY <1>2, <1>3, <1>4 DEF StreamsInv

\* Every step keeps the streams.
LEMMA StepStreams == IInv /\ StreamsInv /\ [Next]_vars => StreamsInv'
<1>1. SUFFICES ASSUME IInv, StreamsInv, [Next]_vars PROVE StreamsInv'
  OBVIOUS
<1>2. CASE UNCHANGED vars
  <2>1. ASSUME NEW s \in Requests PROVE StreamInv(s)'
    <3>1. /\ conn'[s] = conn[s] /\ gen'[s] = gen[s] /\ out'[s] = out[s]
          /\ wire'[s] = wire[s] /\ request'[s] = request[s]
      BY <1>2 DEF vars
    <3>2. StreamInv(s)
      BY <1>1 DEF StreamsInv
    <3> QED
      BY <3>1, <3>2, SameStream
  <2> QED
    BY <1>1, <1>2, <2>1 DEF vars, StreamsInv
<1>3. CASE Next
  <2>1. PICK r \in Requests : StepOf(r)
    BY <1>3 DEF Next, StepOf
  <2>2. TypedNext /\ Others(r)
    BY <1>1, <2>1, StepMoves DEF RequestMoves
  <2>3. StreamMoves(r)
    BY <1>1, <2>1, <2>2, StreamStep
  <2> QED
    BY <1>1, <2>2, <2>3, OneStreamMoves
<1> QED
  BY <1>1, <1>2, <1>3

\* The streams are so in every reachable state.
LEMMA StreamInvariant == Spec => []StreamsInv
<1> QED
  BY InitStreams, StepStreams, Invariant, PTL DEF Spec

\* What is told when a stream has ended is the answer.
LEMMA StreamsAreAnswers == StreamsInv => StreamIsAnswer
<1>1. ASSUME StreamsInv, NEW r \in Requests, conn[r] \in {"close", "join"}
      PROVE  /\ wire[r].stop = out[r].stop
             /\ IF out[r].stop = "exception"
                THEN IsPrefix(wire[r].text, out[r].text) /\ ~is_utf8_string_incomplete(wire[r].text)
                ELSE wire[r].text = remove_incomplete_utf8_char(out[r].text)
  <2>1. Ended(out[r], wire[r])
    BY <1>1 DEF StreamsInv, StreamInv
  <2> QED
    BY <2>1 DEF Ended, IsAnswer, is_utf8_string_incomplete
<1> QED
  BY <1>1 DEF StreamIsAnswer

\* A stream that was ended holds what the same tokens would have given in one
\* piece, or the part of it up to a whole character when an exception ended it.
THEOREM StreamAnswers == Spec => []StreamIsAnswer
<1> QED
  BY StreamsAreAnswers, StreamInvariant, PTL

-----------------------------------------------------------------------------
(* Types.                                                                  *)

\* Whoever loads or uses a model has asked for one that exists.
Asks(r) == gen[r] \in InUse \/ (gen[r] = "load" /\ r \notin spinning)
AskedFor(r) ==
    /\ conn[r] # "unsent" => request[r].name \in Names
    /\ Asks(r) => Parts(r) \subseteq Folders

RegistryTypes ==
    /\ process \in {"up", "aborted", "undefined", "terminated"}
    /\ contexts \subseteq Names
    /\ loaded \subseteq Folders /\ backends \subseteq Folders /\ pool \subseteq Folders
    /\ ref \in [Requests -> {"none", "live", "dangling"}]
    /\ owner \in [Folders -> Requests \cup {Nobody}]
    /\ sessions \subseteq Requests

TypesInv == RegistryTypes /\ \A r \in Requests : AskedFor(r)

\* What is loaded next is a part of what was asked for.
LEMMA NextFolderAsked ==
  ASSUME NEW r \in Requests, request[r].name \in Names, Unloaded(r) # {}
  PROVE  NextFolder(r) \in Parts(r)
<1>1. PICK n : n = request[r].name
  OBVIOUS
<1>2. n \in Seq(Range(n)) /\ Len(n) \in {1, 2}
  BY <1>1, ServerAssumption
<1>3. Head(n) = n[1] /\ Last(n) = n[Len(n)] /\ 1 \in DOMAIN n /\ Len(n) \in DOMAIN n
  BY <1>2 DEF Last
<1>4. Head(n) \in Range(n) /\ Last(n) \in Range(n)
  BY <1>3 DEF Range
<1> QED
  BY <1>1, <1>4 DEF NextFolder, Parts

\* Only a request that has been sent is served.
LEMMA ServedIsSent ==
  ASSUME IInv, NEW r \in Requests, Serve(r) \/ Infer(r) \/ DumpThrows(r)
  PROVE  conn[r] # "unsent" /\ request' = request
<1>1. ThreadsInStep(r)
  BY DEF IInv
<1>2. CASE Serve(r)
  BY <1>2 DEF Serve, AnswerAtOnce, Accept, StartInline, StartSession, FetchResult, SendDone,
     EraseSession, JoinThread
<1>3. CASE DumpThrows(r)
  BY <1>3 DEF DumpThrows, NotText, Stop
<1>4. CASE Setup(r)
  <2>1. gen[r] # "none" /\ request' = request
    BY <1>4 DEF Setup, SetupCached, BeginLoad, LoadModel, LoadFails, KeepContext
  <2> QED
    BY <1>1, <2>1 DEF ThreadsInStep
<1>5. CASE Generate(r)
  <2>1. gen[r] # "none" /\ request' = request
    BY <1>5 DEF Generate, UseDestroyed, Construct, ConstructEmpty, LosePool, BeginForward,
       ForwardAborts, EndForward, Finish, Close, Unwind, Stop, InUse
  <2> QED
    BY <1>1, <2>1 DEF ThreadsInStep
<1>6. CASE Spin(r) /\ r \notin spinning
  <2>1. gen[r] # "none" /\ request' = request
    BY <1>6, SpinStep
  <2> QED
    BY <1>1, <2>1 DEF ThreadsInStep
<1> QED
  BY <1>2, <1>3, <1>4, <1>5, <1>6 DEF Infer

\* Nobody comes to load or use a model but through the checks of setup_model.
LEMMA UserHasAsked ==
  ASSUME IInv, TypesInv, NEW r \in Requests, Serve(r) \/ Infer(r) \/ DumpThrows(r), Asks(r)'
  PROVE  Parts(r) \subseteq Folders
<1>1. /\ gen \in [Requests -> GenStates] /\ AskedFor(r) /\ RegistryInv /\ RegistryTypes
  BY DEF IInv, Typed, TypesInv
<1>2. CASE Asks(r)
  BY <1>1, <1>2 DEF AskedFor
<1>3. CASE ~Asks(r)
  <2>1. CASE gen'[r] = gen[r] /\ spinning \subseteq spinning'
    BY <1>3, <2>1 DEF Asks
  <2>2. CASE Serve(r)
    <3>1. spinning' = spinning
      BY <2>2, OnlySpinSpins
    <3> QED
      BY <1>1, <1>3, <2>2, <3>1 DEF Serve, AnswerAtOnce, Accept, StartInline, StartSession,
         FetchResult, SendDone, EraseSession, JoinThread, InUse, Asks
  <2>3. CASE DumpThrows(r)
    BY <2>1, <2>3 DEF DumpThrows, Stop, use
  <2>4. CASE Setup(r) /\ r \notin spinning
    <3>1. CASE SetupCached(r)
      BY <1>1, <3>1 DEF SetupCached, RegistryInv, RegistryTypes, Parts
    <3>2. CASE BeginLoad(r)
      BY <1>1, <3>2 DEF BeginLoad, Report, InUse, Asks
    <3>3. CASE LoadModel(r) \/ LoadFails(r) \/ KeepContext(r)
      BY <1>3, <2>4, <3>3 DEF LoadModel, LoadFails, KeepContext, Asks
    <3> QED
      BY <2>4, <3>1, <3>2, <3>3 DEF Setup
  <2>5. CASE Generate(r)
    <3>1. spinning' = spinning
      BY <2>5, OnlySpinSpins
    <3>2. CASE gen[r] \in InUse
      BY <1>3, <3>2 DEF Asks
    <3>3. CASE gen[r] \notin InUse
      BY <3>3, <2>5 DEF Generate, UseDestroyed, Construct, ConstructEmpty, LosePool, BeginForward,
         ForwardAborts, EndForward, Finish, Close, Unwind, InUse
    <3> QED
      BY <3>2, <3>3
  <2>6. CASE Spin(r) /\ r \notin spinning
    BY <1>1, <2>1, <2>6, SpinStep DEF Asks, InUse
  <2> QED
    BY <2>2, <2>3, <2>4, <2>5, <2>6 DEF Infer
<1> QED
  BY <1>2, <1>3

\* The request of a step stays one that has been asked for.
LEMMA AskedStep ==
  ASSUME IInv, TypesInv, NEW r \in Requests, StepOf(r), Others(r),
         StreamMoves(r), request \in [Requests -> Asked]
  PROVE  \A s \in Requests : AskedFor(s)'
<1>1. ASSUME NEW s \in Requests \ {r} PROVE AskedFor(s)'
  <2>1. conn'[s] = conn[s] /\ gen'[s] = gen[s] /\ request'[s] = request[s] /\ AskedFor(s)
    BY DEF Others, StreamMoves, TypesInv
  <2>2. spinning \subseteq spinning'
    BY OnlySpinSpins, SpinStep DEF StepOf, Infer
  <2> QED
    BY <2>1, <2>2 DEF AskedFor, Asks, Parts
<1>2. AskedFor(r)'
  <2>1. CASE Send(r)
    <3>1. request'[r].name \in Names
      BY <2>1 DEF Send
    <3>2. gen'[r] = "none"
      BY <2>1 DEF Send, IInv, ThreadsInStep
    <3> QED
      BY <3>1, <3>2 DEF AskedFor, Asks, InUse
  <2>2. CASE Serve(r) \/ Infer(r) \/ DumpThrows(r)
    <3>1. conn[r] # "unsent" /\ request' = request
      BY <2>2, ServedIsSent
    <3>2. request[r].name \in Names
      BY <3>1 DEF TypesInv, AskedFor
    <3>3. Asks(r)' => Parts(r) \subseteq Folders
      BY <2>2, UserHasAsked
    <3> QED
      BY <3>1, <3>2, <3>3 DEF AskedFor, Parts
  <2> QED
    BY <2>1, <2>2 DEF StepOf
<1> QED
  BY <1>1, <1>2

\* The registry and what is in use keep their types.
LEMMA RegistryStep ==
  ASSUME IInv, TypesInv, NEW r \in Requests, StepOf(r)
  PROVE  RegistryTypes'
<1>1. RegistryTypes /\ AskedFor(r)
  BY DEF TypesInv
<1> USE DEF RegistryTypes
<1>3. CASE Send(r)
  BY <1>1, <1>3 DEF Send, registry, use
<1>4. CASE Serve(r) \/ DumpThrows(r)
  BY <1>1, <1>4 DEF Serve, AnswerAtOnce, Accept, StartInline, StartSession, FetchResult, SendDone,
     EraseSession, JoinThread, DumpThrows, Stop, registry, use
<1>5. CASE Setup(r) /\ r \notin spinning
  <2>1. request[r].name \in Names
    BY <1>1, <1>5, ServedIsSent DEF AskedFor, Infer
  <2>2. CASE SetupCached(r)
    BY <1>1, <2>2 DEF SetupCached, registry
  <2>3. CASE BeginLoad(r)
    <3>1. UNCHANGED << process, owner, sessions >>
      BY <2>3 DEF BeginLoad
    <3>2. CASE UNCHANGED << registry, pool, ref >>
      BY <1>1, <3>1, <3>2 DEF registry
    <3>3. CASE destroy_all_models_unsafe
      BY <1>1, <3>1, <3>3 DEF destroy_all_models_unsafe
    <3> QED
      BY <2>3, <3>2, <3>3 DEF BeginLoad
  <2>4. CASE LoadModel(r) \/ LoadFails(r)
    <3>1. /\ UNCHANGED << process, contexts, use, sessions >>
          /\ gen[r] = "load" /\ Unloaded(r) # {}
          /\ loaded' \subseteq loaded \cup {NextFolder(r)}
          /\ backends' \subseteq backends \cup {NextFolder(r)}
      BY <2>4 DEF LoadModel, LoadFails
    <3>2. NextFolder(r) \in Folders
      BY <1>1, <1>5, <2>1, <3>1, NextFolderAsked DEF AskedFor, Asks
    <3> QED
      BY <1>1, <3>1, <3>2 DEF use
  <2>5. CASE KeepContext(r)
    BY <1>1, <2>1, <2>5 DEF KeepContext
  <2> QED
    BY <1>5, <2>2, <2>3, <2>4, <2>5 DEF Setup
<1>6. CASE Generate(r)
  <2>1. CASE \/ UseDestroyed(r) \/ LosePool(r) \/ ForwardAborts(r)
    BY <1>1, <2>1 DEF UseDestroyed, LosePool, ForwardAborts, Stop, registry, use
  <2>2. CASE ConstructEmpty(r) \/ BeginForward(r) \/ EndForward(r) \/ Finish(r)
    BY <1>1, <2>2 DEF ConstructEmpty, BeginForward, EndForward, Finish, registry, use
  <2>3. CASE Construct(r)
    <3>1. /\ gen[r] = "construct" /\ UNCHANGED << process, registry, sessions >>
          /\ owner' = [f \in Folders |-> IF f \in Parts(r) THEN r ELSE owner[f]]
          /\ pool' \subseteq pool \cup Parts(r)
          /\ ref' = ref \/ ref' = [ref EXCEPT ![r] = "none"]
      BY <2>3 DEF Construct
    <3>2. Parts(r) \subseteq Folders
      BY <1>1, <3>1 DEF AskedFor, Asks, InUse
    <3> QED
      BY <1>1, <3>1, <3>2 DEF registry
  <2>4. CASE Close(r) \/ Unwind(r)
    <3>1. /\ UNCHANGED << process, registry, owner, sessions >>
          /\ pool' \subseteq pool /\ ref' = [ref EXCEPT ![r] = "none"]
      BY <2>4 DEF Close, Unwind, GiveBack
    <3> QED
      BY <1>1, <3>1 DEF registry
  <2> QED
    BY <1>6, <2>1, <2>2, <2>3, <2>4 DEF Generate
<1>7. CASE Spin(r)
  <2>1. CASE SpinAtEnd(r)
    BY <1>1, <2>1 DEF SpinAtEnd, registry
  <2>2. CASE SpinAtStart(r)
    <3>1. /\ gen[r] = "construct" /\ UNCHANGED << process, registry, ref, sessions >>
          /\ owner' = [f \in Folders |-> IF f \in Parts(r) THEN r ELSE owner[f]]
          /\ pool' = pool \cup Parts(r)
      BY <2>2 DEF SpinAtStart
    <3>2. Parts(r) \subseteq Folders
      BY <1>1, <3>1 DEF AskedFor, Asks, InUse
    <3> QED
      BY <1>1, <3>1, <3>2 DEF registry
  <2>3. CASE SpinAtUnload(r)
    BY <1>1, <2>3 DEF SpinAtUnload
  <2> QED
    BY <1>7, <2>1, <2>2, <2>3 DEF Spin
<1> QED
  BY <1>3, <1>4, <1>5, <1>6, <1>7 DEF StepOf, Infer

\* Every step keeps the types.
LEMMA StepTypes == IInv /\ StreamsInv /\ TypesInv /\ [Next]_vars => TypesInv'
<1>1. SUFFICES ASSUME IInv, StreamsInv, TypesInv, [Next]_vars PROVE TypesInv'
  OBVIOUS
<1>2. CASE UNCHANGED vars
  BY <1>1, <1>2 DEF vars, registry, use, TypesInv, RegistryTypes, AskedFor, Asks, Parts
<1>3. CASE Next
  <2>1. PICK r \in Requests : StepOf(r)
    BY <1>3 DEF Next, StepOf
  <2>2. TypedNext /\ Others(r)
    BY <1>1, <2>1, StepMoves DEF RequestMoves
  <2>3. StreamMoves(r)
    BY <1>1, <2>1, <2>2, StreamStep
  <2>4. \A s \in Requests : AskedFor(s)'
    BY <1>1, <2>1, <2>2, <2>3, AskedStep DEF StreamsInv
  <2> QED
    BY <1>1, <2>1, <2>4, RegistryStep DEF TypesInv
<1> QED
  BY <1>1, <1>2, <1>3

\* Initially there is nothing but the requests.
LEMMA InitTypes == Init => TypesInv
<1> QED
  BY DEF Init, TypesInv, RegistryTypes, AskedFor, Asks, InUse

\* Every variable keeps its type: what is loaded, has a backend or a thread
\* pool is a folder that exists, and what is kept is a name somebody asked for.
THEOREM ServerTypes == Spec => []TypeOK
<1>1. Init => TypesInv
  BY InitTypes
<1>2. IInv /\ StreamsInv /\ TypesInv /\ [Next]_vars => TypesInv'
  BY StepTypes
<1>3. IInv /\ StreamsInv /\ TypesInv => TypeOK
  BY DEF IInv, Typed, StreamsInv, TypesInv, RegistryTypes, TypeOK, Answers, Text
<1> QED
  BY <1>1, <1>2, <1>3, Invariant, StreamInvariant, PTL DEF Spec

-----------------------------------------------------------------------------
(* LocalServer: the same actions, one worker, and a way out of its own.    *)

\* Steps of the worker's loop, of StopServer and of who leaves the process in
\* "undefined"
Still == /\ UNCHANGED << multimodel, request, conn, gen, lock, registry, use, sessions, out, wire >>
         /\ process' \in {process, "undefined"}

\* All other steps are those of Server, or DumpCaught.
LEMMA LocalSteps ==
  ASSUME LocalNext
  PROVE  Still \/ \E r \in Requests : StepOf(r) \/ DumpCaught(r)
<1>1. CASE StopServer
  BY <1>1 DEF StopServer, vars, Still
<1>2. ASSUME NEW r \in Requests, CreateResponse(r) \/ Work(r) \/ Run(r) \/ DestroyResponse(r)
      PROVE  Still \/ StepOf(r) \/ DumpCaught(r)
  <2>1. CASE CreateResponse(r)
    BY <2>1 DEF CreateResponse, StepOf
  <2>2. CASE Work(r)
    BY <2>2 DEF Work, TakeTask, EndTask, Handle, StepOf, Serve, Still, vars
  <2>3. CASE Run(r)
    BY <2>3 DEF Run, StepOf
  <2>4. CASE DestroyResponse(r)
    BY <2>4 DEF DestroyResponse, Stop, Still
  <2> QED
    BY <1>2, <2>1, <2>2, <2>3, <2>4
<1> QED
  BY <1>1, <1>2 DEF LocalNext

\* The exception of json::dump is answered at once.
LEMMA DumpCaughtStep ==
  ASSUME IInv, StreamsInv, TypesInv, NEW r \in Requests, DumpCaught(r)
  PROVE  RequestMoves(r) /\ IInv' /\ StreamsInv' /\ TypesInv'
<1> DEFINE q == out[r].queue
           rest == SubSeq(q, Len(Fetchable(r)) + 1, Len(q))
<1>1. /\ Typed /\ ThreadsInStep(r) /\ q \in Seq(Chunks) /\ out[r] \in Outputs
      /\ wire \in [Requests -> Answers] /\ request \in [Requests -> Asked]
  BY DEF IInv, Typed, Outputs, StreamsInv
<1>2. /\ conn[r] = "poll" /\ Fetchable(r) # << >>
      /\ conn' = [conn EXCEPT ![r] = "answered"]
      /\ wire' = [wire EXCEPT ![r] = Answered("exception")]
      /\ out' = [out EXCEPT ![r].queue = rest]
      /\ UNCHANGED << multimodel, process, request, gen, lock, registry, use, sessions >>
  BY DEF DumpCaught, NotText, Dequeued
<1>3. Len(Fetchable(r)) \in 0..Len(q) /\ q # << >>
  BY <1>1, <1>2, ServerAssumption DEF Fetchable
<1>4. rest \in Seq(Chunks) /\ (NoStop(q) => NoStop(rest))
  BY <1>1, <1>3, RestKeepsNoStop
<1>5. out' \in [Requests -> Outputs] /\ out'[r].queue = rest
  BY <1>1, <1>2, <1>4 DEF Typed, Outputs
<1>6. gen[r] # "none"
  BY <1>1, <1>3 DEF ThreadsInStep
<1> HIDE DEF q, rest
<1>7. RequestMoves(r) /\ KeepsLock(r) /\ conn'[r] = "answered"
  BY <1>1, <1>2, <1>4, <1>5, <1>6
  DEF RequestMoves, TypedNext, Others, KeepsLock, Typed, ThreadsInStep, ConnStates, registry, q
<1>8. IInv'
  BY <1>2, <1>7, QuietStep DEF use
<1>9. StreamsInv'
  <2>1. wire' \in [Requests -> Answers]
    BY <1>1, <1>2, AnswerTypes DEF Stops
  <2>2. StreamMoves(r)
    BY <1>1, <1>2, <1>7, <2>1, NotStreamed DEF StreamMoves
  <2> QED
    BY <1>7, <2>2, OneStreamMoves DEF RequestMoves
<1>10. TypesInv'
  <2>1. ASSUME NEW s \in Requests PROVE AskedFor(s)'
    <3>1. conn'[s] # "unsent" => conn[s] # "unsent"
      BY <1>1, <1>2 DEF Typed
    <3>2. AskedFor(s) /\ gen' = gen /\ request' = request
      BY <1>2 DEF TypesInv
    <3> QED
      BY <1>2, <3>1, <3>2 DEF AskedFor, Asks, Parts, use
  <2> QED
    BY <1>2, <2>1 DEF TypesInv, RegistryTypes, registry, use
<1> QED
  BY <1>7, <1>8, <1>9, <1>10

\* All that is known of Server
ServerInv == IInv /\ StreamsInv /\ TypesInv

\* A step of Server keeps it ...
LEMMA ServerStepInv ==
  ASSUME ServerInv, NEW r \in Requests, StepOf(r)
  PROVE  RequestMoves(r) /\ StreamMoves(r) /\ ServerInv'
<1>1. IInv /\ StreamsInv /\ TypesInv
  BY DEF ServerInv
<1>2. RequestMoves(r) /\ IInv'
  BY <1>1, StepMoves
<1>3. TypedNext /\ Others(r)
  BY <1>2 DEF RequestMoves
<1>4. StreamMoves(r)
  BY <1>1, <1>3, StreamStep
<1>5. StreamsInv'
  BY <1>1, <1>3, <1>4, OneStreamMoves
<1>6. TypesInv'
  <2>1. \A s \in Requests : AskedFor(s)'
    BY <1>1, <1>3, <1>4, AskedStep DEF StreamsInv
  <2> QED
    BY <1>1, <2>1, RegistryStep DEF TypesInv
<1> QED
  BY <1>2, <1>4, <1>5, <1>6 DEF ServerInv

\* ... and so does a step that changes nothing it speaks of.
LEMMA StillInv ==
  ASSUME ServerInv, Still
  PROVE  ServerInv'
<1>1. IInv'
  BY DEF ServerInv, Still, registry, use, IInv, Typed, ThreadsInStep, LockHeld, RegistryInv
<1>2. StreamsInv'
  <2>1. ASSUME NEW s \in Requests PROVE StreamInv(s)'
    <3>1. /\ conn'[s] = conn[s] /\ gen'[s] = gen[s] /\ out'[s] = out[s]
          /\ wire'[s] = wire[s] /\ request'[s] = request[s]
      BY DEF Still
    <3>2. StreamInv(s)
      BY DEF ServerInv, StreamsInv
    <3> QED
      BY <3>1, <3>2, SameStream
  <2> QED
    BY <2>1 DEF ServerInv, Still, StreamsInv
<1>3. TypesInv'
  BY DEF ServerInv, Still, registry, use, TypesInv, RegistryTypes, AskedFor, Asks, Parts
<1> QED
  BY <1>1, <1>2, <1>3 DEF ServerInv

\* The invariants of Server hold in LocalServer.
LEMMA LocalServerInv == LocalSpec => []ServerInv
<1>1. LocalInit => ServerInv
  BY InitInv, InitStreams, InitTypes DEF LocalInit, ServerInv
<1>2. ASSUME ServerInv, [LocalNext]_allVars PROVE ServerInv'
  <2>1. CASE UNCHANGED allVars
    <3>1. Still
      BY <2>1 DEF allVars, vars, Still
    <3> QED
      BY <1>2, <3>1, StillInv
  <2>2. CASE LocalNext
    <3>1. CASE Still
      BY <1>2, <3>1, StillInv
    <3>2. ASSUME NEW r \in Requests, StepOf(r) PROVE ServerInv'
      BY <1>2, <3>2, ServerStepInv
    <3>3. ASSUME NEW r \in Requests, DumpCaught(r) PROVE ServerInv'
      BY <1>2, <3>3, DumpCaughtStep DEF ServerInv
    <3> QED
      BY <2>2, <3>1, <3>2, <3>3, LocalSteps
  <2> QED
    BY <1>2, <2>1, <2>2
<1> QED
  BY <1>1, <1>2, PTL DEF LocalSpec

\* What a stream has told is the answer in LocalServer, too, although the
\* handler that meets a text dump does not take leaves its session behind.
THEOREM LocalStreamAnswers == LocalSpec => []StreamIsAnswer
<1>1. ServerInv => StreamIsAnswer
  BY StreamsAreAnswers DEF ServerInv
<1> QED
  BY <1>1, LocalServerInv, PTL

-----------------------------------------------------------------------------
(* One generation at a time.                                               *)

Serving == {"inline", "poll", "end", "close", "join"}
Active(r) == gen[r] \notin {"none", "exited"}

\* The caches of a generation that has built its iterator are its own.
OwnsCaches(r) ==
    gen[r] = "forward" \/ (gen[r] = "decode" /\ request[r].max_tokens > 0) =>
        \A f \in Parts(r) : owner[f] = r

\* The worker serves one request, and only that one has a thread that generates.
OneServed(r) ==
    /\ conn[r] \in Serving => worker = r
    /\ Active(r) => conn[r] \in Serving
    /\ conn[r] \in Streamed => r \in sessions
    /\ gen[r] \in InUse => ref[r] = "live"
    /\ OwnsCaches(r)

LocalInv == LeftBehind = {} => \A r \in Requests : OneServed(r)

\* Who is not served does not move.
LEMMA OthersRest ==
  ASSUME NEW s \in Requests, conn'[s] = conn[s], gen'[s] = gen[s], conn[s] \notin Serving,
         Active(s) => conn[s] \in Serving
  PROVE  OneServed(s)'
<1>1. conn'[s] \notin Serving /\ gen'[s] \in {"none", "exited"}
  BY DEF Active
<1> QED
  BY <1>1 DEF OneServed, OwnsCaches, Active, Serving, Streamed, InUse

\* A session that was left behind stays there.
LEMMA LeftBehindStays ==
  ASSUME NEW r \in Requests, StepOf(r) \/ DumpCaught(r), Typed, Others(r),
         RegistryTypes, LeftBehind' = {}
  PROVE  LeftBehind = {}
<1>1. SUFFICES ASSUME NEW s \in sessions, conn[s] = "answered" PROVE s \in LeftBehind'
  BY DEF LeftBehind
<1>2. s \in Requests
  BY DEF RegistryTypes
<1>3. s \in sessions' /\ conn'[s] = "answered"
  <2>1. CASE s # r
    <3>1. conn'[s] = "answered"
      BY <1>1, <1>2, <2>1 DEF Others
    <3>2. sessions \ {r} \subseteq sessions'
      BY DEF StepOf, Send, Serve, AnswerAtOnce, Accept, StartInline, StartSession, FetchResult,
         SendDone, EraseSession, JoinThread, Setup, SetupCached, BeginLoad, LoadModel, LoadFails,
         KeepContext, Generate, UseDestroyed, Construct, ConstructEmpty, LosePool, BeginForward,
         ForwardAborts, EndForward, Finish, Close, Unwind, DumpThrows, DumpCaught, Stop,
         Infer, Spin, SpinAtEnd, SpinAtStart, SpinAtUnload
    <3> QED
      BY <2>1, <3>1, <3>2
  <2>2. CASE s = r
    <3>1. conn \in [Requests -> ConnStates]
      BY DEF Typed
    <3>2. CASE Setup(r)
      BY <1>1, <2>2, <3>1, <3>2 DEF Setup, SetupCached, BeginLoad, LoadModel, LoadFails,
         KeepContext, Report
    <3>3. CASE Generate(r)
      BY <1>1, <2>2, <3>1, <3>3 DEF Generate, UseDestroyed, Construct, ConstructEmpty, LosePool,
         BeginForward, ForwardAborts, EndForward, Finish, Close, Unwind, Stop, Report
    <3>4. CASE Send(r) \/ Serve(r) \/ DumpThrows(r) \/ DumpCaught(r)
      BY <1>1, <2>2, <3>4 DEF Send, Serve, AnswerAtOnce, Accept, StartInline, StartSession,
         FetchResult, SendDone, EraseSession, JoinThread, DumpThrows, DumpCaught, NotText, Stop
    <3>5. CASE Spin(r)
      BY <1>1, <2>2, <3>5 DEF Spin, SpinAtEnd, SpinAtStart, SpinAtUnload
    <3> QED
      BY <3>2, <3>3, <3>4, <3>5 DEF StepOf, Infer
  <2> QED
    BY <2>1, <2>2
<1> QED
  BY <1>3 DEF LeftBehind

\* setup_model by the only thread that generates
LEMMA SetupAlone ==
  ASSUME Typed, TypesInv, NEW r \in Requests, OneServed(r), TypedNext, Setup(r)
  PROVE  gen'[r] \in InUse => ref'[r] = "live" /\ OwnsCaches(r)'
<1>1. gen \in [Requests -> GenStates] /\ ref \in [Requests -> {"none", "live", "dangling"}]
  BY DEF Typed, TypesInv, RegistryTypes
<1>2. CASE SetupCached(r) \/ KeepContext(r)
  <2>1. gen'[r] = "construct" /\ ref'[r] = "live"
    BY <1>1, <1>2 DEF SetupCached, KeepContext
  <2> QED
    BY <2>1 DEF OwnsCaches
<1>3. CASE BeginLoad(r) \/ LoadModel(r) \/ LoadFails(r)
  <2>1. gen'[r] \in {"load", "exited"}
    BY <1>1, <1>3 DEF BeginLoad, LoadModel, LoadFails, Report
  <2> QED
    BY <2>1 DEF InUse
<1> QED
  BY <1>2, <1>3 DEF Setup

\* The inference by the only thread that generates
LEMMA GenerateAlone ==
  ASSUME Typed, StreamsInv, TypesInv, NEW r \in Requests, OneServed(r), Generate(r)
  PROVE  gen'[r] \in InUse => ref'[r] = "live" /\ OwnsCaches(r)'
<1>1. /\ gen \in [Requests -> GenStates] /\ ref \in [Requests -> {"none", "live", "dangling"}]
      /\ out[r] \in Outputs /\ request[r] \in Asked
      /\ gen[r] \in InUse => ref[r] = "live" /\ Parts(r) \subseteq Folders
      /\ OwnsCaches(r)
  BY DEF Typed, StreamsInv, TypesInv, RegistryTypes, AskedFor, Asks, OneServed
<1>2. CASE UseDestroyed(r) \/ LosePool(r) \/ ForwardAborts(r)
  BY <1>1, <1>2 DEF UseDestroyed, LosePool, ForwardAborts, Stop, use, OwnsCaches, Parts
<1>3. CASE Construct(r)
  <2>1. /\ gen[r] = "construct" /\ request' = request
        /\ owner' = [f \in Folders |-> IF f \in Parts(r) THEN r ELSE owner[f]]
        /\ gen'[r] = "exited" \/ ref' = ref
    BY <1>1, <1>3 DEF Construct, Report
  <2>2. \A f \in Parts(r) : owner'[f] = r
    BY <1>1, <2>1 DEF InUse
  <2> QED
    BY <1>1, <2>1, <2>2 DEF OwnsCaches, Parts, InUse
<1>4. CASE ConstructEmpty(r)
  <2>1. /\ gen[r] = "construct" /\ request[r].max_tokens = 0 /\ gen'[r] = "decode"
        /\ UNCHANGED << request, ref >>
    BY <1>1, <1>4 DEF ConstructEmpty, use
  <2> QED
    BY <1>1, <2>1 DEF OwnsCaches, InUse
<1>5. CASE BeginForward(r)
  <2>1. /\ gen[r] = "decode" /\ gen'[r] = "forward" /\ out[r].step < request[r].max_tokens
        /\ UNCHANGED << request, ref, owner >>
    BY <1>1, <1>5 DEF BeginForward, use
  <2>2. request[r].max_tokens > 0
    BY <1>1, <2>1 DEF Outputs, Asked
  <2> QED
    BY <1>1, <2>1, <2>2 DEF OwnsCaches, Parts, InUse
<1>6. CASE EndForward(r)
  <2>1. gen[r] = "forward" /\ UNCHANGED << request, ref, owner >>
    BY <1>6 DEF EndForward, use
  <2> QED
    BY <1>1, <2>1 DEF OwnsCaches, Parts, InUse
<1>7. CASE Finish(r)
  <2>1. gen[r] \in {"final", "decode"} /\ gen'[r] = "closing" /\ ref' = ref
    BY <1>1, <1>7 DEF Finish, use
  <2> QED
    BY <1>1, <2>1 DEF OwnsCaches, InUse
<1>8. CASE Close(r) \/ Unwind(r)
  <2>1. gen'[r] = "exited"
    BY <1>1, <1>8 DEF Close, Unwind, Report
  <2> QED
    BY <2>1 DEF InUse
<1> QED
  BY <1>2, <1>3, <1>4, <1>5, <1>6, <1>7, <1>8 DEF Generate

\* A destructor that spins under the only thread that generates
LEMMA SpinAlone ==
  ASSUME IInv, NEW r \in Requests, OneServed(r), Spin(r), r \notin spinning
  PROVE  gen'[r] \in InUse => ref'[r] = "live" /\ OwnsCaches(r)'
<1>1. CASE gen[r] \in {"construct", "closing", "unwind"} /\ UNCHANGED << gen, ref >>
  BY <1>1 DEF OneServed, OwnsCaches, InUse
<1>2. CASE gen[r] = "setup" /\ gen' = [gen EXCEPT ![r] = "load"]
  BY <1>2 DEF IInv, Typed, InUse
<1> QED
  BY <1>1, <1>2, SpinStep

\* A step of the thread that generates
LEMMA RunAlone ==
  ASSUME ServerInv, NEW r \in Requests, Run(r), RequestMoves(r), \A s \in Requests : OneServed(s)
  PROVE  \A s \in Requests : OneServed(s)'
<1>1. /\ Typed /\ TypesInv /\ StreamsInv /\ TypedNext /\ Others(r)
      /\ conn \in [Requests -> ConnStates] /\ gen \in [Requests -> GenStates]
  BY DEF ServerInv, IInv, Typed, RequestMoves
<1>2. Setup(r) \/ Generate(r) \/ (Spin(r) /\ r \notin spinning)
  BY DEF Run, Infer
<1>3. Active(r) /\ worker' = worker /\ sessions' = sessions
  <2>1. CASE Setup(r)
    BY <2>1 DEF Run, Setup, SetupCached, BeginLoad, LoadModel, LoadFails, KeepContext, Active,
       localVars
  <2>2. CASE Generate(r)
    BY <2>2 DEF Run, Generate, UseDestroyed, Construct, ConstructEmpty, LosePool, BeginForward,
       ForwardAborts, EndForward, Finish, Close, Unwind, Stop, Active, InUse, localVars
  <2>3. CASE Spin(r) /\ r \notin spinning
    BY <2>3, SpinStep DEF ServerInv, Run, Active, localVars
  <2> QED
    BY <1>2, <2>1, <2>2, <2>3
<1>4. conn[r] \in Serving /\ worker = r /\ OneServed(r)
  BY <1>3 DEF OneServed
<1>5. gen'[r] \in InUse => ref'[r] = "live" /\ OwnsCaches(r)'
  BY <1>1, <1>2, <1>4, SetupAlone, GenerateAlone, SpinAlone DEF ServerInv
<1>6. conn'[r] = conn[r] \/ (conn'[r] = "answered" /\ gen'[r] = "exited")
  <2>1. CASE Setup(r)
    BY <1>1, <2>1 DEF Setup, SetupCached, BeginLoad, LoadModel, LoadFails, KeepContext, Report
  <2>2. CASE Generate(r)
    BY <1>1, <2>2 DEF Generate, UseDestroyed, Construct, ConstructEmpty, LosePool, BeginForward,
       ForwardAborts, EndForward, Finish, Close, Unwind, Stop, Report
  <2>3. CASE Spin(r) /\ r \notin spinning
    BY <2>3, SpinStep DEF ServerInv
  <2> QED
    BY <1>2, <2>1, <2>2, <2>3
<1>7. OneServed(r)'
  <2>1. conn'[r] \in Serving => worker' = r
    BY <1>3, <1>4
  <2>2. Active(r)' => conn'[r] \in Serving
    BY <1>4, <1>6 DEF Active
  <2>3. conn'[r] \in Streamed => r \in sessions'
    BY <1>3, <1>4, <1>6 DEF OneServed, Streamed
  <2>4. OwnsCaches(r)'
    BY <1>5 DEF OwnsCaches, InUse
  <2> QED
    BY <1>5, <2>1, <2>2, <2>3, <2>4 DEF OneServed
<1>8. ASSUME NEW s \in Requests \ {r} PROVE OneServed(s)'
  <2>1. conn'[s] = conn[s] /\ gen'[s] = gen[s]
    BY <1>1 DEF Others
  <2>2. conn[s] \notin Serving /\ (Active(s) => conn[s] \in Serving)
    BY <1>4 DEF OneServed
  <2> QED
    BY <2>1, <2>2, OthersRest
<1> QED
  BY <1>7, <1>8

\* A step of the worker
LEMMA WorkAlone ==
  ASSUME ServerInv, NEW r \in Requests, Work(r), \A s \in Requests : OneServed(s), LeftBehind' = {}
  PROVE  \A s \in Requests : OneServed(s)'
<1>1. /\ conn \in [Requests -> ConnStates] /\ gen \in [Requests -> GenStates]
      /\ ThreadsInStep(r) /\ OneServed(r)
  BY DEF ServerInv, IInv, Typed
<1>2. CASE EndTask(r)
  <2>1. /\ worker = r /\ conn[r] = "answered"
        /\ UNCHANGED << conn, gen, request, sessions, ref, owner >>
    BY <1>2 DEF EndTask, vars, use
  <2>2. ASSUME NEW s \in Requests PROVE OneServed(s)'
    <3>1. conn[s] \notin Serving /\ (Active(s) => conn[s] \in Serving)
      BY <2>1 DEF OneServed, Serving
    <3> QED
      BY <2>1, <3>1, OthersRest
  <2> QED
    BY <2>2
<1>3. CASE TakeTask(r)
  <2>1. worker = Nobody /\ worker' = r /\ conn[r] = "waiting"
    BY <1>3 DEF TakeTask, AnswerAtOnce, Accept
  <2>2. gen[r] = "none"
    BY <1>1, <2>1 DEF ThreadsInStep
  <2>3. /\ \/ conn' = [conn EXCEPT ![r] = "answered"] /\ gen' = gen
           \/ conn' = [conn EXCEPT ![r] = "inline"] /\ gen' = [gen EXCEPT ![r] = "setup"]
           \/ /\ conn' = [conn EXCEPT ![r] = "poll"] /\ gen' = [gen EXCEPT ![r] = "setup"]
              /\ r \in sessions'
    BY <1>3 DEF TakeTask, AnswerAtOnce, Accept, StartInline, StartSession
  <2>4. OneServed(r)'
    <3>1. /\ conn'[r] \in {"answered", "inline", "poll"} /\ gen'[r] \in {"none", "setup"}
          /\ conn'[r] = "answered" => gen'[r] = "none"
          /\ conn'[r] = "poll" => r \in sessions'
      BY <1>1, <2>2, <2>3
    <3> QED
      BY <2>1, <3>1 DEF OneServed, OwnsCaches, Active, Serving, Streamed, InUse
  <2>5. ASSUME NEW s \in Requests \ {r} PROVE OneServed(s)'
    <3>1. conn'[s] = conn[s] /\ gen'[s] = gen[s]
      BY <1>1, <2>3
    <3>2. conn[s] \notin Serving /\ (Active(s) => conn[s] \in Serving)
      BY <2>1, ServerAssumption DEF OneServed
    <3> QED
      BY <3>1, <3>2, OthersRest
  <2> QED
    BY <2>4, <2>5
<1>4. CASE Handle(r) /\ UNCHANGED localVars
  <2>1. /\ conn[r] \in Streamed /\ worker' = worker
        /\ UNCHANGED << gen, request, ref, owner >>
    BY <1>4 DEF Handle, FetchResult, SendDone, EraseSession, JoinThread, DumpCaught, NotText,
       Streamed, use, localVars
  <2>2. worker = r /\ r \in sessions
    BY <1>1, <2>1 DEF OneServed, Streamed, Serving
  <2>3. ~DumpCaught(r)
    <3>1. SUFFICES ASSUME DumpCaught(r) PROVE FALSE
      OBVIOUS
    <3>2. conn'[r] = "answered" /\ r \in sessions'
      BY <1>1, <2>2, <3>1 DEF DumpCaught
    <3>3. r \in LeftBehind'
      BY <3>2 DEF LeftBehind
    <3> QED
      BY <3>3
  <2>4. \/ /\ conn'[r] \in Streamed /\ sessions' = sessions
        \/ /\ conn'[r] = "answered" /\ gen[r] = "exited"
    BY <1>1, <1>4, <2>1, <2>3 DEF Handle, FetchResult, SendDone, EraseSession, JoinThread, Streamed
  <2>5. OneServed(r)'
    <3>1. conn'[r] \in Serving => worker' = r
      BY <2>1, <2>2
    <3>2. Active(r)' => conn'[r] \in Serving
      BY <2>1, <2>4 DEF Active, Streamed, Serving
    <3>3. conn'[r] \in Streamed => r \in sessions'
      BY <2>2, <2>4 DEF Streamed
    <3>4. (gen'[r] \in InUse => ref'[r] = "live") /\ OwnsCaches(r)'
      BY <1>1, <2>1 DEF OneServed, OwnsCaches, Parts
    <3> QED
      BY <3>1, <3>2, <3>3, <3>4 DEF OneServed
  <2>6. ASSUME NEW s \in Requests \ {r} PROVE OneServed(s)'
    <3>1. conn'[s] = conn[s] /\ gen'[s] = gen[s]
      BY <1>1, <1>4, <2>1, <2>3 DEF Handle, FetchResult, SendDone, EraseSession, JoinThread
    <3>2. conn[s] \notin Serving /\ (Active(s) => conn[s] \in Serving)
      BY <2>2 DEF OneServed
    <3> QED
      BY <3>1, <3>2, OthersRest
  <2> QED
    BY <2>5, <2>6
<1> QED
  BY <1>2, <1>3, <1>4 DEF Work

\* A request arrives: nothing is served yet.
LEMMA CreateAlone ==
  ASSUME ServerInv, NEW r \in Requests, CreateResponse(r), \A s \in Requests : OneServed(s)
  PROVE  \A s \in Requests : OneServed(s)'
<1>1. /\ conn \in [Requests -> ConnStates] /\ ThreadsInStep(r)
      /\ request \in [Requests -> Asked]
  BY DEF ServerInv, IInv, Typed, StreamsInv
<1>2. /\ conn[r] = "unsent" /\ conn' = [conn EXCEPT ![r] = "waiting"]
      /\ \A s \in Requests \ {r} : request'[s] = request[s]
      /\ UNCHANGED << gen, worker, sessions, ref, owner >>
  BY <1>1 DEF CreateResponse, Send, use
<1>3. gen[r] = "none"
  BY <1>1, <1>2 DEF ThreadsInStep
<1>4. OneServed(r)'
  <2>1. conn'[r] = "waiting" /\ gen'[r] = "none"
    BY <1>1, <1>2, <1>3
  <2> QED
    BY <2>1 DEF OneServed, OwnsCaches, Active, Serving, Streamed, InUse
<1>5. ASSUME NEW s \in Requests \ {r} PROVE OneServed(s)'
  <2>1. conn'[s] = conn[s] /\ request'[s] = request[s]
    BY <1>1, <1>2
  <2> QED
    BY <1>2, <2>1 DEF OneServed, OwnsCaches, Active, Parts
<1> QED
  BY <1>4, <1>5

\* Nothing that OneServed speaks of changes.
LEMMA StillServed ==
  ASSUME Still, worker' = worker, NEW s \in Requests, OneServed(s)
  PROVE  OneServed(s)'
<1> QED
  BY DEF Still, use, OneServed, OwnsCaches, Active, Parts

\* Every step keeps the worker's request the only one.
LEMMA LocalStepInv == ServerInv /\ LocalInv /\ [LocalNext]_allVars => LocalInv'
<1>1. SUFFICES ASSUME ServerInv, LocalInv, [LocalNext]_allVars, LeftBehind' = {}
               PROVE  \A s \in Requests : OneServed(s)'
  BY DEF LocalInv
<1>2. Typed /\ RegistryTypes
  BY <1>1 DEF ServerInv, IInv, TypesInv
<1>3. CASE Still /\ worker' = worker
  <2>1. LeftBehind = {}
    BY <1>1, <1>3 DEF Still, LeftBehind
  <2> QED
    BY <1>1, <1>3, <2>1, StillServed DEF LocalInv
<1>4. ASSUME NEW r \in Requests, CreateResponse(r) \/ Work(r) \/ Run(r)
      PROVE  \A s \in Requests : OneServed(s)'
  <2>1. CASE EndTask(r)
    <3>1. LeftBehind = {}
      BY <1>1, <2>1 DEF EndTask, vars, LeftBehind
    <3> QED
      BY <1>1, <2>1, <3>1, WorkAlone DEF LocalInv, Work
  <2>2. CASE ~EndTask(r)
    <3>1. StepOf(r) \/ DumpCaught(r)
      BY <1>4, <2>2 DEF CreateResponse, Work, TakeTask, Handle, Run, StepOf, Serve
    <3>2. RequestMoves(r)
      BY <1>1, <3>1, ServerStepInv, DumpCaughtStep DEF ServerInv
    <3>3. LeftBehind = {}
      BY <1>1, <1>2, <3>1, <3>2, LeftBehindStays DEF RequestMoves
    <3>4. \A s \in Requests : OneServed(s)
      BY <1>1, <3>3 DEF LocalInv
    <3> QED
      BY <1>1, <1>4, <3>2, <3>4, CreateAlone, WorkAlone, RunAlone
  <2> QED
    BY <2>1, <2>2
<1>5. CASE UNCHANGED allVars
  BY <1>3, <1>5 DEF allVars, vars, localVars, Still
<1>6. CASE StopServer
  BY <1>3, <1>6 DEF StopServer, vars, Still
<1>7. ASSUME NEW r \in Requests, DestroyResponse(r) PROVE \A s \in Requests : OneServed(s)'
  BY <1>3, <1>7 DEF DestroyResponse, Stop, localVars, Still
<1> QED
  BY <1>1, <1>4, <1>5, <1>6, <1>7 DEF LocalNext

\* One worker: unless a session was left behind, no generation loses its
\* context or the cache it has taken over to another one.
THEOREM GenerationsStayApart == LocalSpec => []GenerationsDoNotMeet
<1>1. LocalInit => LocalInv
  BY DEF LocalInit, Init, LocalInv, OneServed, OwnsCaches, Active, Serving, Streamed, InUse
<1>2. ServerInv /\ LocalInv /\ [LocalNext]_allVars => LocalInv'
  BY LocalStepInv
<1>3. LocalInv => GenerationsDoNotMeet
  BY DEF LocalInv, OneServed, OwnsCaches, GenerationsDoNotMeet
<1> QED
  BY <1>1, <1>2, <1>3, LocalServerInv, PTL DEF LocalSpec

-----------------------------------------------------------------------------
(* One task at a time.                                                     *)

\* Only the assertion of async_run aborts the process: another generation is in
\* the middle of a forward pass.
LEMMA AbortsOnlyBusy ==
  ASSUME LocalNext, process' = "aborted"
  PROVE  /\ UNCHANGED << gen, conn, sessions, worker >>
         /\ \E r, s \in Requests : r # s /\ gen[r] = "decode" /\ gen[s] = "forward"
<1>1. process = "up"
  BY DEF LocalNext
<1>2. ~Still
  BY <1>1 DEF Still
<1>3. PICK r \in Requests : StepOf(r) \/ DumpCaught(r)
  BY <1>2, LocalSteps
<1>4. ForwardAborts(r)
  <2>1. CASE DumpCaught(r) \/ Send(r) \/ Setup(r)
    BY <1>1, <2>1 DEF DumpCaught, Send, Setup, SetupCached, BeginLoad, LoadModel, LoadFails,
       KeepContext
  <2>2. CASE Serve(r) \/ DumpThrows(r)
    BY <1>1, <2>2 DEF Serve, AnswerAtOnce, Accept, StartInline, StartSession, FetchResult,
       SendDone, EraseSession, JoinThread, DumpThrows, Stop
  <2>3. CASE Generate(r)
    BY <1>1, <2>3 DEF Generate, UseDestroyed, Construct, ConstructEmpty, LosePool, BeginForward,
       EndForward, Finish, Close, Unwind, Stop
  <2>4. CASE Spin(r)
    BY <1>1, <2>4 DEF Spin, SpinAtEnd, SpinAtStart, SpinAtUnload
  <2> QED
    BY <1>3, <2>1, <2>2, <2>3, <2>4 DEF StepOf, Infer
<1>5. gen[r] = "decode" /\ UNCHANGED << conn, gen, sessions >>
  BY <1>4 DEF ForwardAborts, Stop
<1>6. \E s \in Requests : r # s /\ gen[s] = "forward"
  BY <1>4 DEF ForwardAborts, PoolBusy, Stop
<1>7. worker' = worker
  <2>1. ASSUME NEW q \in Requests, TakeTask(q) \/ EndTask(q) PROVE process' = process
    BY <2>1 DEF TakeTask, EndTask, AnswerAtOnce, Accept, StartInline, StartSession, vars
  <2> QED
    BY <1>1, <2>1 DEF LocalNext, CreateResponse, Work, Run, DestroyResponse, StopServer, localVars
<1> QED
  BY <1>5, <1>6, <1>7

\* The local server, which has one worker, gives a thread pool no second task
\* while it runs one, unless a session was left behind (ThreadPool::async_run).
\* The HTTP server does (server_overlap).
THEOREM LocalRunsOneTask == LocalSpec => [](LeftBehind = {} => OneTaskAtATime)
<1> DEFINE OneTask == LeftBehind = {} => OneTaskAtATime
<1>1. LocalInit => LocalInv /\ OneTask
  BY DEF LocalInit, Init, LocalInv, OneServed, OwnsCaches, Active, Serving, Streamed, InUse,
         OneTaskAtATime
<1>2. ASSUME LocalInv, OneTask, [LocalNext]_allVars PROVE OneTask'
  <2> SUFFICES ASSUME LeftBehind' = {}, process' = "aborted" PROVE FALSE
    BY DEF OneTaskAtATime
  <2>1. CASE UNCHANGED allVars
    BY <1>2, <2>1 DEF allVars, vars, LeftBehind, OneTaskAtATime
  <2>2. CASE LocalNext
    <3>1. PICK r, s \in Requests : r # s /\ gen[r] = "decode" /\ gen[s] = "forward"
      BY <2>2, AbortsOnlyBusy
    <3>2. LeftBehind = {}
      BY <2>2, AbortsOnlyBusy DEF LeftBehind
    <3>3. OneServed(r) /\ OneServed(s)
      BY <1>2, <3>2 DEF LocalInv
    <3>4. worker = r /\ worker = s
      BY <3>1, <3>3 DEF OneServed, Active
    <3> QED
      BY <3>1, <3>4
  <2> QED
    BY <1>2, <2>1, <2>2
<1>3. ServerInv /\ LocalInv /\ OneTask /\ [LocalNext]_allVars => LocalInv' /\ OneTask'
  BY <1>2, LocalStepInv
<1> QED
  BY <1>1, <1>3, LocalServerInv, PTL DEF LocalSpec

=============================================================================
