---------------------------- MODULE ServerRender ----------------------------
(***************************************************************************)
(* packages/ssr: renderToString for requests that overlap, each with a     *)
(* store of its own that is found through AsyncLocalStorage or, where      *)
(* there is none, through a stack of contexts; the pool of DOMs they       *)
(* render in; a timeout that gives up waiting for a render it cannot stop; *)
(* and who asks for pages: handlers of a server, streams that are aborted, *)
(* and the workers of prerender.                                           *)
(***************************************************************************)
EXTENDS Integers, Sequences, FiniteSets, SequencesExt

CONSTANTS
  Requests,     \* 1..n; for prerender the pages, in the order of the queue
  Streams,      \* the requests that are answered as a stream
  Workers,      \* of prerender
  MaxPool,      \* MAX_DOM_POOL_SIZE
  MaxPasses     \* MAX_PASSES of inlineServerComponents

VARIABLES
  als,          \* whether there is an AsyncLocalStorage
  serving,      \* whether this is a server, or a run of prerender
  failOnError,  \* the option of prerender
  stack,        \* _stack of the context storage that stands in for it
  work,         \* of each request: its render
  result,       \* of each request: how far the one who asked for it has got
  aborted,      \* the streams whose signal is aborted
  pool,         \* _jsdomPool
  doms,         \* the DOMs: how many were made, whose body is not empty, which were closed
  job,          \* of each worker: its page, or what it ended with
  files         \* the pages prerender has put down: rendered, or failed

vars == <<als, serving, failOnError, stack, work, result, aborted, pool, doms, job, files>>

\* at: the render waits for components ("prepass"), has been done in its DOM ("rendered"), or
\* is over.  settled: renderToString has ended for its caller.  reads: the stores it has read.
NewWork == [at |-> "idle", passes |-> 0, began |-> 0, dom |-> 0, ok |-> FALSE,
            settled |-> FALSE, late |-> FALSE, reads |-> {}]
Begun == {r \in Requests : work[r].at \notin {"idle", "asked"}}
UnderWay == {r \in Requests : work[r].at \in {"prepass", "rendered"}}

\* What a worker does that has no page.
Idle == 0
Ended == -1
Rejected == -2

TypeOK ==
  /\ {als, serving, failOnError} \subseteq BOOLEAN /\ stack \in Seq(Requests) /\ aborted \subseteq Streams
  /\ work \in [Requests -> [at : {"idle", "asked", "prepass", "rendered", "over"}, passes : 0..MaxPasses,
                            began : 0..Cardinality(Requests), dom : 0..Cardinality(Requests), ok : BOOLEAN,
                            settled : BOOLEAN, late : BOOLEAN, reads : SUBSET Requests]]
  /\ result \in [Requests -> {"none", "head", "waits", "body", "whole", "failed"}]
  /\ pool \in Seq(1..doms.made) /\ doms.dirty \cup doms.closed \subseteq 1..doms.made
  /\ job \in [Workers -> Requests \cup {Idle, Ended, Rejected}]
  /\ files.rendered \cup files.failed \subseteq Requests

Init ==
  /\ als \in BOOLEAN /\ serving \in BOOLEAN /\ failOnError \in {FALSE, ~serving}
  /\ stack = <<>> /\ pool = <<>> /\ aborted = {}
  /\ work = [r \in Requests |-> NewWork] /\ result = [r \in Requests |-> "none"]
  /\ doms = [made |-> 0, dirty |-> {}, closed |-> {}]
  /\ job = [w \in Workers |-> Idle]
  /\ files = [rendered |-> {}, failed |-> {}]

RendersStay == UNCHANGED <<stack, work, pool, doms>>
AskersStay == UNCHANGED <<als, serving, failOnError, aborted, job, files>>

------------------------------------------------------------------------------
(* renderToString *)

\* getStore in the code of request r.
getStore(r) == IF als THEN r ELSE Last(stack)

\* The imports have come: the context is entered, and the first pass reads the registry.
Enter(r) ==
  /\ work[r].at = "asked"
  /\ stack' = IF als THEN stack ELSE Append(stack, r)
  /\ work' = [work EXCEPT ![r] = [@ EXCEPT !.at = "prepass", !.passes = 1, !.reads = {r},
                                           !.began = Cardinality(Begun) + 1]]
  /\ UNCHANGED <<result, pool, doms>> /\ AskersStay

\* The components of a pass are there, and what they rendered has components in it.
NextPass(r) ==
  /\ work[r].at = "prepass" /\ work[r].passes < MaxPasses
  /\ work' = [work EXCEPT ![r].passes = @ + 1, ![r].reads = @ \cup {getStore(r)}]
  /\ UNCHANGED <<stack, result, pool, doms>> /\ AskersStay

\* Faulty variant: the last DOM of the pool is used and stays in it.
TakenAndKept == pool

\* The pool when one DOM has been taken out.
Taken == IF pool = <<>> THEN pool ELSE Front(pool)

\* The rest is synchronous: a DOM, the document, the start of the runtime or the app, a flush,
\* and the text; it throws or not.
Render(r, ok) ==
  LET dom == IF pool = <<>> THEN doms.made + 1 ELSE Last(pool)
  IN /\ work[r].at = "prepass" /\ pool' = Taken
     /\ doms' = [doms EXCEPT !.made = IF pool = <<>> THEN @ + 1 ELSE @, !.dirty = @ \cup {dom}]
     /\ work' = [work EXCEPT ![r] = [work[r] EXCEPT !.at = "rendered", !.dom = dom, !.ok = ok,
                                                    !.reads = @ \cup {getStore(r)}]]
     /\ UNCHANGED <<stack, result>> /\ AskersStay

\* Faulty variant: the context on top is taken off.
LeftTop(r) == Front(stack)

\* The stack without the newest context of r.
Left(r) ==
  IF als THEN stack ELSE RemoveAt(stack, CHOOSE i \in DOMAIN stack :
    stack[i] = r /\ \A j \in DOMAIN stack : stack[j] = r => j <= i)

\* Faulty variant: who was told that the render failed is answered after all.
AnsweredAnyway(r) ==
  IF ~work[r].ok THEN "failed" ELSE IF serving /\ r \in Streams THEN "body" ELSE "whole"

\* What the answer of renderToString makes of the one who waits for it, if somebody does.
Answered(r) ==
  IF result[r] # "waits" THEN result[r]
  ELSE IF ~work[r].ok THEN "failed" ELSE IF serving /\ r \in Streams THEN "body" ELSE "whole"

\* The microtasks after it: the context is left, and the finally block empties the DOM and puts
\* it back, unless it ran before there was one.
Finish(r) ==
  LET room == Len(pool) < MaxPool
  IN /\ work[r].at = "rendered" /\ stack' = Left(r)
     /\ work' = [work EXCEPT ![r].at = "over", ![r].settled = TRUE]
     /\ result' = [result EXCEPT ![r] = Answered(r)]
     /\ IF work[r].settled THEN UNCHANGED <<pool, doms>>
        ELSE /\ pool' = IF room THEN Append(pool, work[r].dom) ELSE pool
             /\ doms' = [doms EXCEPT !.dirty = @ \ {work[r].dom},
                           !.closed = IF room THEN @ ELSE @ \cup {work[r].dom}]
     /\ AskersStay

\* The timer of raceWithTimeout; timers wait for microtasks.
Timeout(r) ==
  /\ work[r].at = "prepass" /\ ~work[r].settled /\ \A s \in Requests : work[s].at # "rendered"
  /\ work' = [work EXCEPT ![r].settled = TRUE, ![r].late = TRUE]
  /\ result' = [result EXCEPT ![r] = IF @ = "waits" THEN "failed" ELSE @]
  /\ UNCHANGED <<stack, pool, doms>> /\ AskersStay

------------------------------------------------------------------------------
(* Handlers and streams *)

RenderBegins(r) ==
  /\ result' = [result EXCEPT ![r] = "waits"] /\ work' = [work EXCEPT ![r].at = "asked"]
  /\ UNCHANGED <<stack, pool, doms>>

\* A handler calls renderToString; a stream starts with the head.
Ask(r) ==
  /\ serving /\ result[r] = "none" /\ AskersStay
  /\ IF r \notin Streams THEN RenderBegins(r)
     ELSE result' = [result EXCEPT ![r] = IF r \in aborted THEN "failed" ELSE "head"] /\ RendersStay

\* The reader of a stream asks for the next part.
Pull(r) ==
  /\ result[r] \in {"head", "body"} /\ AskersStay
  /\ IF result[r] = "head" /\ r \notin aborted THEN RenderBegins(r)
     ELSE result' = [result EXCEPT ![r] = IF r \in aborted THEN "failed" ELSE "whole"] /\ RendersStay

\* The signal, or cancel of the ReadableStream: who waits in raceWithAbort waits no more.
Abort(r) ==
  /\ serving /\ r \notin aborted /\ result[r] \notin {"whole", "failed"} /\ aborted' = aborted \cup {r}
  /\ result' = [result EXCEPT ![r] = IF @ = "waits" THEN "failed" ELSE @]
  /\ RendersStay /\ UNCHANGED <<als, serving, failOnError, job, files>>

------------------------------------------------------------------------------
(* prerender *)

\* The pages prerender has not begun.
Queue == {r \in Requests : result[r] = "none"}

worker(w) ==
  /\ ~serving /\ job[w] = Idle /\ UNCHANGED <<als, serving, failOnError, aborted, files>>
  /\ \/ Queue = {} /\ job' = [job EXCEPT ![w] = Ended] /\ UNCHANGED result /\ RendersStay
     \/ \E r \in Queue : (\A s \in Queue : r <= s) /\ job' = [job EXCEPT ![w] = r] /\ RenderBegins(r)

\* The page of a worker is there, or has failed, which ends the worker or is noted.
PageEnds(w) ==
  LET r == job[w]
  IN /\ r \in Requests /\ result[r] \in {"whole", "failed"}
     /\ IF result[r] = "whole"
        THEN files' = [files EXCEPT !.rendered = @ \cup {r}] /\ job' = [job EXCEPT ![w] = Idle]
        ELSE IF failOnError THEN UNCHANGED files /\ job' = [job EXCEPT ![w] = Rejected]
        ELSE files' = [files EXCEPT !.failed = @ \cup {r}] /\ job' = [job EXCEPT ![w] = Idle]
     /\ RendersStay /\ UNCHANGED <<als, serving, failOnError, aborted, result>>

\* Faulty variant: the first worker that ends decides.
SettledByFirst == \E w \in Workers : job[w] \in {Ended, Rejected}

\* Promise.allSettled of the workers.
Settled == \A w \in Workers : job[w] \in {Ended, Rejected}

Next ==
  \/ \E r \in Requests : \/ Enter(r) \/ NextPass(r) \/ (\E ok \in BOOLEAN : Render(r, ok))
                         \/ Finish(r) \/ Timeout(r) \/ Ask(r) \/ Pull(r)
  \/ \E r \in Streams : Abort(r)
  \/ \E w \in Workers : worker(w) \/ PageEnds(w)

Spec == Init /\ [][Next]_vars

------------------------------------------------------------------------------
(* What is checked *)

\* A request renders with its own registries, document and state, whatever other requests are
\* under way.  Without AsyncLocalStorage it may meet those of one that began after it, but
\* never those of one that is over or began before.
RequestsAreIsolated ==
  /\ \A r \in Requests, s \in Requests :
       s \in work[r].reads => s = r \/ (~als /\ work[s].began > work[r].began)
  /\ ToSet(stack) = IF als THEN {} ELSE UnderWay

\* A DOM is in one place: in the pool, with an empty body, or with one render, or closed; only
\* a render that went on after its timeout keeps one for ever.
DomsAreInOnePlace ==
  LET held == {r \in Requests : work[r].at = "rendered" \/ (work[r].at = "over" /\ work[r].late)}
  IN /\ IsInjective(pool) /\ Len(pool) <= MaxPool /\ ToSet(pool) \cap (doms.dirty \cup doms.closed) = {}
     /\ \A r, s \in held : work[r].dom = work[s].dom => r = s
     /\ doms.dirty = {work[r].dom : r \in held}
     /\ 1..doms.made = ToSet(pool) \cup doms.dirty \cup doms.closed

\* Who was told that a render failed, because of its time or its own signal, is not answered
\* later; and nobody waits for a render that is over.
AnswersAreExpected ==
  /\ \A r \in Requests : work[r].late => result[r] = "failed"
  /\ \A r \in aborted : result[r] \notin {"none", "waits", "whole"} \/ work[r].at = "idle"
  /\ \A r \in Requests : result[r] = "waits" <=> work[r].at \in {"asked", "prepass", "rendered"}
                                                  /\ ~work[r].late /\ r \notin aborted

\* prerender puts every page down once, rendered in time or failed, and all of them when it is
\* through without an error.
EveryPageIsPutDown ==
  /\ files.rendered \cap files.failed = {}
  /\ ~serving /\ Settled /\ (\A w \in Workers : job[w] # Rejected)
       => files.rendered \cup files.failed = Requests
  /\ \A r \in files.rendered : work[r].ok /\ ~work[r].late
=============================================================================
