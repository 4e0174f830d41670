------------------------------- MODULE Facade -------------------------------
(***************************************************************************)
(* The public methods of Reasoner, called by several threads: a reentrant  *)
(* lock around every method, the caches of raw and public results above    *)
(* those of the backend session, backend calls that raise or return        *)
(* malformed values, and close().  A method is a sequence of steps, and a  *)
(* step that finds its cache empty is replaced by the steps that fill it.  *)
(* Results are abstracted to their shape: "collapsed" is the one-node      *)
(* result of an inconsistent ontology, "ordinary" every other one.         *)
(***************************************************************************)
EXTENDS Naturals, Sequences

CONSTANTS
    Threads,
    Settings,      \* [inconsistent, ranges, allowFresh]: the ontology and the configuration
    Requests,      \* [method, fresh]: fresh when it names an entity the ontology lacks
    NoThread, NoRequest, NoReply, NoValue,
    MaxCalls,      \* calls of a behaviour
    MaxFailures    \* steps that raise

Kinds == {"classes", "properties", "realization"}

Shapes == {"collapsed", "ordinary"}

\* A result; a realization carries the class taxonomy it was built from.
Values == [taxonomy : Shapes, shape : Shapes]

Replies ==
    [outcome : {"answer", "closed", "error", "ReasonerClosedError", "FreshEntityError"},
     inconsistent : BOOLEAN, shape : Shapes \cup {"none"}]

ASSUME SettingsAssumption ==
    Settings \subseteq [inconsistent : BOOLEAN, ranges : BOOLEAN, allowFresh : BOOLEAN]

\* None, where the code keeps it, is none of the values it stands in for.
ASSUME MarkersAssumption ==
    /\ NoThread \notin Threads
    /\ NoRequest \notin Requests
    /\ NoReply \notin Replies
    /\ NoValue \notin Values \cup BOOLEAN

VARIABLES
    setting,       \* what the reasoner was created with; with ranges the verdict may turn
    lock,          \* _lock: [owner, depth]
    request,       \* the call of each thread
    stack,         \* the steps the call has left
    flag,          \* the local variable inconsistent of each call
    got,           \* the values each call obtained
    reply,         \* the outcome of each call
    closed,        \* _closed
    raw, public,   \* the caches of the facade
    backend,       \* the session: [closed, verdict, cache, engine, closes]
    calls, failures

local == <<request, stack, flag, got, reply>>
caches == <<raw, public>>
vars == <<setting, lock, local, closed, caches, backend, calls, failures>>

Nothing == [k \in Kinds |-> NoValue]

(***************************************************************************)
(* The steps of every public method                                        *)
(***************************************************************************)

\* is_consistent and is_inconsistent; classify, classify_object_properties and realize
TaskSteps(method) ==
    CASE method = "consistency" -> <<<<"verdict">>, <<"reply">>>>
      [] method = "classify" -> <<<<"verdict">>, <<"public", "classes">>, <<"reply">>>>
      [] method = "classify_properties" -> <<<<"verdict">>, <<"public", "properties">>, <<"reply">>>>
      [] method = "realize" -> <<<<"verdict">>, <<"public", "realization">>, <<"reply">>>>

\* is_satisfiable, equivalent_classes, subclasses, superclasses and instances
ClassQuerySteps == <<<<"verdict">>, <<"fresh">>, <<"query">>, <<"reply">>>>

\* types
TypesSteps == <<<<"verdict">>, <<"fresh">>, <<"raw", "realization">>, <<"reply">>>>

\* _object_property_query
PropertyQuerySteps == <<<<"verdict">>, <<"raw", "properties">>, <<"fresh">>, <<"reply">>>>

\* equivalent_object_properties takes the lock again in _object_property_query.
EquivalentPropertySteps ==
    <<<<"lock">>, <<"verdict">>, <<"raw", "properties">>, <<"fresh">>, <<"unlock">>, <<"reply">>>>

\* is_entailed: the verdict is read after the answer.
EntailmentSteps == <<<<"fresh">>, <<"entails">>, <<"verdict">>, <<"reply">>>>

\* backend, ontology, diagnostics, all_classes and the like
InspectionSteps == <<<<"inspect">>, <<"reply">>>>

Tasks == {"consistency", "classify", "classify_properties", "realize"}
Queries == {"class_query", "types", "property_query", "equivalent_property", "entailed"}
Methods == Tasks \cup Queries \cup {"inspect", "close"}

ASSUME RequestsAssumption ==
    \A r \in Requests : r.method \in Methods /\ r.fresh \in BOOLEAN /\ (r.fresh => r.method \in Queries)

Body(method) ==
    CASE method \in Tasks -> TaskSteps(method)
      [] method = "class_query" -> ClassQuerySteps
      [] method = "types" -> TypesSteps
      [] method = "property_query" -> PropertyQuerySteps
      [] method = "equivalent_property" -> EquivalentPropertySteps
      [] method = "entailed" -> EntailmentSteps
      [] method = "inspect" -> InspectionSteps
      [] method = "close" -> <<<<"close">>>>

\* with self._lock
Locked(steps) == <<<<"lock">>>> \o steps \o <<<<"unlock">>>>

(***************************************************************************)
(* Running the steps of a call                                             *)
(***************************************************************************)
Init ==
    /\ setting \in Settings
    /\ lock = [owner |-> NoThread, depth |-> 0]
    /\ request = [t \in Threads |-> NoRequest]
    /\ stack = [t \in Threads |-> <<>>]
    /\ flag = [t \in Threads |-> FALSE]
    /\ got = [t \in Threads |-> Nothing]
    /\ reply = [t \in Threads |-> NoReply]
    /\ closed = FALSE
    /\ raw = Nothing
    /\ public = Nothing
    /\ backend = [closed |-> FALSE, verdict |-> NoValue, cache |-> Nothing, engine |-> FALSE, closes |-> 0]
    /\ calls = 0
    /\ failures = 0

AtStep(t, name) == stack[t] # <<>> /\ stack[t][1][1] = name
AtKind(t, name, kind) == stack[t] # <<>> /\ stack[t][1] = <<name, kind>>

\* An outcome without a value.
Raised(outcome) == [outcome |-> outcome, inconsistent |-> FALSE, shape |-> "none"]

\* The step is done.
Pop(t) == stack' = [stack EXCEPT ![t] = Tail(@)]

\* The step is replaced by others.
Push(t, steps) == stack' = [stack EXCEPT ![t] = steps \o Tail(@)]

\* An exception leaves the method: the inner lock is released, no cache is assigned.
Unwind(t, error) ==
    /\ reply' = [reply EXCEPT ![t] = Raised(error)]
    /\ stack' = [stack EXCEPT ![t] = <<<<"unlock">>>>]
    /\ lock' = [lock EXCEPT !.depth = 1]

Call(t, r) ==
    /\ request[t] = NoRequest
    /\ calls < MaxCalls
    /\ calls' = calls + 1
    /\ request' = [request EXCEPT ![t] = r]
    /\ stack' = [stack EXCEPT ![t] = Locked(Body(r.method))]
    /\ UNCHANGED <<setting, lock, flag, got, reply, closed, caches, backend, failures>>

\* Mutant of Acquire: a lock that its own thread cannot take again.
AcquireOnce(t) ==
    /\ AtStep(t, "lock")
    /\ lock.owner = NoThread
    /\ lock' = [owner |-> t, depth |-> 1]
    /\ Pop(t)
    /\ UNCHANGED <<setting, request, flag, got, reply, closed, caches, backend, calls, failures>>

\* Mutant of Acquire: close() does not take the lock.
AcquireUnlessClosing(t) ==
    /\ AtStep(t, "lock")
    /\ \/ lock.owner \in {NoThread, t} /\ lock' = [owner |-> t, depth |-> lock.depth + 1]
       \/ request[t].method = "close" /\ lock' = lock
    /\ Pop(t)
    /\ UNCHANGED <<setting, request, flag, got, reply, closed, caches, backend, calls, failures>>

\* RLock
Acquire(t) ==
    /\ AtStep(t, "lock")
    /\ lock.owner \in {NoThread, t}
    /\ lock' = [owner |-> t, depth |-> lock.depth + 1]
    /\ Pop(t)
    /\ UNCHANGED <<setting, request, flag, got, reply, closed, caches, backend, calls, failures>>

\* The inner lock of a method is released; the outer one with the return of the call.
Release(t) ==
    /\ AtStep(t, "unlock")
    /\ lock' = IF lock.depth = 1 THEN [owner |-> NoThread, depth |-> 0]
                                 ELSE [lock EXCEPT !.depth = @ - 1]
    /\ Pop(t)
    /\ IF Len(stack[t]) > 1
       THEN UNCHANGED <<request, flag, got, reply>>
       ELSE /\ request' = [request EXCEPT ![t] = NoRequest]
            /\ flag' = [flag EXCEPT ![t] = FALSE]
            /\ got' = [got EXCEPT ![t] = Nothing]
            /\ reply' = [reply EXCEPT ![t] = NoReply]
    /\ UNCHANGED <<setting, closed, caches, backend, calls, failures>>

\* _ensure_open, _require_session, _require_metadata, _require_symbols
Refuse(t) ==
    /\ closed
    /\ stack[t] # <<>>
    /\ stack[t][1][1] \notin {"lock", "unlock", "close"}
    /\ Unwind(t, "ReasonerClosedError")
    /\ UNCHANGED <<setting, request, flag, got, closed, caches, backend, calls, failures>>

(***************************************************************************)
(* The verdict and the shapes                                              *)
(***************************************************************************)
Shape(inconsistent) == IF inconsistent THEN "collapsed" ELSE "ordinary"

\* ensure_consistency
Ensured == IF backend.verdict = NoValue THEN setting.inconsistent ELSE backend.verdict

\* The verdicts after the engine was run for a kind: with ranges, classification may
\* contradict an individual.  The individuals that realization adds occur in no axiom.
AfterRun(kind) == {Ensured} \cup (IF kind = "classes" /\ setting.ranges THEN {TRUE} ELSE {})

\* _inconsistent
ReadVerdict(t) ==
    /\ AtStep(t, "verdict") /\ ~closed
    /\ backend' = [backend EXCEPT !.verdict = Ensured]
    /\ flag' = [flag EXCEPT ![t] = Ensured]
    /\ Pop(t)
    /\ UNCHANGED <<setting, lock, request, got, reply, closed, caches, calls, failures>>

\* Mutant of CheckFresh: fresh entities are refused before inconsistency is considered.
CheckFreshFirst(t) ==
    /\ AtStep(t, "fresh") /\ ~closed
    /\ IF request[t].fresh /\ ~setting.allowFresh
       THEN Unwind(t, "FreshEntityError")
       ELSE Pop(t) /\ UNCHANGED <<lock, reply>>
    /\ UNCHANGED <<setting, request, flag, got, closed, caches, backend, calls, failures>>

\* _validate_fresh and its callers: an inconsistent ontology answers quietly, except to
\* is_entailed, which checks before it knows.
CheckFresh(t) ==
    /\ AtStep(t, "fresh") /\ ~closed
    /\ IF request[t].fresh /\ ~setting.allowFresh /\ (request[t].method = "entailed" \/ ~flag[t])
       THEN Unwind(t, "FreshEntityError")
       ELSE Pop(t) /\ UNCHANGED <<lock, reply>>
    /\ UNCHANGED <<setting, request, flag, got, closed, caches, backend, calls, failures>>

(***************************************************************************)
(* The caches of the facade                                                *)
(***************************************************************************)

\* _class_taxonomy, _object_taxonomy, _realization
UsePublic(t, kind) ==
    /\ AtKind(t, "public", kind) /\ ~closed
    /\ IF public[kind] # NoValue
       THEN Pop(t) /\ got' = [got EXCEPT ![t][kind] = public[kind]]
       ELSE /\ Push(t, <<<<"raw", kind>>>>
                         \o (IF kind = "realization" THEN <<<<"public", "classes">>>> ELSE <<>>)
                         \o <<<<"publish", kind>>>>)
            /\ got' = got
    /\ UNCHANGED <<setting, lock, request, flag, reply, closed, caches, backend, calls, failures>>

\* _public_taxonomy and the end of _realization
Publish(t, kind) ==
    /\ AtKind(t, "publish", kind) /\ ~closed
    /\ public' = [public EXCEPT ![kind] = got[t][kind]]
    /\ Pop(t)
    /\ UNCHANGED <<setting, lock, request, flag, got, reply, closed, raw, backend, calls, failures>>

\* Mutant of UseRaw: the realization is kept before it is compared with the taxonomy.
UseRawUncompared(t, kind) ==
    /\ AtKind(t, "raw", kind) /\ ~closed
    /\ IF raw[kind] # NoValue
       THEN Pop(t) /\ got' = [got EXCEPT ![t][kind] = raw[kind]]
       ELSE /\ Push(t, <<<<"backend", kind>>, <<"accept", kind>>>>
                         \o (IF kind = "realization" THEN <<<<"raw", "classes">>>> ELSE <<>>))
            /\ got' = got
    /\ UNCHANGED <<setting, lock, request, flag, reply, closed, caches, backend, calls, failures>>

\* _raw_class_taxonomy, _raw_object_taxonomy, _raw_realization
UseRaw(t, kind) ==
    /\ AtKind(t, "raw", kind) /\ ~closed
    /\ IF raw[kind] # NoValue
       THEN Pop(t) /\ got' = [got EXCEPT ![t][kind] = raw[kind]]
       ELSE /\ Push(t, <<<<"backend", kind>>>>
                         \o (IF kind = "realization" THEN <<<<"raw", "classes">>>> ELSE <<>>)
                         \o <<<<"accept", kind>>>>)
            /\ got' = got
    /\ UNCHANGED <<setting, lock, request, flag, reply, closed, caches, backend, calls, failures>>

\* _validate_taxonomy, _validate_realization and the assignment of the cache
Accept(t, kind) ==
    /\ AtKind(t, "accept", kind) /\ ~closed
    /\ IF kind = "realization" /\ got[t][kind].taxonomy # got[t]["classes"].taxonomy
       THEN Unwind(t, "error") /\ raw' = raw
       ELSE /\ raw' = [raw EXCEPT ![kind] = got[t][kind]]
            /\ Pop(t)
            /\ UNCHANGED <<lock, reply>>
    /\ UNCHANGED <<setting, request, flag, got, closed, public, backend, calls, failures>>

(***************************************************************************)
(* PythonBackendSession                                                    *)
(***************************************************************************)

\* class_taxonomy, object_property_taxonomy, realization
UseBackend(t, kind) ==
    /\ AtKind(t, "backend", kind) /\ ~closed
    /\ IF backend.cache[kind] # NoValue
       THEN Pop(t) /\ got' = [got EXCEPT ![t][kind] = backend.cache[kind]]
       ELSE /\ Push(t, (IF kind = "realization" THEN <<<<"backend", "classes">>>> ELSE <<>>)
                         \o <<<<"build", kind>>>>)
            /\ got' = got
    /\ UNCHANGED <<setting, lock, request, flag, reply, closed, caches, backend, calls, failures>>

\* The value of a kind under a verdict; a realization carries the class taxonomy it is
\* given, the properties only depend on the verdict.
Built(t, kind, inconsistent) ==
    [taxonomy |-> IF kind = "realization" THEN got[t]["classes"].taxonomy ELSE Shape(inconsistent),
     shape |-> Shape(inconsistent)]

\* class_taxonomy(session), object_property_taxonomy(session), realization(session, ...)
Build(t, kind) ==
    /\ AtKind(t, "build", kind) /\ ~closed
    /\ \E verdict \in AfterRun(kind) :
        LET value == Built(t, kind, verdict)
        IN  /\ backend' = [backend EXCEPT !.verdict = verdict, !.cache[kind] = value]
            /\ got' = [got EXCEPT ![t][kind] = value]
    /\ Pop(t)
    /\ UNCHANGED <<setting, lock, request, flag, reply, closed, caches, calls, failures>>

\* query_class_expression: the engine is created from the taxonomy and the realization.
Query(t) ==
    /\ AtStep(t, "query") /\ ~closed
    /\ Push(t, (IF backend.engine THEN <<>>
                ELSE <<<<"backend", "classes">>, <<"backend", "realization">>, <<"engine">>>>)
                 \o <<<<"run">>>>)
    /\ UNCHANGED <<setting, lock, request, flag, got, reply, closed, caches, backend, calls, failures>>

CreateEngine(t) ==
    /\ AtStep(t, "engine") /\ ~closed
    /\ backend' = [backend EXCEPT !.engine = TRUE]
    /\ Pop(t)
    /\ UNCHANGED <<setting, lock, request, flag, got, reply, closed, caches, calls, failures>>

\* query_class_expression, entails, info and diagnostics reach their answer.
Run(t) ==
    /\ AtStep(t, "run") \/ AtStep(t, "entails") \/ AtStep(t, "inspect")
    /\ ~closed
    /\ backend' = IF AtStep(t, "inspect") THEN backend ELSE [backend EXCEPT !.verdict = Ensured]
    /\ Pop(t)
    /\ UNCHANGED <<setting, lock, request, flag, got, reply, closed, caches, calls, failures>>

(***************************************************************************)
(* Outcomes                                                                *)
(***************************************************************************)

\* The result whose shape a method returns.
KindOf(method) ==
    CASE method = "classify" -> "classes"
      [] method \in {"classify_properties", "property_query", "equivalent_property"} -> "properties"
      [] method \in {"realize", "types"} -> "realization"
      [] OTHER -> "none"

\* A property query on an inconsistent ontology takes the top node whatever the taxonomy;
\* its shape is that of the node.
ShapeOf(t) ==
    LET kind == KindOf(request[t].method)
    IN  IF kind = "none" THEN "none" ELSE got[t][kind].shape

Answer(t) == [outcome |-> "answer", inconsistent |-> flag[t], shape |-> ShapeOf(t)]

\* _result and _query_result
Reply(t) ==
    /\ AtStep(t, "reply") /\ ~closed
    /\ reply' = [reply EXCEPT ![t] = Answer(t)]
    /\ Pop(t)
    /\ UNCHANGED <<setting, lock, request, flag, got, closed, caches, backend, calls, failures>>

BackendSteps == {"verdict", "build", "engine", "run", "entails", "inspect"}
CheckedSteps == {"publish", "accept", "reply"}

\* A backend call raises, or returns what the facade refuses.  What the stages of the
\* session had reached stays.
Fail(t) ==
    /\ stack[t] # <<>>
    /\ stack[t][1][1] \in BackendSteps \cup CheckedSteps
    /\ ~closed
    /\ failures < MaxFailures
    /\ failures' = failures + 1
    /\ \E verdict \in {backend.verdict} \cup (IF AtStep(t, "build") THEN AfterRun(stack[t][1][2]) ELSE {}) :
        backend' = [backend EXCEPT !.verdict = verdict]
    /\ Unwind(t, "error")
    /\ UNCHANGED <<setting, request, flag, got, closed, caches, calls>>

(***************************************************************************)
(* close                                                                   *)
(***************************************************************************)
Close(t) ==
    /\ AtStep(t, "close")
    /\ IF closed
       THEN Pop(t) /\ reply' = [reply EXCEPT ![t] = Raised("closed")]
       ELSE Push(t, <<<<"closing">>>>) /\ reply' = reply
    /\ UNCHANGED <<setting, lock, request, flag, got, closed, caches, backend, calls, failures>>

Released == [backend EXCEPT !.closed = TRUE, !.cache = Nothing, !.engine = FALSE, !.closes = @ + 1]

\* Mutant of CloseBackend: without finally, an exception skips the rest of close().
CloseBackendUnguarded(t) ==
    /\ AtStep(t, "closing")
    /\ backend' = Released
    /\ \/ /\ reply' = [reply EXCEPT ![t] = Raised("closed")]
          /\ closed' = TRUE /\ raw' = Nothing /\ public' = Nothing
          /\ failures' = failures
       \/ /\ failures < MaxFailures /\ failures' = failures + 1
          /\ reply' = [reply EXCEPT ![t] = Raised("error")]
          /\ UNCHANGED <<closed, raw, public>>
    /\ Pop(t)
    /\ UNCHANGED <<setting, lock, request, flag, got, calls>>

\* session.close() returns or raises; either way the facade is closed.
CloseBackend(t) ==
    /\ AtStep(t, "closing")
    /\ backend' = Released
    /\ closed' = TRUE
    /\ raw' = Nothing
    /\ public' = Nothing
    /\ \/ reply' = [reply EXCEPT ![t] = Raised("closed")] /\ failures' = failures
       \/ /\ failures < MaxFailures /\ failures' = failures + 1
          /\ reply' = [reply EXCEPT ![t] = Raised("error")]
    /\ Pop(t)
    /\ UNCHANGED <<setting, lock, request, flag, got, calls>>

Step(t) ==
    \/ Acquire(t) \/ Release(t) \/ Refuse(t)
    \/ ReadVerdict(t) \/ CheckFresh(t)
    \/ \E kind \in Kinds :
        UsePublic(t, kind) \/ Publish(t, kind) \/ UseRaw(t, kind) \/ Accept(t, kind)
          \/ UseBackend(t, kind) \/ Build(t, kind)
    \/ Query(t) \/ CreateEngine(t) \/ Run(t)
    \/ Reply(t) \/ Fail(t)
    \/ Close(t) \/ CloseBackend(t)

Next == \E t \in Threads : Step(t) \/ \E r \in Requests : Call(t, r)

Spec == Init /\ [][Next]_vars

FairSpec == Spec /\ \A t \in Threads : WF_vars(Step(t))

(***************************************************************************)
(* Properties                                                              *)
(***************************************************************************)
Inside(t) == stack[t] # <<>> /\ stack[t][1][1] \in BackendSteps \cup {"closing"}

\* "A facade-owned reentrant session lock serializes stage/query/diagnostic calls and
\* close(); close() waits for the current call, then closes exactly once": at most one
\* thread is inside the backend, never after its close, and it is closed once at most.
BackendIsSerial ==
    /\ \A t, u \in Threads : Inside(t) /\ Inside(u) => t = u
    /\ backend.closed => \A t \in Threads : Inside(t) => closed
    /\ backend.closes <= 1

\* However close() ends, the reasoner and its session are closed together and a closed
\* reasoner keeps no result.
ClosedTogether ==
    /\ closed = backend.closed
    /\ closed => raw = Nothing /\ public = Nothing /\ backend.cache = Nothing

\* Whatever raised on the way, the caches agree: a public result stands on the raw one,
\* a raw one is the backend's, and the realization was compared with the classification.
CachesAgree ==
    /\ \A kind \in Kinds :
        /\ public[kind] # NoValue => public[kind] = raw[kind]
        /\ raw[kind] # NoValue => raw[kind] = backend.cache[kind]
    /\ raw["realization"] # NoValue =>
        raw["classes"] # NoValue /\ raw["realization"].taxonomy = raw["classes"].taxonomy

\* "Multi-thread calls on one reasoner serialize without race/deadlock": every call
\* returns.
EveryCallReturns == \A t \in Threads : request[t] # NoRequest ~> request[t] = NoRequest

\* The answers an ontology and a configuration allow.
Allowed(r, s) ==
    LET verdicts == {s.inconsistent} \cup (IF s.ranges THEN {TRUE} ELSE {})
        shapes == IF KindOf(r.method) = "none" THEN {"none"} ELSE {Shape(v) : v \in verdicts}
        fresh == r.fresh /\ ~s.allowFresh
    IN  (IF fresh /\ (r.method = "entailed" \/ FALSE \in verdicts)
         THEN {Raised("FreshEntityError")} ELSE {})
          \cup
        (IF fresh /\ (r.method = "entailed" \/ TRUE \notin verdicts)
         THEN {}
         ELSE [outcome : {"answer"}, shape : shapes,
               inconsistent : IF r.method = "inspect" THEN {FALSE} ELSE verdicts])

Contract == INSTANCE ReasonerContract WITH
    status <- IF closed THEN "closed" ELSE "open",
    Answers <- Allowed

\* The facade implements its contract: every call takes effect at once, the answers agree
\* with the verdict, and nothing is answered after close().
ImplementsContract == Contract!Spec

\* "If the ontology is inconsistent, one node contains top, bottom, and all committed
\* object properties": a result that is returned as that of an inconsistent ontology is
\* collapsed.
FlagMatchesShape ==
    \A t \in Threads :
        reply[t] # NoReply => ~(reply[t].inconsistent /\ reply[t].shape = "ordinary")

(***************************************************************************)
(* Why it is so: the inductive invariant                                   *)
(***************************************************************************)
Unlock == <<"unlock">>

\* The steps of a method between its locks, its reply excepted.
InnerSteps ==
    {<<name>> : name \in {"verdict", "fresh", "query", "engine", "run", "entails", "inspect"}}
      \cup ({"public", "publish", "raw", "accept", "backend", "build"} \X Kinds)

AllSteps == InnerSteps \cup {<<name>> : name \in {"lock", "unlock", "reply", "close", "closing"}}

FacadeTypeOK ==
    /\ setting \in Settings
    /\ lock \in [owner : Threads \cup {NoThread}, depth : 0..2]
    /\ request \in [Threads -> Requests \cup {NoRequest}]
    /\ stack \in [Threads -> Seq(AllSteps)]
    /\ flag \in [Threads -> BOOLEAN]
    /\ got \in [Threads -> [Kinds -> Values \cup {NoValue}]]
    /\ reply \in [Threads -> Replies \cup {NoReply}]
    /\ closed \in BOOLEAN
    /\ raw \in [Kinds -> Values \cup {NoValue}]
    /\ public \in [Kinds -> Values \cup {NoValue}]
    /\ backend \in [closed : BOOLEAN, verdict : BOOLEAN \cup {NoValue},
                    cache : [Kinds -> Values \cup {NoValue}], engine : BOOLEAN, closes : 0..1]
    /\ calls \in Nat
    /\ failures \in Nat

\* What the steps of a call leave behind: a value of the kind in the call's hands, or in
\* the raw cache.
Fills(kind) == {<<name, kind>> : name \in {"public", "raw", "backend", "build"}}
Stores(kind) == {<<name, kind>> : name \in {"public", "raw", "accept"}}

\* The steps that read a value of the kind from the call's hands, or count on the raw cache.
UsesGot(t, kind) ==
    {<<"accept", kind>>, <<"publish", kind>>}
      \cup (IF kind = "classes" THEN {<<"accept", "realization">>, <<"build", "realization">>} ELSE {})
      \cup (IF kind = KindOf(request[t].method) THEN {<<"reply">>} ELSE {})
UsesRaw(kind) ==
    {<<"publish", kind>>} \cup (IF kind = "classes" THEN {<<"accept", "realization">>} ELSE {})
UsesFlag(t) ==
    (IF request[t].method = "inspect" THEN {} ELSE {<<"reply">>})
      \cup (IF request[t].method = "entailed" THEN {} ELSE {<<"fresh">>})

\* The verdicts the setting allows, and when a fresh entity lets a call answer.
Verdicts == {setting.inconsistent} \cup (IF setting.ranges THEN {TRUE} ELSE {})
FreshPasses(t) ==
    request[t].fresh /\ ~setting.allowFresh => request[t].method # "entailed" /\ TRUE \in Verdicts

\* Every use in the steps s has a supplier before it.
Supplied(s, uses, suppliers) ==
    \A i \in 1..Len(s) : s[i] \in uses => \E j \in 1..(i - 1) : s[j] \in suppliers

\* What a step of the call will need is there, or a step before it will supply it.
Ready(t) ==
    /\ \A kind \in Kinds :
        /\ got[t][kind] # NoValue \/ Supplied(stack[t], UsesGot(t, kind), Fills(kind))
        /\ raw[kind] # NoValue \/ Supplied(stack[t], UsesRaw(kind), Stores(kind))
    /\ flag[t] \in Verdicts \/ Supplied(stack[t], UsesFlag(t), {<<"verdict">>})
    /\ FreshPasses(t) \/ Supplied(stack[t], {<<"reply">>}, {<<"fresh">>})
    /\ request[t].method = "inspect" => ~flag[t] /\ Supplied(stack[t], {<<"verdict">>}, {})

\* A result is built at once, or right after the classes it needs, and never twice.
BuildsOnce(t) ==
    \A i \in 1..Len(stack[t]), kind \in Kinds :
        stack[t][i] = <<"build", kind>> =>
            /\ backend.cache[kind] = NoValue
            /\ i = 1 \/ (i = 2 /\ kind = "realization"
                           /\ stack[t][1] \in {<<"backend", "classes">>, <<"build", "classes">>})

\* Steps between the locks, then the end of the method: reply and unlock, or, inside the
\* inner lock, unlock before them.
Inner(s, n) == \A i \in 1..n : s[i] \in InnerSteps
EndsWith(s, n) == Len(s) = n + 2 /\ s[n + 1] = <<"reply">> /\ s[n + 2] = Unlock

OneLock(s) == \E n \in 0..Len(s) : Inner(s, n) /\ EndsWith(s, n)
TwoLocks(s) == \E n \in 0..Len(s) : Inner(s, n) /\ EndsWith(s, n + 1) /\ s[n + 1] = Unlock
Entering(s) == s = EquivalentPropertySteps \o <<Unlock>>

\* A thread without the lock is outside the reasoner or waits with its whole method ahead.
Outside(t) ==
    /\ flag[t] = FALSE /\ got[t] = Nothing /\ reply[t] = NoReply
    /\ \/ request[t] = NoRequest /\ stack[t] = <<>>
       \/ request[t] \in Requests /\ stack[t] = Locked(Body(request[t].method))

\* The owner of the lock works, closes the reasoner, or has its outcome and returns.
Working(t) ==
    /\ request[t].method # "close"
    /\ reply[t] = NoReply
    /\ \/ lock.depth = 1 /\ (OneLock(stack[t]) \/ Entering(stack[t]))
       \/ lock.depth = 2 /\ TwoLocks(stack[t])
    /\ Ready(t)
    /\ BuildsOnce(t)
Closing(t) ==
    /\ request[t].method = "close"
    /\ reply[t] = NoReply
    /\ lock.depth = 1
    /\ got[t] = Nothing
    /\ stack[t] = <<<<"close">>, Unlock>> \/ (stack[t] = <<<<"closing">>, Unlock>> /\ ~closed)
Returning(t) == reply[t] # NoReply /\ lock.depth = 1 /\ stack[t] = <<Unlock>>

LockIsKept ==
    /\ lock.owner = NoThread => lock.depth = 0
    /\ \A t \in Threads :
        IF lock.owner = t
        THEN request[t] \in Requests /\ (Working(t) \/ Closing(t) \/ Returning(t))
        ELSE Outside(t)

\* What a call holds is the backend's, and every value and verdict is one of the setting's.
ValuesAreBuilt ==
    /\ \A t \in Threads, kind \in Kinds : got[t][kind] \in {NoValue, backend.cache[kind]}
    /\ \A kind \in Kinds :
        backend.cache[kind] # NoValue => backend.cache[kind].shape \in {Shape(v) : v \in Verdicts}
    /\ backend.verdict \in Verdicts \cup {NoValue}

FacadeInv ==
    /\ FacadeTypeOK
    /\ LockIsKept
    /\ ValuesAreBuilt
    /\ ClosedTogether
    /\ backend.closes = (IF closed THEN 1 ELSE 0)
    /\ CachesAgree

=============================================================================
