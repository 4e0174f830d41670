------------------------------- MODULE Startup -------------------------------
(***************************************************************************)
(* Reasoner.__init__ and the backend dispatcher it drives: acquire the     *)
(* input, try the encoded native path, otherwise compile scalar axioms and *)
(* create a Python or a native session, and publish the reasoner.  Every   *)
(* call on the way may raise; os.environ may change while others run.      *)
(***************************************************************************)
EXTENDS Naturals, Sequences

CONSTANTS
    Configs,       \* ReasonerConfig values: [backend, incomplete, strict]
    Environments,  \* values of PYELK_BACKEND and PYELK_PURE_PYTHON: [backend, pure]
    Views,         \* ontology views: [core, complete, advertised]
    Natives,       \* pyelk._native: [installed, schemas]
    MaxChanges     \* how often os.environ changes during a construction

ASSUME MaxChangesAssumption == MaxChanges \in Nat

\* ReasonerConfig admits three backends; "other" stands for any other text of
\* PYELK_BACKEND.
ASSUME RequestAssumption ==
    /\ \A c \in Configs : c.backend \in {"auto", "python", "rust"}
    /\ \A e \in Environments : e.backend \in {"auto", "python", "rust", "other"}

VARIABLES
    config, environ, view, native,
    changes,     \* changes of os.environ so far
    pc,          \* the step of __init__ that comes next
    requests,    \* the effective requests resolved so far
    imported,    \* pyelk._native has been imported
    handoff,     \* a validated encoded handoff was acquired
    scalar,      \* the scalar compiler has started to read the axioms
    session,     \* the BackendSession: [kind, open]
    fallback,    \* BackendInfo.fallback_reason
    outcome      \* "none", "published", or the exception that left __init__

world == <<config, view, native>>
progress == <<requests, imported, handoff, scalar, session, fallback>>
vars == <<world, environ, changes, pc, progress, outcome>>

(***************************************************************************)
(* Versions and requests                                                   *)
(***************************************************************************)

\* require_core_compatibility and _require_view_capabilities
Compatible(core) ==
    /\ core.api = <<0, 2>>
    /\ core.model = 2
    /\ core.wire[1] = 1 /\ core.wire[2] >= 2
    /\ core.adapter = 1
    /\ core.features

\* ENCODED_SCHEMA_VERSION
SchemaVersion == 2

\* _environment and _apply_pure_mode: the effective request, or "invalid".
Effective(env) ==
    LET requested == IF config.backend # "auto" THEN config.backend ELSE env.backend
    IN  IF env.backend = "other" \/ env.pure = "other" THEN "invalid"
        ELSE IF env.pure # "1" THEN requested
        ELSE IF requested = "rust" THEN "invalid" ELSE "python"

\* What a handshake failure leaves: the import succeeded, the module is not used.
Usable == native.installed = "ok"

\* _encoded_view_schemas: the entry points are paired and the mapping is well formed.
WellAdvertised == native.schemas # "malformed"

\* Mutant of Reported: the report does not run the handshake.
ReportedFromImport ==
    IF environ.backend = "other" \/ environ.pure = "other" THEN "none"
    ELSE IF environ.pure # "1" /\ environ.backend # "python" /\ native.installed # "absent" THEN "rust"
    ELSE IF environ.backend = "rust" THEN "none" ELSE "python"

\* backend_report().selected
Reported ==
    IF environ.backend = "other" \/ environ.pure = "other" THEN "none"
    ELSE IF environ.pure # "1" /\ environ.backend # "python" /\ Usable THEN "rust"
    ELSE IF environ.backend = "rust" THEN "none" ELSE "python"

(***************************************************************************)
(* Steps                                                                   *)
(***************************************************************************)
NoSession == [kind |-> "none", open |-> FALSE]
Open(kind) == [kind |-> kind, open |-> TRUE]
Fatal == "MemoryError"

Init ==
    /\ config \in Configs
    /\ environ \in Environments
    /\ view \in Views
    /\ native \in Natives
    /\ changes = 0
    /\ pc = "acquire"
    /\ requests = <<>>
    /\ imported = FALSE
    /\ handoff = FALSE
    /\ scalar = FALSE
    /\ session = NoSession
    /\ fallback = "none"
    /\ outcome = "none"

Go(next) == pc' = next /\ outcome' = outcome

Raise(error) == pc' = "done" /\ outcome' = error

Publish == pc' = "done" /\ outcome' = "published"

\* Another thread assigns to os.environ.
ChangeEnvironment(env) ==
    /\ changes < MaxChanges
    /\ pc # "done"
    /\ environ' = env
    /\ changes' = changes + 1
    /\ UNCHANGED <<world, pc, progress, outcome>>

\* _acquire_input and the import policy
AcquireInput ==
    /\ pc = "acquire"
    /\ \/ Raise("InputError")
       \/ ~Compatible(view.core) /\ Raise("AdapterCompatibilityError")
       \/ /\ Compatible(view.core) /\ ~view.complete /\ ~config.incomplete
          /\ Raise("UnresolvedImportError")
       \/ Compatible(view.core) /\ (view.complete \/ config.incomplete) /\ Go("select")
    /\ UNCHANGED <<world, environ, changes, progress>>

\* try_create_encoded_backend_session, up to the probe
SelectEncoded ==
    /\ pc = "select"
    /\ requests' = Append(requests, Effective(environ))
    /\ \/ Effective(environ) = "invalid" /\ Raise("ValueError")
       \/ Effective(environ) = "python" /\ Go("capture")
       \/ Effective(environ) \in {"auto", "rust"} /\ Go("probe")
    /\ UNCHANGED <<world, environ, changes, imported, handoff, scalar, session, fallback>>

\* _probe_native and _rust_factory
ProbeForEncoded ==
    /\ pc = "probe"
    /\ imported' = TRUE
    /\ \/ Raise(Fatal)
       \/ ~Usable /\ Go("capture")
       \/ Usable /\ ~WellAdvertised /\ Raise("BackendProtocolError")
       \/ Usable /\ WellAdvertised /\ Go("negotiate")
    /\ UNCHANGED <<world, environ, changes, requests, handoff, scalar, session, fallback>>

\* negotiate_encoded_input: without the capability on both sides the scalar path is taken,
\* with it the columns are acquired and validated or the construction fails.
Negotiate ==
    /\ pc = "negotiate"
    /\ LET offered == native.schemas # "none" /\ view.advertised >= SchemaVersion
       IN  \/ ~offered /\ Go("capture") /\ handoff' = handoff
           \/ /\ offered /\ handoff' = handoff
              /\ \E e \in {"AdapterCompatibilityError", "BackendProtocolError", Fatal} : Raise(e)
           \/ offered /\ Go("create_encoded") /\ handoff' = TRUE
    /\ UNCHANGED <<world, environ, changes, requests, imported, scalar, session, fallback>>

\* Mutant of CreateEncoded: a failed native compiler falls back to the scalar path.
CreateEncodedOrCompile ==
    /\ pc = "create_encoded"
    /\ \/ Go("capture") /\ session' = session
       \/ native.schemas = "current" /\ Go("describe") /\ session' = Open("encoded")
    /\ UNCHANGED <<world, environ, changes, requests, imported, handoff, scalar, fallback>>

\* create_encoded_session.  Where the constructor of RustBackendSession raises, its
\* ValueError or TypeError comes as it is; the native session exists by then, but nothing
\* refers to it, and dropping it releases it: there is no session for anybody to close.
CreateEncoded ==
    /\ pc = "create_encoded"
    /\ \/ native.schemas = "old" /\ Raise("BackendProtocolError") /\ session' = session
       \/ /\ native.schemas = "current" /\ session' = session
          /\ \/ \E e \in {"BackendProtocolError", "InternalReasonerError", "ValueError", "TypeError", Fatal} :
                    Raise(e)
             \/ config.strict /\ Raise("UnsupportedFeatureError")
       \/ native.schemas = "current" /\ Go("describe") /\ session' = Open("encoded")
    /\ UNCHANGED <<world, environ, changes, requests, imported, handoff, scalar, fallback>>

Closed == [session EXCEPT !.open = FALSE]

\* compiler_metadata, diagnostics and digest of the encoded session; a failing close is
\* suppressed.
DescribeEncoded ==
    /\ pc = "describe"
    /\ \/ Go("symbols") /\ session' = session
       \/ /\ \E e \in {"BackendProtocolError", "InternalReasonerError", Fatal} : Raise(e)
          /\ session' = Closed
    /\ UNCHANGED <<world, environ, changes, requests, imported, handoff, scalar, fallback>>

\* Mutant of BuildSymbols: the session is not closed when the symbol table is refused.
BuildSymbolsOnly ==
    /\ pc = "symbols"
    /\ \/ Publish /\ session' = session
       \/ Raise("TypeError") /\ session' = session
    /\ UNCHANGED <<world, environ, changes, requests, imported, handoff, scalar, fallback>>

\* The encoded branch of __init__: the exception of a failing close replaces the first one.
BuildSymbols ==
    /\ pc = "symbols"
    /\ \/ Publish /\ session' = session
       \/ /\ \E e \in {"TypeError", "InternalReasonerError", Fatal} : Raise(e)
          /\ session' = Closed
    /\ UNCHANGED <<world, environ, changes, requests, imported, handoff, scalar, fallback>>

\* _complete_input_capture
CaptureInput ==
    /\ pc = "capture"
    /\ Raise("AdapterCompatibilityError") \/ Go("compile")
    /\ UNCHANGED <<world, environ, changes, progress>>

\* The scalar compiler, its metadata, symbols and entities
CompileScalar ==
    /\ pc = "compile"
    /\ scalar' = TRUE
    /\ \/ config.strict /\ Raise("UnsupportedFeatureError")
       \/ Raise(Fatal)
       \/ Go("resolve")
    /\ UNCHANGED <<world, environ, changes, requests, imported, handoff, session, fallback>>

\* PythonBackendFactory and its create_session, which may raise too: nothing catches that.
CreatePython(reason) ==
    \/ /\ \E e \in {"TypeError", "ValueError", Fatal} : Raise(e)
       /\ UNCHANGED <<session, fallback>>
    \/ /\ session' = Open("python")
       /\ fallback' = reason
       /\ Go("inspect")

\* create_backend_session, up to the probe
ResolveBackend ==
    /\ pc = "resolve"
    /\ requests' = Append(requests, Effective(environ))
    /\ \/ Effective(environ) = "invalid" /\ Raise("ValueError") /\ UNCHANGED <<session, fallback>>
       \/ Effective(environ) = "python" /\ CreatePython("none")
       \/ Effective(environ) \in {"auto", "rust"} /\ Go("probe_again") /\ UNCHANGED <<session, fallback>>
    /\ UNCHANGED <<world, environ, changes, imported, handoff, scalar>>

LastRequest == requests[Len(requests)]

\* No native session can be had: an explicit request fails, auto takes Python and keeps
\* the reason.
WithoutNative(reason) ==
    \/ /\ LastRequest = "rust"
       /\ Raise("BackendUnavailableError")
       /\ UNCHANGED <<session, fallback>>
    \/ LastRequest = "auto" /\ CreatePython(reason)

\* _probe_native, a second time
ProbeForSession ==
    /\ pc = "probe_again"
    /\ imported' = TRUE
    /\ \/ Raise(Fatal) /\ UNCHANGED <<session, fallback>>
       \/ ~Usable /\ WithoutNative("unavailable")
       \/ Usable /\ Go("create_native") /\ UNCHANGED <<session, fallback>>
    /\ UNCHANGED <<world, environ, changes, requests, handoff, scalar>>

\* Mutant of CreateNative: an explicit request falls back like auto does.
CreateNativeOrPython ==
    /\ pc = "create_native"
    /\ \/ session' = Open("python") /\ fallback' = "creation failed" /\ Go("inspect")
       \/ WellAdvertised /\ session' = Open("wire") /\ fallback' = fallback /\ Go("inspect")
    /\ UNCHANGED <<world, environ, changes, requests, imported, handoff, scalar>>

\* RustBackendFactory and its create_session.  What the constructor of RustBackendSession
\* raises is handled like a failure of the native call; the native session is dropped.
CreateNative ==
    /\ pc = "create_native"
    /\ \/ Raise(Fatal) /\ UNCHANGED <<session, fallback>>
       \/ WithoutNative("creation failed")
       \/ WellAdvertised /\ session' = Open("wire") /\ fallback' = fallback /\ Go("inspect")
    /\ UNCHANGED <<world, environ, changes, requests, imported, handoff, scalar>>

\* session.info and the compiler digest; then the reasoner is complete.
InspectSession ==
    /\ pc = "inspect"
    /\ \/ Publish /\ session' = session
       \/ /\ \E e \in {"BackendProtocolError", "InternalReasonerError", Fatal} : Raise(e)
          /\ session' = Closed
    /\ UNCHANGED <<world, environ, changes, requests, imported, handoff, scalar, fallback>>

Done == pc = "done" /\ UNCHANGED vars

Next ==
    \/ \E env \in Environments : ChangeEnvironment(env)
    \/ AcquireInput
    \/ SelectEncoded
    \/ ProbeForEncoded
    \/ Negotiate
    \/ CreateEncoded
    \/ DescribeEncoded
    \/ BuildSymbols
    \/ CaptureInput
    \/ CompileScalar
    \/ ResolveBackend
    \/ ProbeForSession
    \/ CreateNative
    \/ InspectSession
    \/ Done

Spec == Init /\ [][Next]_vars

(***************************************************************************)
(* Properties                                                              *)
(***************************************************************************)

\* A construction that failed, wherever it did, leaves no backend session open.
NothingLeaks == (pc = "done" /\ outcome # "published") => ~session.open

\* "Callers must not silently switch to scalar ingestion": once an encoded handoff was
\* acquired no axiom is compiled the scalar way and no other kind of session is published.
NoSilentSwitch ==
    handoff => /\ ~scalar
               /\ outcome = "published" => session.kind = "encoded"

\* A published reasoner has the backend asked for when it was created, also when
\* os.environ changed on the way: an explicit request is served or refused, auto says why
\* it took Python, and only a request other than Python imports the native module.
RequestIsHonoured ==
    /\ outcome = "published" =>
        /\ LastRequest = "python" => session.kind = "python"
        /\ LastRequest = "rust" => session.kind \in {"wire", "encoded"}
        /\ LastRequest = "auto" => (session.kind = "python") = (fallback # "none")
    /\ imported => \E i \in DOMAIN requests : requests[i] \in {"auto", "rust"}

BackendOf(kind) == IF kind = "python" THEN "python" ELSE "rust"

\* backend_report() names the backend a default reasoner gets in the same environment,
\* unless creating the native session failed.
ReportIsTrue ==
    (outcome = "published" /\ config.backend = "auto" /\ changes = 0) =>
        Reported = BackendOf(session.kind) \/ fallback = "creation failed"

=============================================================================
