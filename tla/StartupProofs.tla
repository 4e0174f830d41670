---------------------------- MODULE StartupProofs ----------------------------
(***************************************************************************)
(* A construction of a Reasoner never leaks a session, never trades an     *)
(* acquired handoff for the scalar path and honours the request, for every *)
(* set of configurations, environments, views and native modules and any   *)
(* number of changes of os.environ. Where the environment did not change,  *)
(* backend_report() tells the backend it has.                              *)
(***************************************************************************)
EXTENDS Startup, TLAPS

(***************************************************************************)
(* The inductive invariant                                                 *)
(***************************************************************************)
Kinds == {"none", "python", "wire", "encoded"}
Sessions == [kind : Kinds, open : BOOLEAN]
Requests == {"invalid", "python", "auto", "rust"}
EncodedSteps == {"probe", "negotiate", "create_encoded", "describe", "symbols"}
ScalarSteps == {"capture", "compile", "resolve"}
NativeSteps == {"probe_again", "create_native"}

Typed ==
    /\ config.backend \in {"auto", "python", "rust"}
    /\ environ.backend \in {"auto", "python", "rust", "other"}
    /\ pc \in {"acquire", "select", "inspect", "done"} \cup EncodedSteps \cup ScalarSteps
              \cup NativeSteps
    /\ requests \in Seq(Requests)
    /\ session \in Sessions
    /\ handoff \in BOOLEAN /\ scalar \in BOOLEAN /\ imported \in BOOLEAN

\* A session is open only where __init__ still closes it on a failure, or afterwards.
OpenIsGuarded ==
    session.open => pc \in {"describe", "symbols", "inspect"} \/ outcome = "published"

\* The encoded branch is left only by publishing or raising.
HandoffStays ==
    /\ handoff => ~scalar /\ pc \in {"create_encoded", "describe", "symbols", "done"}
    /\ pc \in {"acquire", "select"} \cup EncodedSteps => ~scalar
    /\ pc \in {"describe", "symbols"} => session.kind = "encoded"
    /\ handoff /\ outcome = "published" => session.kind = "encoded"

\* The session a published reasoner has, as a function of the last request.
Served ==
    /\ requests # <<>>
    /\ LastRequest = "python" => session.kind = "python"
    /\ LastRequest = "rust" => session.kind \in {"wire", "encoded"}
    /\ LastRequest = "auto" => (session.kind = "python") = (fallback # "none")

\* What is known of the last request at each step.
RequestKnown ==
    /\ outcome = "published" => pc = "done"
    /\ pc = "done" \/ outcome = "none"
    /\ pc \notin {"inspect", "done"} => fallback = "none"
    /\ pc \in EncodedSteps \cup NativeSteps =>
        requests # <<>> /\ LastRequest \in {"auto", "rust"}
    /\ pc = "inspect" \/ outcome = "published" => Served
    /\ imported => \E i \in DOMAIN requests : requests[i] \in {"auto", "rust"}

StartupInv == Typed /\ OpenIsGuarded /\ HandoffStays /\ RequestKnown

\* In an environment that does not change, a default reasoner resolves the request that
\* the report sees, and a session is native where the module is usable.
NativeInUse == {"negotiate", "create_encoded", "describe", "symbols", "create_native"}
SessionFitsReport ==
    /\ requests # <<>>
    /\ session.kind \in {"python", "wire", "encoded"}
    /\ session.kind = "python" =>
        \/ Effective(environ) = "python"
        \/ Effective(environ) = "auto" /\ ~Usable
        \/ fallback = "creation failed"
    /\ session.kind \in {"wire", "encoded"} => Usable /\ Effective(environ) \in {"auto", "rust"}
ReportInv ==
    /\ changes \in Nat
    /\ config.backend = "auto" /\ changes = 0 =>
        /\ requests # <<>> => LastRequest = Effective(environ)
        /\ pc \in NativeInUse => Usable
        /\ pc \in {"describe", "symbols", "inspect"} \/ outcome = "published" => SessionFitsReport

(***************************************************************************)
(* Requests                                                                *)
(***************************************************************************)

\* _apply_pure_mode answers one of the three backends or raises.
LEMMA EffectiveRequest ==
  ASSUME Typed
  PROVE  Effective(environ) \in Requests
BY DEF Typed, Effective, Requests

\* A request resolved later becomes the last one and keeps the earlier ones.
LEMMA Resolved ==
  ASSUME NEW q \in Requests, requests \in Seq(Requests), requests' = Append(requests, q)
  PROVE  /\ requests' \in Seq(Requests)
         /\ requests' # <<>>
         /\ LastRequest' = q
         /\ \A i \in DOMAIN requests : i \in DOMAIN requests' /\ requests'[i] = requests[i]
BY DEF LastRequest

\* The last request is one of the requests.
LEMMA LastIsOne ==
  ASSUME requests \in Seq(Requests), requests # <<>>
  PROVE  \E i \in DOMAIN requests : requests[i] = LastRequest
<1>1. Len(requests) \in DOMAIN requests
  OBVIOUS
<1> QED BY <1>1 DEF LastRequest

\* A fresh session is open and of the kind asked for, a closed one keeps its kind.
LEMMA SessionValues ==
  /\ NoSession \in Sessions /\ NoSession.open = FALSE
  /\ \A k \in Kinds : Open(k) \in Sessions /\ Open(k).kind = k
  /\ session \in Sessions =>
        Closed \in Sessions /\ Closed.kind = session.kind /\ Closed.open = FALSE
BY DEF NoSession, Open, Closed, Sessions, Kinds

(***************************************************************************)
(* One lemma per kind of step                                              *)
(***************************************************************************)
LEMMA InitEstablishes == Init => StartupInv
<1> SUFFICES ASSUME Init PROVE StartupInv
  OBVIOUS
<1>1. Typed
  <2>1. requests \in Seq(Requests) /\ session \in Sessions
    BY SessionValues DEF Init
  <2> QED BY <2>1, RequestAssumption DEF Init, Typed
<1>2. OpenIsGuarded /\ HandoffStays /\ RequestKnown
  BY SessionValues DEF Init, OpenIsGuarded, HandoffStays, RequestKnown, EncodedSteps, NativeSteps
<1> QED BY <1>1, <1>2 DEF StartupInv

\* Steps that resolve no request.
LEMMA OtherSteps ==
  ASSUME StartupInv,
         \/ AcquireInput \/ Negotiate \/ CreateEncoded \/ DescribeEncoded \/ BuildSymbols
         \/ CaptureInput \/ CompileScalar \/ InspectSession
  PROVE  StartupInv'
<1> USE DEF StartupInv, Go, Raise, Publish, Fatal, world, progress
<1>1. LastRequest' = LastRequest
  BY DEF LastRequest, AcquireInput, Negotiate, CreateEncoded, DescribeEncoded, BuildSymbols,
      CaptureInput, CompileScalar, InspectSession
<1>2. CASE AcquireInput
  BY <1>1, <1>2 DEF AcquireInput, Typed, OpenIsGuarded, HandoffStays, RequestKnown,
      Served, EncodedSteps, ScalarSteps, NativeSteps
<1>3. CASE Negotiate
  <2>1. /\ pc = "negotiate"
        /\ UNCHANGED <<config, environ, requests, imported, scalar, session, fallback>>
    BY <1>3 DEF Negotiate
  <2>2. \/ pc' = "capture" /\ outcome' = outcome /\ handoff' = handoff
        \/ pc' = "done" /\ outcome' # "published" /\ handoff' = handoff
        \/ pc' = "create_encoded" /\ outcome' = outcome /\ handoff' = TRUE
    BY <1>3 DEF Negotiate
  <2>3. ~session.open /\ ~scalar /\ ~handoff /\ outcome = "none"
    BY <2>1 DEF OpenIsGuarded, HandoffStays, RequestKnown, EncodedSteps
  <2>4. Typed'
    BY <2>1, <2>2 DEF Typed, EncodedSteps, ScalarSteps
  <2>5. OpenIsGuarded' /\ HandoffStays'
    BY <2>1, <2>2, <2>3 DEF OpenIsGuarded, HandoffStays, EncodedSteps
  <2>6. RequestKnown'
    BY <1>1, <2>1, <2>2, <2>3 DEF RequestKnown, EncodedSteps, NativeSteps
  <2> QED BY <2>4, <2>5, <2>6
<1>4. CASE CreateEncoded
  BY SessionValues, <1>1, <1>4 DEF CreateEncoded, Kinds, Typed, OpenIsGuarded, HandoffStays,
      RequestKnown, Served, EncodedSteps, ScalarSteps, NativeSteps
<1>5. CASE DescribeEncoded
  BY SessionValues, <1>1, <1>5 DEF DescribeEncoded, Typed, OpenIsGuarded, HandoffStays, RequestKnown,
      Served, EncodedSteps, ScalarSteps, NativeSteps
<1>6. CASE BuildSymbols
  BY SessionValues, <1>1, <1>6 DEF BuildSymbols, Typed, OpenIsGuarded, HandoffStays, RequestKnown,
      Served, EncodedSteps, ScalarSteps, NativeSteps
<1>7. CASE CaptureInput
  BY <1>1, <1>7 DEF CaptureInput, Typed, OpenIsGuarded, HandoffStays, RequestKnown,
      Served, EncodedSteps, ScalarSteps, NativeSteps
<1>8. CASE CompileScalar
  BY <1>1, <1>8 DEF CompileScalar, Typed, OpenIsGuarded, HandoffStays, RequestKnown,
      Served, EncodedSteps, ScalarSteps, NativeSteps
<1>9. CASE InspectSession
  BY SessionValues, <1>1, <1>9 DEF InspectSession, Typed, OpenIsGuarded, HandoffStays, RequestKnown,
      Served, EncodedSteps, ScalarSteps, NativeSteps
<1> QED BY <1>2, <1>3, <1>4, <1>5, <1>6, <1>7, <1>8, <1>9

\* The two steps that resolve a request.
LEMMA ResolvingSteps ==
  ASSUME StartupInv, SelectEncoded \/ ResolveBackend
  PROVE  StartupInv'
<1> USE DEF StartupInv, Go, Raise, world, progress
<1> DEFINE q == Effective(environ)
<1>1. q \in Requests /\ requests \in Seq(Requests) /\ requests' = Append(requests, q)
  BY EffectiveRequest DEF Typed, SelectEncoded, ResolveBackend
<1> HIDE DEF q
<1>2. /\ requests' \in Seq(Requests)
      /\ requests' # <<>>
      /\ LastRequest' = q
      /\ \A i \in DOMAIN requests : i \in DOMAIN requests' /\ requests'[i] = requests[i]
  BY <1>1, Resolved
<1>3. (imported => \E i \in DOMAIN requests : requests[i] \in {"auto", "rust"})'
  BY <1>2 DEF RequestKnown, SelectEncoded, ResolveBackend
<1>4. CASE SelectEncoded
  BY <1>2, <1>3, <1>4 DEF q, SelectEncoded, Typed, OpenIsGuarded, HandoffStays, RequestKnown,
      Served, EncodedSteps, ScalarSteps, NativeSteps
<1>5. CASE ResolveBackend
  BY SessionValues, <1>2, <1>3, <1>5 DEF q, ResolveBackend, CreatePython, Fatal, Kinds, Typed, OpenIsGuarded, HandoffStays,
      RequestKnown, Served, EncodedSteps, ScalarSteps, NativeSteps
<1> QED BY <1>4, <1>5

\* The steps that import or use the native module.
LEMMA NativeStepsPreserve ==
  ASSUME StartupInv, ProbeForEncoded \/ ProbeForSession \/ CreateNative
  PROVE  StartupInv'
<1> USE DEF StartupInv, Go, Raise, Fatal, world, progress
<1>1. requests' = requests /\ LastRequest' = LastRequest
  BY DEF LastRequest, ProbeForEncoded, ProbeForSession, CreateNative
<1>2. requests # <<>> /\ LastRequest \in {"auto", "rust"}
  BY DEF RequestKnown, EncodedSteps, NativeSteps, ProbeForEncoded, ProbeForSession, CreateNative
<1>3. \E i \in DOMAIN requests : requests[i] \in {"auto", "rust"}
  BY <1>2, LastIsOne DEF Typed
<1>4. CASE ProbeForEncoded
  BY <1>1, <1>2, <1>3, <1>4 DEF ProbeForEncoded, Typed, OpenIsGuarded, HandoffStays,
      RequestKnown, Served, EncodedSteps, ScalarSteps, NativeSteps
<1>5. CASE ProbeForSession
  BY SessionValues, <1>1, <1>2, <1>3, <1>5 DEF ProbeForSession, WithoutNative, CreatePython, Kinds, Typed,
      OpenIsGuarded, HandoffStays, RequestKnown, Served, EncodedSteps, ScalarSteps, NativeSteps
<1>6. CASE CreateNative
  <2> USE <1>6 DEF CreateNative, WithoutNative, CreatePython
  <2>1. Typed'
    BY SessionValues, <1>2 DEF Kinds, Typed
  <2>2. OpenIsGuarded'
    <3>1. ~session.open
      BY DEF OpenIsGuarded, RequestKnown
    <3> QED BY <3>1, SessionValues DEF OpenIsGuarded
  <2>3. HandoffStays'
    BY <1>1, <1>2 DEF HandoffStays, EncodedSteps, ScalarSteps
  <2>4. RequestKnown'
    BY <1>1, <1>2, <1>3, SessionValues DEF RequestKnown, Typed, Served, Kinds, EncodedSteps, NativeSteps
  <2> QED BY <2>1, <2>2, <2>3, <2>4
<1> QED BY <1>4, <1>5, <1>6

\* os.environ may change between any two steps, and a finished construction stays.
LEMMA QuietSteps ==
  ASSUME StartupInv,
         (\E env \in Environments : ChangeEnvironment(env)) \/ Done \/ UNCHANGED vars
  PROVE  StartupInv'
<1> USE DEF StartupInv, world, progress, vars
<1>1. LastRequest' = LastRequest
  BY DEF LastRequest, ChangeEnvironment, Done
<1>2. Typed'
  BY RequestAssumption DEF Typed, ChangeEnvironment, Done
<1>3. OpenIsGuarded' /\ HandoffStays' /\ RequestKnown'
  BY <1>1 DEF OpenIsGuarded, HandoffStays, RequestKnown, Served, ChangeEnvironment, Done
<1> QED BY <1>2, <1>3

(***************************************************************************)
(* Theorems                                                                *)
(***************************************************************************)

\* Every reachable state of a construction satisfies the invariant.
THEOREM Construction == Spec => []StartupInv
<1>1. StartupInv /\ [Next]_vars => StartupInv'
  BY OtherSteps, ResolvingSteps, NativeStepsPreserve, QuietSteps DEF Next
<1> QED BY InitEstablishes, <1>1, PTL DEF Spec

\* Wherever Reasoner.__init__ fails, no backend session is left open.
THEOREM NoLeak == Spec => []NothingLeaks
<1>1. StartupInv => NothingLeaks
  BY DEF StartupInv, OpenIsGuarded, NothingLeaks
<1> QED BY <1>1, Construction, PTL

\* An acquired encoded handoff is never traded for the scalar path.
THEOREM NoSwitch == Spec => []NoSilentSwitch
<1>1. StartupInv => NoSilentSwitch
  BY DEF StartupInv, HandoffStays, NoSilentSwitch
<1> QED BY <1>1, Construction, PTL

\* The published backend is the requested one, also when os.environ changes meanwhile.
THEOREM Honoured == Spec => []RequestIsHonoured
<1>1. StartupInv => RequestIsHonoured
  BY DEF StartupInv, RequestKnown, Served, RequestIsHonoured
<1> QED BY <1>1, Construction, PTL

\* What the report needs is kept by every step.
LEMMA ReportKept ==
  ASSUME StartupInv, ReportInv, [Next]_vars
  PROVE  ReportInv'
<1>1. CASE \E env \in Environments : ChangeEnvironment(env)
  <2>1. changes' = changes + 1
    BY <1>1 DEF ChangeEnvironment
  <2>2. changes' \in Nat /\ changes' # 0
    BY <2>1 DEF ReportInv
  <2> QED BY <2>2 DEF ReportInv
<1>2. CASE ~\E env \in Environments : ChangeEnvironment(env)
  <2>1. UNCHANGED <<config, environ, native, changes>>
    BY <1>2 DEF Next, vars, world, Done, AcquireInput, SelectEncoded, ProbeForEncoded, Negotiate,
        CreateEncoded, DescribeEncoded, BuildSymbols, CaptureInput, CompileScalar, ResolveBackend,
        ProbeForSession, CreateNative, InspectSession
  <2>2. Effective(environ)' = Effective(environ) /\ Usable' = Usable
    BY <2>1 DEF Effective, Usable
  <2>3. changes' \in Nat
    BY <2>1 DEF ReportInv
  <2> SUFFICES ASSUME config.backend = "auto", changes = 0
               PROVE  /\ requests' # <<>> => LastRequest' = Effective(environ)
                      /\ pc' \in NativeInUse => Usable
                      /\ pc' \in {"describe", "symbols", "inspect"} \/ outcome' = "published" =>
                            SessionFitsReport'
    BY <2>1, <2>2, <2>3 DEF ReportInv
  <2> DEFINE e == Effective(environ)
  <2>4. /\ requests # <<>> => LastRequest = e
        /\ pc \in NativeInUse => Usable
        /\ pc \in {"describe", "symbols", "inspect"} \/ outcome = "published" => SessionFitsReport
    BY DEF ReportInv
  <2>5. e \in Requests /\ requests \in Seq(Requests)
    BY EffectiveRequest DEF StartupInv, Typed
  <2>6. ASSUME requests' = requests PROVE LastRequest' = LastRequest
    BY <2>6 DEF LastRequest
  <2>7. \A k \in Kinds : Open(k).kind = k
    BY SessionValues
  <2>8. Closed.kind = session.kind
    BY SessionValues DEF StartupInv, Typed
  <2>9. outcome # "published" \/ pc = "done"
    BY DEF StartupInv, RequestKnown
  <2> HIDE DEF e
  <2>10. CASE SelectEncoded \/ ResolveBackend
    <3>1. requests' = Append(requests, e)
      BY <2>10 DEF e, SelectEncoded, ResolveBackend
    <3>2. requests' # <<>> /\ LastRequest' = e
      BY <2>5, <3>1, Resolved
    <3>3. /\ outcome' # "published" /\ pc' \notin NativeInUse \cup {"describe", "symbols"}
          /\ pc' = "inspect" => e = "python" /\ session' = Open("python")
      BY <2>9, <2>10 DEF e, SelectEncoded, ResolveBackend, CreatePython, Fatal, Go, Raise, NativeInUse
    <3>4. pc' = "inspect" => SessionFitsReport'
      <4>1. ASSUME pc' = "inspect" PROVE session'.kind = "python" /\ e = "python"
        BY <2>7, <3>3, <4>1 DEF Kinds
      <4> QED BY <2>2, <3>2, <4>1 DEF e, SessionFitsReport
    <3> QED BY <3>2, <3>3, <3>4 DEF e
  <2>11. CASE AcquireInput \/ CaptureInput \/ CompileScalar
    <3>1. requests' = requests /\ outcome' # "published"
          /\ pc' \notin NativeInUse \cup {"describe", "symbols", "inspect"}
      BY <2>9, <2>11 DEF AcquireInput, CaptureInput, CompileScalar, Go, Raise, NativeInUse, Fatal, progress
    <3> QED BY <2>4, <2>6, <3>1 DEF e
  <2>12. CASE ProbeForEncoded \/ Negotiate
    <3>1. /\ requests' = requests /\ outcome' # "published"
          /\ pc' \notin {"describe", "symbols", "inspect"}
          /\ pc' \in NativeInUse => Usable
      BY <2>4, <2>9, <2>12 DEF ProbeForEncoded, Negotiate, Go, Raise, NativeInUse, Fatal
    <3> QED BY <2>4, <2>6, <3>1 DEF e
  <2>13. CASE CreateEncoded
    <3>1. /\ requests' = requests /\ outcome' # "published" /\ Usable
          /\ pc' \in {"done", "describe"}
          /\ pc' = "describe" => session' = Open("encoded")
      BY <2>4, <2>9, <2>13 DEF CreateEncoded, Go, Raise, NativeInUse, Fatal
    <3>2. requests # <<>> /\ LastRequest \in {"auto", "rust"}
      BY <2>13 DEF CreateEncoded, StartupInv, RequestKnown, EncodedSteps
    <3>3. pc' = "describe" => SessionFitsReport'
      <4>1. ASSUME pc' = "describe" PROVE session'.kind = "encoded"
        BY <2>7, <3>1, <4>1 DEF Kinds
      <4> QED BY <2>2, <2>4, <3>1, <3>2, <4>1 DEF e, SessionFitsReport
    <3> QED BY <2>4, <2>6, <3>1, <3>3 DEF e
  <2>14. CASE DescribeEncoded \/ BuildSymbols \/ InspectSession
    <3>1. /\ requests' = requests /\ fallback' = fallback /\ SessionFitsReport
          /\ session' = session \/ session' = Closed
          /\ pc' \in {"symbols", "done"} /\ (pc' = "symbols" => pc = "describe")
      BY <2>4, <2>14 DEF DescribeEncoded, BuildSymbols, InspectSession, Go, Raise, Publish
    <3>2. SessionFitsReport'
      BY <2>2, <2>8, <3>1 DEF SessionFitsReport
    <3>3. pc' \in NativeInUse => Usable
      BY <2>4, <3>1 DEF NativeInUse
    <3> QED BY <2>4, <2>6, <3>1, <3>2, <3>3 DEF e
  <2>15. CASE ProbeForSession \/ CreateNative
    <3>1. requests # <<>> /\ LastRequest \in {"auto", "rust"}
      BY <2>15 DEF ProbeForSession, CreateNative, StartupInv, RequestKnown, NativeSteps
    <3>2. /\ requests' = requests /\ outcome' # "published"
          /\ pc' \in {"done", "inspect", "create_native"} /\ (pc' = "create_native" => Usable)
          /\ pc' = "inspect" =>
                \/ session' = Open("python") /\ LastRequest = "auto"
                     /\ (~Usable \/ fallback' = "creation failed")
                \/ session' = Open("wire") /\ Usable
      BY <2>4, <2>9, <2>15 DEF ProbeForSession, CreateNative, WithoutNative, CreatePython, Go, Raise, Fatal, NativeInUse
    <3>3. pc' = "inspect" => SessionFitsReport'
      <4>1. ASSUME pc' = "inspect"
            PROVE  \/ session'.kind = "python" /\ e = "auto" /\ (~Usable \/ fallback' = "creation failed")
                   \/ session'.kind = "wire" /\ Usable /\ e \in {"auto", "rust"}
        BY <2>4, <2>7, <3>1, <3>2, <4>1 DEF Kinds
      <4> QED BY <2>2, <3>1, <3>2, <4>1 DEF e, SessionFitsReport
    <3>4. pc' \in NativeInUse => Usable
      BY <3>2 DEF NativeInUse
    <3> QED BY <2>4, <2>6, <3>1, <3>2, <3>3, <3>4 DEF e
  <2>16. CASE Done \/ UNCHANGED vars
    <3>1. UNCHANGED <<requests, session, fallback, pc, outcome>>
      BY <2>16 DEF Done, vars, progress
    <3>2. SessionFitsReport' <=> SessionFitsReport
      BY <2>2, <3>1 DEF SessionFitsReport
    <3> QED BY <2>4, <2>6, <3>1, <3>2 DEF e
  <2> QED
    BY <1>2, <2>10, <2>11, <2>12, <2>13, <2>14, <2>15, <2>16 DEF Next
<1> QED BY <1>1, <1>2

\* backend_report() is right about a default reasoner created in the same environment,
\* unless creating the native session fails: both read the same request and the same
\* handshake.
THEOREM ReportHolds == Spec => []ReportIsTrue
<1>1. Init => ReportInv
  BY DEF Init, ReportInv, NativeInUse
<1>2. StartupInv /\ ReportInv => ReportIsTrue
  <2> SUFFICES ASSUME StartupInv, ReportInv, outcome = "published", config.backend = "auto", changes = 0,
                      fallback # "creation failed"
               PROVE  Reported = BackendOf(session.kind)
    BY DEF ReportIsTrue
  <2>1. SessionFitsReport
    BY DEF ReportInv
  <2>2. environ.backend \in {"auto", "python", "rust", "other"}
    BY DEF StartupInv, Typed
  <2>3. CASE session.kind = "python"
    <3>1. BackendOf(session.kind) = "python"
      BY <2>3 DEF BackendOf
    <3>2. Effective(environ) = "python" \/ (Effective(environ) = "auto" /\ ~Usable)
      BY <2>1, <2>3 DEF SessionFitsReport
    <3>3. Reported = "python"
      BY <2>2, <3>2 DEF Effective, Reported
    <3> QED BY <3>1, <3>3
  <2>4. CASE session.kind \in {"wire", "encoded"}
    <3>1. BackendOf(session.kind) = "rust"
      BY <2>4 DEF BackendOf
    <3>2. Usable /\ Effective(environ) \in {"auto", "rust"}
      BY <2>1, <2>4 DEF SessionFitsReport
    <3>3. Reported = "rust"
      BY <2>2, <3>2 DEF Effective, Reported
    <3> QED BY <3>1, <3>3
  <2> QED BY <2>1, <2>3, <2>4 DEF SessionFitsReport
<1>3. StartupInv /\ ReportInv /\ [Next]_vars => ReportInv'
  BY ReportKept
<1> QED BY <1>1, <1>2, <1>3, Construction, PTL DEF Spec

=============================================================================
