-------------------------- MODULE ReasonerContract --------------------------
(***************************************************************************)
(* What a reasoner promises to the threads that share it: every call takes *)
(* effect at one moment between its request and its return, answers about  *)
(* the ontology it was created from, and after close() nothing is answered *)
(* any more.                                                               *)
(***************************************************************************)
CONSTANTS
    Threads,
    Requests,     \* [method, fresh]: fresh when it names an entity the ontology lacks
    NoRequest,
    NoReply,
    Answers(_, _), \* the answers a request may get, given the ontology and configuration
    Raised(_)     \* the outcome without a value: an exception, or the return of close()

VARIABLES
    status,       \* "open" or "closed"
    request,      \* the call of each thread
    reply,        \* its outcome, once it took effect
    setting       \* what the reasoner was created from

vars == <<status, request, reply, setting>>

Init ==
    /\ status = "open"
    /\ request = [t \in Threads |-> NoRequest]
    /\ reply = [t \in Threads |-> NoReply]

Call(t, r) ==
    /\ request[t] = NoRequest
    /\ request' = [request EXCEPT ![t] = r]
    /\ UNCHANGED <<status, reply, setting>>

\* A call fails, with an exception of the backend or of the facade.
Outcomes(r) == Answers(r, setting) \cup {Raised("error")}

\* The moment at which a call takes effect.  close() closes even when it raises.
Serve(t) ==
    /\ request[t] # NoRequest
    /\ reply[t] = NoReply
    /\ UNCHANGED <<request, setting>>
    /\ IF request[t].method = "close"
       THEN /\ status' = "closed"
            /\ \E o \in {Raised("closed"), Raised("error")} : reply' = [reply EXCEPT ![t] = o]
       ELSE /\ status' = status
            /\ IF status = "closed"
               THEN reply' = [reply EXCEPT ![t] = Raised("ReasonerClosedError")]
               ELSE \E o \in Outcomes(request[t]) : reply' = [reply EXCEPT ![t] = o]

Return(t) ==
    /\ reply[t] # NoReply
    /\ request' = [request EXCEPT ![t] = NoRequest]
    /\ reply' = [reply EXCEPT ![t] = NoReply]
    /\ UNCHANGED <<status, setting>>

Next ==
    \E t \in Threads :
        \/ \E r \in Requests : Call(t, r)
        \/ Serve(t)
        \/ Return(t)

Spec == Init /\ [][Next]_vars

=============================================================================
