------------------------------ MODULE Transfer ------------------------------
(***************************************************************************)
(* What the compiler makes crosses to a backend as bytes: the compiled     *)
(* ontology to create_session, the mini-IR of a query to the session, the  *)
(* metadata back to the facade.  This module sends one payload of a        *)
(* compilation of module Builder through module Codec.  On its way the     *)
(* payload may be damaged in one unit or cut off, with or without a digest *)
(* that fits the damage, or come from a later minor version of the format. *)
(***************************************************************************)
EXTENDS Builder, Codec

CONSTANTS
    Entailments,  \* pairs of supported class expressions: is the first subsumed by the second?
    Fragile,      \* the pairs of a view and a mode whose payloads are interfered with
    Junk          \* the units that damage leaves

VARIABLE
    wire  \* <<>>, or the payload: its format, the value sent, the stream, and once it has
          \* arrived its fault and what the decoder returned

\* The sections of a value, and what its decoder makes of a stream.
Sections(format, value) ==
    CASE format = "ontology" -> OntologySections(value)
      [] format = "query" -> QuerySections(value)
      [] format = "metadata" -> MetadataSections(value)

Encoded(format, value) == EncodeContainer(Magic[format], SchemaMinor, Sections(format, value))

Decoded(format, stream) ==
    CASE format = "ontology" -> DecodeOntology(stream)
      [] format = "query" -> DecodeQuery(stream)
      [] format = "metadata" -> DecodeMetadata(stream)

\* CompiledOntology.encode, QueryIR.encode and encode_compiler_metadata
Send(format, value) ==
    /\ outcome = "compiled" /\ wire = <<>>
    /\ wire' = <<[format |-> format, sent |-> value, stream |-> Encoded(format, value), fault |-> "on its way"]>>
    /\ UNCHANGED vars

SendOntology == overlay = <<>> /\ Send("ontology", Record(Head(compiled)))
SendMetadata == overlay = <<>> /\ Send("metadata", MetadataOf(Record(Head(compiled))))
SendQuery ==
    /\ overlay # <<>>
    /\ LET o == Head(overlay)
       IN  Send("query", QueryRecord(QueryKind.expression, o.ir, o.entityIds, o.root - 1, {}))
SendEntailment(pair) ==
    overlay = <<>> /\ Send("query", CompileEntailment(pair[1], pair[2], Head(compiled)))

\* CompiledOntology.decode, QueryIR.decode and decode_compiler_metadata: the payload
\* arrives as this stream.
Receive(stream, fault) ==
    /\ LET w == Head(wire)
       IN  wire' = <<[format |-> w.format, sent |-> w.sent, stream |-> stream, fault |-> fault,
                      received |-> Decoded(w.format, stream)]>>
    /\ UNCHANGED vars

OnItsWay == wire # <<>> /\ Head(wire).fault = "on its way"

\* It arrives as it was sent.
Arrive == OnItsWay /\ Receive(Head(wire).stream, "none")

\* The streams with one unit replaced, or with the end cut off.
DamagedBodies(body) ==
    {[body EXCEPT ![i] = u] : i \in DOMAIN body, u \in Junk}
      \cup {[body EXCEPT ![i] = @ + 1] : i \in DOMAIN body}
      \cup {[body EXCEPT ![i] = @ - 1] : i \in {j \in DOMAIN body : body[j] > 0}}
      \cup {SubSeq(body, 1, n) : n \in 0 .. Len(body) - 1}

\* The units after the directory, if it is complete.
PayloadOf(body) ==
    IF Len(body) < HeaderSize THEN <<>>
    ELSE SubSeq(body, HeaderSize + body[4] * EntrySize + 1, Len(body))

\* It arrives damaged; the digest is the old one, or is made to fit.
ArriveDamaged ==
    /\ OnItsWay /\ <<ontology, mode>> \in Fragile
    /\ LET stream == Head(wire).stream
       IN  \E body \in DamagedBodies(stream.body) \ {stream.body} :
                \/ Receive([body |-> body, digest |-> stream.digest], "torn")
                \/ Receive([body |-> body, digest |-> PayloadOf(body)], "resealed")

\* A later writer of the same major version has added a section.
ArriveExtended(tag) ==
    /\ OnItsWay /\ <<ontology, mode>> \in Fragile
    /\ LET w == Head(wire)
           sections == Append(Sections(w.format, w.sent), [tag |-> tag, count |-> 3, payload |-> <<7, 8>>])
       IN  Receive(EncodeContainer(Magic[w.format], SchemaMinor + 1, sections),
                   IF tag < OptionalStart THEN "unknown" ELSE "optional")

TransferInit == Init /\ wire = <<>>

TransferNext ==
    \/ wire = <<>> /\ Next /\ UNCHANGED wire
    \/ SendOntology
    \/ SendMetadata
    \/ SendQuery
    \/ \E pair \in Entailments : SendEntailment(pair)
    \/ Arrive
    \/ ArriveDamaged
    \/ \E tag \in {21, OptionalStart} : ArriveExtended(tag)

TransferSpec == TransferInit /\ [][TransferNext]_<<vars, wire>>

(***************************************************************************)
(* Properties                                                              *)
(***************************************************************************)

\* Sending reads the tables and changes nothing, so these two are about the states before.

\* Whatever order the view lists its axioms in, the compilation has the rows and counters
\* of its axioms: CompilationRight of module Builder.
CompilationIsRight == wire = <<>> => CompilationRight

\* A query overlay and its maps of IDs are about what was asked: OverlayRight of module
\* Builder.
OverlayIsRight == wire = <<>> => OverlayRight

\* A payload that arrives as it was sent, or with a section that readers of this version
\* may skip, decodes to the value that was sent: what freeze numbered passes the
\* validation of its record in every case.  Damage is refused, unless it is in the minor
\* version, which no reader looks at.  If the digest fits the damage, the decoder accepts a
\* stream only if it is the one encoding of the value it returns.
PayloadsAreExact ==
    (wire # <<>> /\ ~OnItsWay) =>
        LET w == Head(wire)
            result == w.received
            current == [w.stream.body EXCEPT ![3] = SchemaMinor]
        IN  CASE w.fault \in {"none", "optional"} -> result = <<w.sent>>
              [] w.fault = "unknown" -> result = <<>>
              [] w.fault = "torn" -> result = <<>> \/ (result = <<w.sent>> /\ current = Encoded(w.format, w.sent).body)
              [] w.fault = "resealed" -> result = <<>> \/ current = Encoded(w.format, Head(result)).body

=============================================================================
