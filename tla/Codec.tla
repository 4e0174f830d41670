------------------------------- MODULE Codec -------------------------------
(***************************************************************************)
(* The v1 codecs of the index: CompiledOntology, QueryIR and the metadata  *)
(* of the facade as sections in a container, and the decoders that refuse  *)
(* what is not one.                                                        *)
(*                                                                         *)
(* A stream is a sequence of units, a unit being one field of the header   *)
(* or the directory, one number or one byte, so that every length counts   *)
(* units.  The digest after the payload stands beside it and is the        *)
(* payload itself: BLAKE2b without collisions.  A decoder returns <<>>     *)
(* where the code raises BackendProtocolError, and <<value>> otherwise.    *)
(***************************************************************************)
EXTENDS Tables

\* The three magics, the version, and the limits.
Magic == [ontology |-> 1, query |-> 2, metadata |-> 3]
SchemaMajor == 1
SchemaMinor == 0
MaxSections == 256
OptionalStart == 32768

\* The units of the header (magic, major, minor, section_count) and of a directory entry
\* (tag, offset, length, count).
HeaderSize == 4
EntrySize == 4

(***************************************************************************)
(* Encoding                                                                *)
(***************************************************************************)

\* _encode_container, of sections with distinct tags.
EncodeContainer(magic, minor, sections) ==
    LET ordered == SortSeq(sections, LAMBDA s, t : s.tag < t.tag)
        before(i) == FlattenSeq([j \in 1 .. i - 1 |-> ordered[j].payload])
        start == HeaderSize + Len(ordered) * EntrySize
        entry(i) == <<ordered[i].tag, start + Len(before(i)), Len(ordered[i].payload), ordered[i].count>>
        payload == before(Len(ordered) + 1)
    IN  [body |-> <<magic, SchemaMajor, minor, Len(ordered)>>
                    \o FlattenSeq([i \in DOMAIN ordered |-> entry(i)]) \o payload,
         digest |-> payload]

\* _pack_values, _pack_pairs and _encode_occurrences
Units(tag, units) == [tag |-> tag, count |-> Len(units), payload |-> units]
Pairs(tag, rows) == [tag |-> tag, count |-> Len(rows), payload |-> FlattenSeq(rows)]

\* _encode_csr and _encode_byte_csr: where each row ends, and the rows one after the other.
Csr(tag, rows) ==
    <<[tag |-> tag, count |-> Len(rows),
       payload |-> [i \in 1 .. Len(rows) + 1 |-> Len(FlattenSeq(SubSeq(rows, 1, i - 1)))]],
      Units(tag + 1, FlattenSeq(rows))>>

\* The sections of the entities, and of the expressions, from a tag on.
EntitySections(tag, entities) ==
    <<Units(tag, [i \in DOMAIN entities |-> entities[i].kind])>>
      \o Csr(tag + 1, [i \in DOMAIN entities |-> entities[i].iri])

ExpressionSections(tag, exprs) ==
    <<Units(tag, [i \in DOMAIN exprs |-> exprs[i].tag])>>
      \o Csr(tag + 1, [i \in DOMAIN exprs |-> exprs[i].args])
      \o Csr(tag + 3, [i \in DOMAIN exprs |-> exprs[i].payload])

\* encode_ontology
OntologySections(o) ==
    EntitySections(1, o.entities) \o ExpressionSections(4, o.exprs)
      \o <<Pairs(9, o.occ), Pairs(10, o.props)>>
      \o Csr(11, o.chains)
      \o <<Pairs(13, o.subclass), Pairs(14, o.equivalent)>>
      \o Csr(15, o.disjoint)
      \o <<Pairs(17, o.subproperty), Pairs(18, o.range), Units(19, o.features),
           [tag |-> 20, count |-> 1, payload |-> o.fingerprint]>>

\* An absent ID is written as the reserved one.
PackId(id) == IF id = None THEN Reserved ELSE id
UnpackId(unit) == IF unit = Reserved THEN None ELSE unit

\* encode_query_ir
QuerySections(q) ==
    <<Units(1, <<q.kind>>)>> \o EntitySections(2, q.entities)
      \o <<Units(5, [i \in DOMAIN q.ontologyIds |-> PackId(q.ontologyIds[i])])>>
      \o ExpressionSections(6, q.exprs)
      \o <<Pairs(11, q.occ), Pairs(12, q.props), Units(13, <<PackId(q.root)>>), Pairs(14, q.obligations)>>

\* encode_compiler_metadata
MetadataSections(m) ==
    EntitySections(1, m.entities)
      \o <<Units(4, m.features), [tag |-> 5, count |-> 1, payload |-> m.fingerprint]>>

(***************************************************************************)
(* Decoding                                                                *)
(***************************************************************************)

\* _decode_container: the sections by their tags.
DecodeContainer(stream, magic, required) ==
    LET raw == stream.body
        n == raw[4]
        directoryEnd == HeaderSize + n * EntrySize
        field(i, k) == raw[HeaderSize + (i - 1) * EntrySize + k]
        tag(i) == field(i, 1)
        end(i) == IF i = 0 THEN directoryEnd ELSE field(i, 2) + field(i, 3)
        tags == {tag(i) : i \in 1 .. n}
        accepted ==
            /\ Len(raw) >= HeaderSize
            /\ raw[1] = magic /\ raw[2] = SchemaMajor /\ n <= MaxSections
            /\ directoryEnd <= Len(raw)
            /\ stream.digest = SubSeq(raw, directoryEnd + 1, Len(raw))
            /\ \A i \in 1 .. n :
                    /\ i > 1 => tag(i - 1) < tag(i)
                    /\ field(i, 2) = end(i - 1)
                    /\ end(i) <= Len(raw)
                    /\ tag(i) \in required \/ tag(i) >= OptionalStart
            /\ end(n) = Len(raw)
            /\ required \subseteq tags
        section(i) == [count |-> field(i, 4), payload |-> SubSeq(raw, field(i, 2) + 1, end(i))]
    IN  IF accepted
        THEN <<[t \in required |-> section(CHOOSE i \in 1 .. n : tag(i) = t)]>>
        ELSE <<>>

\* _unpack_fixed, _unpack_pairs and _decode_occurrences: rows of a width
FixedOK(s, width) == Len(s.payload) = s.count * width
PairRows(s) == [i \in 1 .. s.count |-> <<s.payload[2 * i - 1], s.payload[2 * i]>>]

\* Mutant of OffsetsOK: the first row may begin anywhere.
OffsetsFromAnywhere(s) ==
    /\ Len(s.payload) = s.count + 1
    /\ \A i \in 1 .. s.count : s.payload[i] <= s.payload[i + 1]

\* _unpack_offsets
OffsetsOK(s) ==
    /\ Len(s.payload) = s.count + 1
    /\ s.payload[1] = 0
    /\ \A i \in 1 .. s.count : s.payload[i] <= s.payload[i + 1]

\* _decode_csr and _decode_byte_csr
CsrOK(offsets, values) ==
    /\ OffsetsOK(offsets)
    /\ FixedOK(values, 1)
    /\ Last(offsets.payload) = Len(values.payload)
CsrRows(offsets, values) ==
    [i \in 1 .. offsets.count |-> SubSeq(values.payload, offsets.payload[i] + 1, offsets.payload[i + 1])]

\* A byte that no UTF-8 text holds.
NotUtf8 == 255

\* _decode_entity_records, from a tag on
EntitiesOK(at, tag) ==
    /\ FixedOK(at[tag], 1)
    /\ CsrOK(at[tag + 1], at[tag + 2])
    /\ at[tag].count = at[tag + 1].count
    /\ NotUtf8 \notin ToSet(at[tag + 2].payload)
EntityRows(at, tag) ==
    LET iris == CsrRows(at[tag + 1], at[tag + 2])
    IN  [i \in DOMAIN iris |-> [kind |-> at[tag].payload[i], iri |-> iris[i]]]

\* _decode_expression_records, from a tag on
ExpressionsOK(at, tag) ==
    /\ FixedOK(at[tag], 1)
    /\ CsrOK(at[tag + 1], at[tag + 2])
    /\ CsrOK(at[tag + 3], at[tag + 4])
    /\ at[tag].count = at[tag + 1].count /\ at[tag].count = at[tag + 3].count
ExpressionRecords(at, tag) ==
    LET arguments == CsrRows(at[tag + 1], at[tag + 2])
        payloads == CsrRows(at[tag + 3], at[tag + 4])
    IN  [i \in DOMAIN arguments |->
            [tag |-> at[tag].payload[i], args |-> arguments[i], payload |-> payloads[i]]]

\* What a decoder makes of the sections, if they are framed as they should be and the
\* record they make is valid.
Validated(sections, framed(_), from(_), valid(_)) ==
    LET accepted == SelectSeq(sections, framed)
    IN  SelectSeq([i \in DOMAIN accepted |-> from(accepted[i])], valid)

\* decode_ontology
OntologyFramed(at) ==
    /\ EntitiesOK(at, 1) /\ ExpressionsOK(at, 4)
    /\ \A tag \in {9, 10, 13, 14, 17, 18} : FixedOK(at[tag], 2)
    /\ CsrOK(at[11], at[12]) /\ CsrOK(at[15], at[16])
    /\ FixedOK(at[19], 1)
    /\ at[20].count = 1

OntologyFrom(at) ==
    [entities |-> EntityRows(at, 1), exprs |-> ExpressionRecords(at, 4),
     occ |-> PairRows(at[9]), props |-> PairRows(at[10]), chains |-> CsrRows(at[11], at[12]),
     subclass |-> PairRows(at[13]), equivalent |-> PairRows(at[14]),
     disjoint |-> CsrRows(at[15], at[16]), subproperty |-> PairRows(at[17]),
     range |-> PairRows(at[18]), features |-> at[19].payload, fingerprint |-> at[20].payload]

DecodeOntology(stream) ==
    Validated(DecodeContainer(stream, Magic.ontology, 1 .. 20), OntologyFramed, OntologyFrom, ValidOntology)

\* decode_query_ir
QueryFramed(at) ==
    /\ FixedOK(at[1], 1) /\ at[1].count = 1 /\ at[1].payload[1] \in {0, 1}
    /\ EntitiesOK(at, 2) /\ FixedOK(at[5], 1) /\ at[5].count = at[2].count
    /\ ExpressionsOK(at, 6)
    /\ FixedOK(at[11], 2) /\ FixedOK(at[12], 2)
    /\ FixedOK(at[13], 1) /\ at[13].count = 1
    /\ FixedOK(at[14], 2)

QueryFrom(at) ==
    [kind |-> at[1].payload[1], entities |-> EntityRows(at, 2),
     ontologyIds |-> [i \in DOMAIN at[5].payload |-> UnpackId(at[5].payload[i])],
     exprs |-> ExpressionRecords(at, 6), occ |-> PairRows(at[11]), props |-> PairRows(at[12]),
     root |-> UnpackId(at[13].payload[1]), obligations |-> PairRows(at[14])]

DecodeQuery(stream) ==
    Validated(DecodeContainer(stream, Magic.query, 1 .. 14), QueryFramed, QueryFrom, ValidQuery)

\* decode_compiler_metadata
MetadataFramed(at) == EntitiesOK(at, 1) /\ FixedOK(at[4], 1) /\ at[5].count = 1

MetadataFrom(at) ==
    [entities |-> EntityRows(at, 1), features |-> at[4].payload, fingerprint |-> at[5].payload]

DecodeMetadata(stream) ==
    Validated(DecodeContainer(stream, Magic.metadata, 1 .. 5), MetadataFramed, MetadataFrom, ValidMetadata)

=============================================================================
