------------------------------- MODULE Tables -------------------------------
(***************************************************************************)
(* The frozen records of the index, CompiledOntology and QueryIR, and the  *)
(* checks of their constructors.  IDs count from zero.  An entity is a     *)
(* record of its kind and the bytes of its IRI, an expression one of its   *)
(* tag, its arguments and the bytes of its literal.                        *)
(***************************************************************************)
EXTENDS Integers, Sequences, SequencesExt

CONSTANTS
    Reserved,          \* U32_RESERVED
    FeatureLength,     \* FEATURE_VECTOR_LENGTH
    FingerprintSize,   \* FINGERPRINT_SIZE
    PredefinedRecords  \* owl:Thing, owl:Nothing and the top and bottom object properties

\* EntityKind
KindNumber ==
    [class |-> 0, individual |-> 1, property |-> 2, data |-> 3, datatype |-> 4, annotation |-> 5]

\* ExpressionTag
TagNumber ==
    [class |-> 0, individual |-> 1, and |-> 2, some |-> 3, self |-> 4, data |-> 5, not |-> 6, or |-> 7]

\* QueryIRKind
QueryKind == [expression |-> 0, entailment |-> 1]

\* An optional ID that is absent.
None == -1

\* The order of Python on tuples of integers, and on bytes.
Precedes(u, v) ==
    \/ \E i \in DOMAIN u \cap DOMAIN v : SubSeq(u, 1, i - 1) = SubSeq(v, 1, i - 1) /\ u[i] < v[i]
    \/ Len(u) < Len(v) /\ SubSeq(v, 1, Len(u)) = u

\* _check_sorted_unique
StrictlySorted(rows) == \A i \in 1 .. Len(rows) - 1 : Precedes(rows[i], rows[i + 1])

\* _entity_key: the kind comes before the bytes.
EntityKey(e) == <<e.kind>> \o e.iri

\* EntityRecord.__post_init__
ValidEntity(e) == e.kind \in 0 .. 5 /\ e.iri # <<>>

\* ExpressionRecord.__post_init__
ValidRecord(x) == x.tag \in 0 .. 7 /\ ToSet(x.args) \subseteq 0 .. Reserved - 1

\* _validate_entities
ValidEntities(entities) ==
    /\ \A i \in DOMAIN entities : ValidEntity(entities[i])
    /\ StrictlySorted([i \in DOMAIN entities |-> EntityKey(entities[i])])
    /\ Len(entities) <= Reserved

\* _validate_entity_index
IsEntity(entities, id, kind) == id < Len(entities) /\ entities[id + 1].kind = kind

\* _expression_dependencies
Dependencies(x) ==
    CASE x.tag = TagNumber.some -> {x.args[2]}
      [] x.tag \in {TagNumber.and, TagNumber.or, TagNumber.not} -> ToSet(x.args)
      [] OTHER -> {}

\* The number of arguments an expression with this tag may have.
ValidArity(tag, n) ==
    CASE tag \in {TagNumber.and, TagNumber.some} -> n = 2
      [] tag = TagNumber.or -> n >= 2
      [] OTHER -> n = 1

\* The kind of the entity that is the first argument of an expression with this tag.
ArgumentKind(tag) ==
    CASE tag = TagNumber.class -> KindNumber.class
      [] tag = TagNumber.individual -> KindNumber.individual
      [] tag = TagNumber.data -> KindNumber.data
      [] OTHER -> KindNumber.property

\* _validate_expressions, for the expression with the given ID
ValidExpression(x, id, entities) ==
    /\ ValidRecord(x)
    /\ ValidArity(x.tag, Len(x.args))
    /\ x.tag \notin {TagNumber.and, TagNumber.or, TagNumber.not} =>
            IsEntity(entities, x.args[1], ArgumentKind(x.tag))
    /\ \A d \in Dependencies(x) : d < id
    /\ (x.tag = TagNumber.data) = (x.payload # <<>>)

\* The order of the keys (tag, payload, arguments).
KeyPrecedes(x, y) ==
    \/ x.tag < y.tag
    \/ x.tag = y.tag /\ Precedes(x.payload, y.payload)
    \/ x.tag = y.tag /\ x.payload = y.payload /\ Precedes(x.args, y.args)

\* _validate_expression_order: no two are equal, and each comes before the later ones that
\* were available when it was taken.
ValidOrder(exprs) ==
    \A i, j \in DOMAIN exprs :
        /\ i # j => exprs[i] # exprs[j]
        /\ (i < j /\ \A d \in Dependencies(exprs[j]) : d + 1 < i) => KeyPrecedes(exprs[i], exprs[j])

\* _validate_named_entity_expressions
ValidNames(entities, exprs) ==
    {<<x.tag, x.args[1]>> : x \in {y \in ToSet(exprs) : y.tag \in {TagNumber.class, TagNumber.individual}}}
      = {<<entities[i].kind, i - 1>> : i \in
            {j \in DOMAIN entities : entities[j].kind \in {KindNumber.class, KindNumber.individual}}}

\* The checks QueryIR and CompiledOntology have in common: entities, expressions and
\* occurrences.
ValidTables(t) ==
    /\ ValidEntities(t.entities)
    /\ Len(t.exprs) <= Reserved
    /\ \A i \in DOMAIN t.exprs : ValidExpression(t.exprs[i], i - 1, t.entities)
    /\ ValidOrder(t.exprs)
    /\ ValidNames(t.entities, t.exprs)
    /\ Len(t.occ) = Len(t.exprs)
    /\ Len(t.props) = Len(SelectSeq(t.entities, LAMBDA e : e.kind = KindNumber.property))

\* _validate_sorted_pairs
ValidPairs(rows, firstLimit, secondLimit) ==
    /\ \A row \in ToSet(rows) : row[1] < firstLimit /\ row[2] < secondLimit
    /\ StrictlySorted(rows)

\* _validate_property_chains
ValidChains(chains, entities) ==
    /\ \A c \in ToSet(chains) : c # <<>> /\ \A r \in ToSet(c) : IsEntity(entities, r, KindNumber.property)
    /\ StrictlySorted(chains)

\* _validate_disjoint_groups
ValidGroups(groups, limit) ==
    /\ \A g \in ToSet(groups) : Len(g) >= 2 /\ \A x \in ToSet(g) : x < limit
    /\ StrictlySorted(groups)

\* CompiledOntology.__post_init__
ValidOntology(o) ==
    LET n == Len(o.exprs)
        isProperty(id) == IsEntity(o.entities, id, KindNumber.property)
    IN  /\ ValidTables(o)
        /\ PredefinedRecords \subseteq ToSet(o.entities)
        /\ ValidChains(o.chains, o.entities)
        /\ ValidPairs(o.subclass, n, n)
        /\ ValidPairs(o.equivalent, n, n)
        /\ ValidGroups(o.disjoint, n)
        /\ ValidPairs(o.subproperty, Len(o.chains), Len(o.entities))
        /\ \A row \in ToSet(o.subproperty) : isProperty(row[2])
        /\ ValidPairs(o.range, Len(o.entities), n)
        /\ \A row \in ToSet(o.range) : isProperty(row[1])
        /\ Len(o.features) = FeatureLength
        /\ Len(o.fingerprint) = FingerprintSize

\* QueryIR.__post_init__
ValidQuery(q) ==
    LET n == Len(q.exprs)
        known == {i \in DOMAIN q.ontologyIds : q.ontologyIds[i] # None}
    IN  /\ \A i, j \in known : i # j => q.ontologyIds[i] # q.ontologyIds[j]
        /\ ValidTables(q)
        /\ ValidPairs(q.obligations, n, n)
        /\ IF q.kind = QueryKind.expression
           THEN q.root # None /\ q.root < n /\ q.obligations = <<>>
           ELSE q.root = None

\* CompilerMetadata.__post_init__
ValidMetadata(m) ==
    /\ ValidEntities(m.entities)
    /\ PredefinedRecords \subseteq ToSet(m.entities)
    /\ Len(m.features) = FeatureLength
    /\ Len(m.fingerprint) = FingerprintSize

\* metadata_from_compiled
MetadataOf(o) == [entities |-> o.entities, features |-> o.features, fingerprint |-> o.fingerprint]

\* CompilerSymbolTable.lookup_entity: the binary search for an entity.
LookupEntity(metadata, e) ==
    LET n == Len(metadata.entities)
        bisect[lower \in 0 .. n, upper \in 0 .. n] ==
            LET middle == (lower + upper) \div 2
            IN  IF lower >= upper THEN lower
                ELSE IF Precedes(EntityKey(metadata.entities[middle + 1]), EntityKey(e))
                THEN bisect[middle + 1, upper] ELSE bisect[lower, middle]
        found == bisect[0, n]
    IN  IF found < n /\ metadata.entities[found + 1] = e THEN found ELSE None

=============================================================================
