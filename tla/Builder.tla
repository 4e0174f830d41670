------------------------------ MODULE Builder ------------------------------
(***************************************************************************)
(* compile_ontology and the index builder: every axiom is converted in a   *)
(* transaction of its own, which is merged into the builder or rolled      *)
(* back, and the builder is frozen into the numbered tables of a           *)
(* CompiledOntology.  A class query is compiled the same way and laid over *)
(* the tables.                                                             *)
(*                                                                         *)
(* Module Conversion says which rows an axiom adds; here the rows refer to *)
(* expressions by handles that are local to a transaction, then to the     *)
(* builder, then final.  Handles and IDs count from one.  Data properties  *)
(* and literal payloads are left out.  A table is a set here; Record and   *)
(* QueryRecord make of it the sorted rows that are numbered from zero.     *)
(***************************************************************************)
EXTENDS Conversion, Tables, FiniteSets, FiniteSetsExt

CONSTANTS
    Ontologies,   \* sets of members [axiom, note]: an axiom and its annotation, "" for none
    Rules(_),     \* for each ontology, the number of its SWRL rules
    EntityOrder,  \* all entities, sorted by kind and IRI
    Iri(_),       \* the bytes of the IRI of an entity
    FeatureOrder, \* the features, in the order of the feature vector
    Fingerprint,  \* the source fingerprint
    Queries,      \* the class expressions asked about
    Modes,        \* the values of the option unsupported: a subset of {"ignore", "error"}
    NodeLimit,    \* max_nodes_per_axiom
    MaxCount      \* U64_MAX

VARIABLES
    ontology,  \* the view that is compiled
    mode,      \* the option unsupported
    todo,      \* the members of the view that are still to come
    rules,     \* the extensions still to come
    observed,  \* annotated_logical_keys
    script,    \* what the converter has still to do in the open transaction
    nodes,     \* observed in ExpressionConverter.convert
    txn,       \* <<>>, or the open IndexTransaction
    builder,   \* the OntologyBuilder
    outcome,   \* "running", "compiled", or the exception raised
    compiled,  \* <<>>, or the CompiledOntology
    overlay    \* <<>>, or the query, its mini-IR and what _install_query returns

vars == <<ontology, mode, todo, rules, observed, script, nodes, txn, builder, outcome, compiled, overlay>>

(***************************************************************************)
(* MutableIndex                                                            *)
(***************************************************************************)

Property(r) == <<"property", r>>
PredefinedEntities ==
    {Thing, Nothing, Property("owl:topObjectProperty"), Property("owl:bottomObjectProperty")}

\* MutableIndex.__init__
EmptyIndex ==
    [entities |-> {}, exprs |-> <<>>, occ |-> <<>>, props |-> <<>>, chains |-> {},
     subclass |-> {}, equivalent |-> {}, disjoint |-> {}, subproperty |-> {}, range |-> {},
     features |-> <<>>]

\* A pair of counters: negative and positive occurrences.
Bits(polarity) == <<Cardinality(polarity \cap NEGATIVE), Cardinality(polarity \cap POSITIVE)>>
Plus(u, v) == <<u[1] + v[1], u[2] + v[2]>>

\* Counters, or pairs of counters, with those of g added to those of f.
AddedCounts(f, g) ==
    [x \in DOMAIN f \cup DOMAIN g |->
        (IF x \in DOMAIN f THEN f[x] ELSE 0) + (IF x \in DOMAIN g THEN g[x] ELSE 0)]
AddedPairs(f, g) ==
    [x \in DOMAIN f \cup DOMAIN g |->
        Plus(IF x \in DOMAIN f THEN f[x] ELSE <<0, 0>>, IF x \in DOMAIN g THEN g[x] ELSE <<0, 0>>)]

\* The handle of an expression key.
HandleOfKey(ix, key) == CHOOSE h \in DOMAIN ix.exprs : ix.exprs[h] = key

\* _ExpressionKey, and the handle of an expression that is interned
RECURSIVE KeyOf(_, _)
KeyOf(ix, x) ==
    LET handle(y) == HandleOfKey(ix, KeyOf(ix, y))
    IN  [tag |-> x[1],
         entities |-> CASE x[1] \in {"class", "individual"} -> <<x>>
                        [] x[1] \in {"some", "self"} -> <<Property(x[2])>>
                        [] OTHER -> <<>>,
         args |-> [i \in DOMAIN Operands(x) |-> handle(Operands(x)[i])]]

Handle(ix, x) == HandleOfKey(ix, KeyOf(ix, x))

\* intern_expression: an unknown key is appended, a known one counted.
InternKey(ix, key, bits) ==
    LET known == \E h \in DOMAIN ix.exprs : ix.exprs[h] = key
    IN  [ix EXCEPT
            !.entities = @ \cup ToSet(key.entities),
            !.exprs = IF known THEN @ ELSE Append(@, key),
            !.occ = IF known THEN [@ EXCEPT ![HandleOfKey(ix, key)] = Plus(@, bits)]
                    ELSE Append(@, bits)]

\* record_object_property, with the features of the predefined properties
RecordProperty(ix, r, polarity) ==
    LET found == {row[2] : row \in {q \in PropertyRows(r, polarity) : q[1] = "feature"}}
    IN  [ix EXCEPT !.entities = @ \cup {Property(r)},
                   !.props = AddedPairs(@, [p \in {r} |-> Bits(polarity)]),
                   !.features = AddedCounts(@, [f \in found |-> 1])]

\* add_property_chain and add_subproperty
AddSubproperty(ix, chain, super) ==
    [ix EXCEPT !.entities = @ \cup {Property(r) : r \in ToSet(chain) \cup {super}},
               !.chains = @ \cup {chain},
               !.subproperty = @ \cup {<<chain, super>>}]

\* One operation of the converter on the transaction.
Apply(ix, op) ==
    CASE op[1] = "intern" -> InternKey(ix, KeyOf(ix, op[2]), Bits(op[3]))
      [] op[1] = "property" -> RecordProperty(ix, op[2], op[3])
      [] op[1] = "feature" -> [ix EXCEPT !.features = AddedCounts(@, [f \in {op[2]} |-> op[3]])]
      [] op[1] = "entity" -> [ix EXCEPT !.entities = @ \cup {op[2]}]
      [] op[1] = "subclass" -> [ix EXCEPT !.subclass = @ \cup {<<Handle(ix, op[2]), Handle(ix, op[3])>>}]
      [] op[1] = "equivalent" ->
            [ix EXCEPT !.equivalent = @ \cup {<<Handle(ix, op[2]), Handle(ix, op[3])>>}]
      [] op[1] = "disjoint" ->
            [ix EXCEPT !.disjoint = @ \cup {[i \in DOMAIN op[2] |-> Handle(ix, op[2][i])]}]
      [] op[1] = "subproperty" -> AddSubproperty(ix, op[2], op[3])
      [] op[1] = "range" -> [ix EXCEPT !.range = @ \cup {<<op[2], Handle(ix, op[3])>>}]
      [] OTHER -> ix

\* _checked_add has raised OverflowError.
Overflows(ix) ==
    \/ \E h \in DOMAIN ix.occ : ix.occ[h][1] > MaxCount \/ ix.occ[h][2] > MaxCount
    \/ \E r \in DOMAIN ix.props : ix.props[r][1] > MaxCount \/ ix.props[r][2] > MaxCount
    \/ \E f \in DOMAIN ix.features : ix.features[f] > MaxCount

(***************************************************************************)
(* What the converters do, operation by operation                          *)
(***************************************************************************)

Feature(f) == <<<<"feature", f, 1>>>>

\* The expressions _finish interns, in order.
InternScript(x, kids, polarity) ==
    CASE x[1] = "and" /\ Len(kids) > 0 ->
            [i \in 1 .. Len(kids) - 1 |-> <<"intern", Conjunction(SubSeq(kids, 1, i + 1)), polarity>>]
      [] x[1] \in {"or", "oneof"} /\ Len(kids) = 1 -> <<>>
      [] OTHER -> <<<<"intern", Finish(x, kids), polarity>>>>

\* ExpressionConverter.convert: a node is visited, then its operands, then it is finished.
RECURSIVE ExpressionScript(_, _)
ExpressionScript(x, polarity) ==
    LET kids == [i \in DOMAIN Operands(x) |-> Indexed(Operands(x)[i])]
        interns == InternScript(x, kids, polarity)
        features == Features(x, Finish(x, kids), polarity)
        found == SetToSeq(IF interns = <<>> THEN features \cap {"OBJECT_ONE_OF"} ELSE features)
    IN  <<<<"visit", x>>>>
          \o (IF x[1] \in {"some", "hasvalue", "self"} THEN <<<<"property", x[2], polarity>>>> ELSE <<>>)
          \o FlattenSeq([i \in DOMAIN kids |-> ExpressionScript(Operands(x)[i], OperandPolarity(x, polarity))])
          \o interns
          \o [i \in DOMAIN found |-> <<"feature", found[i], 1>>]

Convert(x, polarity) == <<<<"convert">>>> \o ExpressionScript(x, polarity)
ConvertAll(xs, polarity) == FlattenSeq([i \in DOMAIN xs |-> Convert(xs[i], polarity)])

\* _equivalent_classes
EquivalentScript(members) ==
    LET xs == [i \in DOMAIN members |-> Indexed(members[i])]
        row(i) == CASE i = 1 -> <<>>
                    [] i > 1 /\ xs[1][1] # "class" /\ xs[i][1] = "class" ->
                        <<<<"equivalent", xs[i], xs[1]>>>>
                    [] OTHER -> <<<<"equivalent", xs[1], xs[i]>>>>
    IN  FlattenSeq([i \in DOMAIN members |-> Convert(members[i], DUAL) \o row(i)])

\* _disjoint
DisjointScript(members) ==
    LET xs == [i \in DOMAIN members |-> Indexed(members[i])]
        pair(i, j) == Convert(members[j], NEGATIVE)
                        \o <<<<"intern", <<"and", <<xs[i], xs[j]>>>>, NEGATIVE>>,
                             <<"subclass", <<"and", <<xs[i], xs[j]>>>>, Nothing>>>>
    IN  IF Len(members) > 2
        THEN ConvertAll(members, NEGATIVE) \o <<<<"disjoint", xs>>>>
        ELSE Convert(Nothing, POSITIVE)
               \o FlattenSeq([i \in DOMAIN members |->
                    Convert(members[i], NEGATIVE)
                      \o FlattenSeq([n \in 1 .. Len(members) - i |-> pair(i, i + n)])])

\* _disjoint_union
DisjointUnionScript(defined, members) ==
    DisjointScript(members) \o
      CASE Len(members) = 0 ->
            Convert(defined, POSITIVE) \o Convert(Nothing, POSITIVE)
              \o <<<<"equivalent", defined, Nothing>>>>
        [] Len(members) = 1 ->
            Convert(defined, DUAL) \o Convert(members[1], DUAL)
              \o <<<<"equivalent", defined, Indexed(members[1])>>>>
        [] OTHER ->
            Feature("DISJOINT_UNION") \o Convert(defined, POSITIVE)
              \o FlattenSeq([i \in DOMAIN members |->
                    Convert(members[i], NEGATIVE) \o <<<<"subclass", Indexed(members[i]), defined>>>>])

\* _same_individual
SameIndividualScript(members) ==
    FlattenSeq([i \in DOMAIN members |->
        Convert(members[i], DUAL)
          \o (IF i = 1 THEN <<>>
              ELSE <<<<"subclass", members[1], members[i]>>, <<"subclass", members[i], members[1]>>>>)])

\* _object_property_assertion
AssertionScript(source, r, target) ==
    Feature("OBJECT_PROPERTY_ASSERTION") \o Convert(source, NEGATIVE)
      \o <<<<"property", r, POSITIVE>>>> \o Convert(target, POSITIVE)
      \o <<<<"intern", <<"some", r, target>>, POSITIVE>>>> \o Feature("OBJECT_HAS_VALUE_POSITIVE")
      \o <<<<"subclass", source, <<"some", r, target>>>>>>

\* _property_chain and the rest of SubObjectPropertyOf
SubPropertyScript(chain, super) ==
    [i \in DOMAIN chain |-> <<"property", Reverse(chain)[i], NEGATIVE>>]
      \o (IF Len(chain) > 1 THEN <<<<"feature", "OBJECT_PROPERTY_CHAIN", Len(chain) - 1>>>> ELSE <<>>)
      \o <<<<"property", super, POSITIVE>>, <<"subproperty", chain, super>>>>

\* _equivalent_object_properties
EquivalentPropertyScript(members) ==
    FlattenSeq([i \in DOMAIN members |->
        <<<<"property", members[i], DUAL>>>>
          \o (IF i = 1 THEN <<>>
              ELSE <<<<"subproperty", <<members[1]>>, members[i]>>,
                     <<"subproperty", <<members[i]>>, members[1]>>>>)])

\* AxiomConverter.convert
AxiomScript(a) ==
    CASE a[1] \in {"SubClassOf", "ClassAssertion"} ->
            Convert(a[2], NEGATIVE) \o Convert(a[3], POSITIVE)
              \o <<<<"subclass", Indexed(a[2]), Indexed(a[3])>>>>
      [] a[1] = "Declaration" -> <<<<"entity", IF a[2][1] = "expr" THEN a[2][2] ELSE a[2]>>>>
      [] a[1] = "EquivalentClasses" -> EquivalentScript(a[2])
      [] a[1] = "DisjointClasses" -> DisjointScript(a[2]) \o Feature("DISJOINT_CLASSES")
      [] a[1] = "DifferentIndividuals" -> DisjointScript(a[2]) \o Feature("DIFFERENT_INDIVIDUALS")
      [] a[1] = "DisjointUnion" -> DisjointUnionScript(a[2], a[3])
      [] a[1] = "SameIndividual" -> SameIndividualScript(a[2])
      [] a[1] = "ObjectPropertyAssertion" -> AssertionScript(a[2], a[3], a[4])
      [] a[1] = "EquivalentObjectProperties" -> EquivalentPropertyScript(a[2])
      [] a[1] = "SubObjectPropertyOf" -> SubPropertyScript(a[2], a[3])
      [] a[1] = "ObjectPropertyDomain" ->
            <<<<"property", a[2], NEGATIVE>>>> \o Convert(Thing, NEGATIVE)
              \o <<<<"intern", <<"some", a[2], Thing>>, NEGATIVE>>>> \o Convert(a[3], POSITIVE)
              \o <<<<"subclass", <<"some", a[2], Thing>>, Indexed(a[3])>>>>
      [] a[1] = "ObjectPropertyRange" ->
            <<<<"property", a[2], NEGATIVE>>>> \o Convert(a[3], POSITIVE)
              \o <<<<"range", a[2], Indexed(a[3])>>>> \o Feature("OBJECT_PROPERTY_RANGE")
      [] a[1] = "ReflexiveObjectProperty" ->
            Feature("REFLEXIVE_OBJECT_PROPERTY") \o Convert(Thing, NEGATIVE)
              \o <<<<"property", a[2], POSITIVE>>, <<"intern", <<"self", a[2]>>, POSITIVE>>,
                   <<"subclass", Thing, <<"self", a[2]>>>>>>
      [] a[1] = "TransitiveObjectProperty" ->
            <<<<"property", a[2], DUAL>>>> \o Feature("OBJECT_PROPERTY_CHAIN")
              \o <<<<"subproperty", <<a[2], a[2]>>, a[2]>>>>
      [] OTHER -> <<<<"convert">>, <<"visit", a>>>>

(***************************************************************************)
(* Merging and freezing                                                    *)
(***************************************************************************)

\* The expressions of a transaction, interned in the builder one by one: the builder, and
\* for each local handle the one it got there.
MergeExpressions(b, t) ==
    FoldLeft(LAMBDA acc, h :
        LET key == [t.exprs[h] EXCEPT !.args = [i \in DOMAIN @ |-> acc.to[@[i]]]]
            ix == InternKey(acc.ix, key, t.occ[h])
        IN  [ix |-> ix, to |-> Append(acc.to, HandleOfKey(ix, key))],
        [ix |-> b, to |-> <<>>], [h \in DOMAIN t.exprs |-> h])

\* merge: everything the transaction holds, in the handles of the builder.
Merge(b, t) ==
    LET merged == MergeExpressions(b, t)
        pairs(rows) == {<<merged.to[row[1]], merged.to[row[2]]>> : row \in rows}
    IN  [merged.ix EXCEPT
            !.entities = @ \cup t.entities,
            !.props = AddedPairs(@, t.props),
            !.chains = @ \cup t.chains,
            !.subclass = @ \cup pairs(t.subclass),
            !.equivalent = @ \cup pairs(t.equivalent),
            !.disjoint = @ \cup {[i \in DOMAIN g |-> merged.to[g[i]]] : g \in t.disjoint},
            !.subproperty = @ \cup t.subproperty,
            !.range = @ \cup {<<row[1], merged.to[row[2]]>> : row \in t.range},
            !.features = AddedCounts(@, t.features)]

\* _ensure_named_expressions
EnsureNamed(b) ==
    FoldLeft(LAMBDA ix, e : InternKey(ix, [tag |-> e[1], entities |-> <<e>>, args |-> <<>>], <<0, 0>>),
             b, SelectSeq(EntityOrder, LAMBDA e : e \in b.entities /\ e[1] \in {"class", "individual"}))

\* rewritten_arguments: a position is where a handle, or an entity, comes to stand.
Rewritten(key, entityAt, handleAt) ==
    [i \in DOMAIN key.entities |-> entityAt[key.entities[i]]]
      \o [i \in DOMAIN key.args |-> handleAt[key.args[i]]]

\* The positions of the elements of a sequence.
Positions(s) == [x \in ToSet(s) |-> CHOOSE i \in DOMAIN s : s[i] = x]

\* _freeze_expressions: of the expressions whose operands are placed, the one with the
\* least tag and arguments comes next.
FreezeOrder(b, entityAt) ==
    LET next(order) ==
            LET at == Positions(order)
                open == {h \in (DOMAIN b.exprs) \ ToSet(order) : ToSet(b.exprs[h].args) \subseteq ToSet(order)}
                key(h) == <<TagNumber[b.exprs[h].tag]>> \o Rewritten(b.exprs[h], entityAt, at)
            IN  CHOOSE h \in open : \A o \in open \ {h} : Precedes(key(h), key(o))
    IN  FoldLeft(LAMBDA order, i : Append(order, next(order)), <<>>, [h \in DOMAIN b.exprs |-> h])

\* freeze, and freeze_query_ir, of a builder whose named entities have expressions.
Numbered(b) ==
    LET entities == SelectSeq(EntityOrder, LAMBDA e : e \in b.entities)
        entityAt == Positions(entities)
        order == FreezeOrder(b, entityAt)
        at == Positions(order)
        chain(c) == [i \in DOMAIN c |-> entityAt[Property(c[i])]]
        properties == SelectSeq(entities, LAMBDA e : e[1] = "property")
    IN  [entities |-> entities,
         exprs |-> [i \in DOMAIN order |->
                        [tag |-> b.exprs[order[i]].tag, args |-> Rewritten(b.exprs[order[i]], entityAt, at)]],
         occ |-> [i \in DOMAIN order |-> b.occ[order[i]]],
         props |-> [i \in DOMAIN properties |->
                        IF properties[i][2] \in DOMAIN b.props THEN b.props[properties[i][2]] ELSE <<0, 0>>],
         chains |-> {chain(c) : c \in b.chains \cup {<<p[2]>> : p \in ToSet(properties)}},
         subclass |-> {<<at[row[1]], at[row[2]]>> : row \in b.subclass},
         equivalent |-> {<<at[row[1]], at[row[2]]>> : row \in b.equivalent},
         disjoint |-> {[i \in DOMAIN g |-> at[g[i]]] : g \in b.disjoint},
         subproperty |-> {<<chain(row[1]), entityAt[Property(row[2])]>> : row \in b.subproperty},
         range |-> {<<entityAt[Property(row[1])], at[row[2]]>> : row \in b.range},
         features |-> b.features]

Freeze(b) == Numbered(EnsureNamed(b))

\* entity_record
EntityRecord(e) == [kind |-> KindNumber[e[1]], iri |-> Iri(e)]

\* EntityOrder is the order of _sorted_entities.
ASSUME EntityOrderAssumption ==
    StrictlySorted([i \in DOMAIN EntityOrder |-> EntityKey(EntityRecord(EntityOrder[i]))])

\* IDs from zero, and the rows of a set in order.
FromZero(row) == [i \in DOMAIN row |-> row[i] - 1]
SortedRows(rows) == SetToSortSeq({FromZero(row) : row \in rows}, Precedes)

\* The rows that freeze and freeze_query_ir both hand to the record they construct.
CommonRecord(table) ==
    [entities |-> [i \in DOMAIN table.entities |-> EntityRecord(table.entities[i])],
     exprs |-> [i \in DOMAIN table.exprs |->
                    [tag |-> TagNumber[table.exprs[i].tag], args |-> FromZero(table.exprs[i].args), payload |-> <<>>]],
     occ |-> table.occ, props |-> table.props]

\* What freeze returns: the CompiledOntology that holds a table.
Record(table) ==
    LET chains == SortedRows(table.chains)
        chainId(c) == Positions(chains)[FromZero(c)]
    IN  [chains |-> chains,
         subclass |-> SortedRows(table.subclass),
         equivalent |-> SortedRows(table.equivalent),
         disjoint |-> SortedRows(table.disjoint),
         subproperty |-> SortedRows({<<chainId(row[1]), row[2]>> : row \in table.subproperty}),
         range |-> SortedRows(table.range),
         features |-> [i \in DOMAIN FeatureOrder |->
                        IF FeatureOrder[i] \in DOMAIN table.features THEN table.features[FeatureOrder[i]] ELSE 0],
         fingerprint |-> Fingerprint] @@ CommonRecord(table)

\* What freeze_query_ir returns.
QueryRecord(kind, table, ontologyIds, root, obligations) ==
    [kind |-> kind, ontologyIds |-> ontologyIds, root |-> root,
     obligations |-> SortedRows(obligations)] @@ CommonRecord(table)

(***************************************************************************)
(* Class queries over a compiled ontology                                  *)
(***************************************************************************)

\* OntologyBuilder.__init__
OntologyBuilder == [EmptyIndex EXCEPT !.entities = PredefinedEntities]

\* The signature of a class expression.
RECURSIVE Signature(_)
Signature(x) ==
    (CASE x[1] \in {"class", "individual"} -> {x}
       [] x[1] \in {"some", "hasvalue", "self"} -> {Property(x[2])}
       [] OTHER -> {})
      \cup UNION {Signature(y) : y \in ToSet(Operands(x))}

\* The tables as an index again, whose handles are the IDs: what _load_ontology and
\* _load_query intern one by one.
AsIndex(table) ==
    LET name(e) == table.entities[e][2]
        names(c) == [i \in DOMAIN c |-> name(c[i])]
        properties == SelectSeq(table.entities, LAMBDA e : e[1] = "property")
        key(r) == [tag |-> r.tag,
                   entities |-> IF r.tag \in {"class", "individual", "some", "self"}
                                THEN <<table.entities[r.args[1]]>> ELSE <<>>,
                   args |-> CASE r.tag = "some" -> <<r.args[2]>>
                              [] r.tag \in {"and", "or", "not"} -> r.args
                              [] OTHER -> <<>>]
    IN  [entities |-> ToSet(table.entities),
         exprs |-> [i \in DOMAIN table.exprs |-> key(table.exprs[i])],
         occ |-> table.occ,
         props |-> [r \in {p[2] : p \in ToSet(properties)} |-> table.props[Positions(properties)[Property(r)]]],
         chains |-> {names(c) : c \in table.chains},
         subclass |-> table.subclass,
         equivalent |-> table.equivalent,
         disjoint |-> table.disjoint,
         subproperty |-> {<<names(row[1]), name(row[2])>> : row \in table.subproperty},
         range |-> {<<name(row[1]), row[2]>> : row \in table.range},
         features |-> table.features]

\* _query_entities and _complete_query_entity_mapping: the entities of a query, and those
\* that its normalization introduced, in the symbol table of the ontology.
OntologyIds(ir, table) ==
    LET symbols == MetadataOf(Record(table))
    IN  [i \in DOMAIN ir.entities |-> LookupEntity(symbols, EntityRecord(ir.entities[i]))]

\* The mini-IR of what a script converts, on top of the signature of what is asked.
MiniIR(signature, script0) ==
    Freeze(Merge(EmptyIndex, FoldLeft(Apply, [EmptyIndex EXCEPT !.entities = signature], script0)))

\* compile_query_expression
CompileQuery(x) == MiniIR(Signature(x), Convert(x, DUAL))

\* The ID that an expression has in a mini-IR.
ExpressionId(ir, x) == Handle(AsIndex(ir), Indexed(x))

\* compile_entailment_query for SubClassOf(x, y), with the one obligation
\* convert_entailment_obligations makes of it.
EntailmentRecord(x, y, table, ir) ==
    QueryRecord(QueryKind.entailment, ir, OntologyIds(ir, table), None, {<<ExpressionId(ir, x), ExpressionId(ir, y)>>})
CompileEntailment(x, y, table) ==
    EntailmentRecord(x, y, table,
        MiniIR(Signature(x) \cup Signature(y), Convert(x, POSITIVE) \o Convert(y, NEGATIVE)))

\* _load_ontology and _load_query: the query brings no features of its own.
Load(table, ir) ==
    Merge(Merge(OntologyBuilder, AsIndex(table)), [AsIndex(ir) EXCEPT !.features = <<>>])

\* Mutant of Remap: the overlay keeps the IDs of the tables it is made of.
RemapNothing(table, over) == [i \in DOMAIN table.exprs |-> i]

\* _remap_expressions: for each expression of a table, its ID in the overlay.
Remap(table, over) ==
    LET entityAt == Positions(over.entities)
    IN  FoldLeft(LAMBDA to, key :
            Append(to, CHOOSE i \in DOMAIN over.exprs :
                over.exprs[i] = [tag |-> key.tag, args |-> Rewritten(key, entityAt, to)]),
            <<>>, AsIndex(table).exprs)

(***************************************************************************)
(* compile_ontology                                                        *)
(***************************************************************************)

Init ==
    /\ ontology \in Ontologies
    /\ mode \in Modes
    /\ todo = ontology
    /\ rules = Rules(ontology)
    /\ observed = {}
    /\ script = <<>>
    /\ nodes = 0
    /\ txn = <<>>
    /\ builder = OntologyBuilder
    /\ outcome = "running"
    /\ compiled = <<>>
    /\ overlay = <<>>

\* _duplicate_annotated_axiom
IsDuplicate(m) ==
    m.note # "" /\ ([axiom |-> m.axiom, note |-> ""] \in ontology \/ m.axiom \in observed)

\* The next axiom of the view, in whichever order it lists them, has been seen.
SkipDuplicate(m) ==
    /\ outcome = "running" /\ txn = <<>> /\ m \in todo
    /\ IsDuplicate(m)
    /\ todo' = todo \ {m}
    /\ UNCHANGED <<ontology, mode, rules, observed, script, nodes, txn, builder, outcome, compiled, overlay>>

\* The next axiom of the view gets a transaction.
BeginAxiom(m) ==
    /\ outcome = "running" /\ txn = <<>> /\ m \in todo
    /\ ~IsDuplicate(m)
    /\ todo' = todo \ {m}
    /\ observed' = IF m.note = "" THEN observed ELSE observed \cup {m.axiom}
    /\ txn' = <<EmptyIndex>>
    /\ script' = AxiomScript(m.axiom)
    /\ UNCHANGED <<ontology, mode, rules, nodes, builder, outcome, compiled, overlay>>

\* Compilation ends with an exception; nothing of the builder is used.
Raise(exception) ==
    /\ outcome' = exception
    /\ UNCHANGED <<ontology, mode, todo, rules, observed, script, nodes, txn, builder, compiled, overlay>>

IsVisit == script # <<>> /\ Head(script)[1] = "visit"

\* One operation of the converter.
ConvertStep ==
    /\ outcome = "running" /\ script # <<>>
    /\ LET op == Head(script)
           next == Apply(Head(txn), op)
       IN  /\ ~(IsVisit /\ (nodes = NodeLimit \/ op[2][1] = "unsupported"))
           /\ IF Overflows(next) THEN Raise("OverflowError")
              ELSE /\ txn' = <<next>>
                   /\ script' = Tail(script)
                   /\ nodes' = CASE op[1] = "convert" -> 0
                                 [] op[1] = "visit" -> nodes + 1
                                 [] OTHER -> nodes
                   /\ UNCHANGED <<ontology, mode, todo, rules, observed, builder, outcome, compiled, overlay>>

\* The node safety ceiling.
ExceedNodes ==
    /\ outcome = "running" /\ IsVisit /\ nodes = NodeLimit
    /\ Raise("ValueError")

\* What an unsupported construct leaves behind: its feature, and with unsupported="error"
\* an exception.
Unsupport(feature) ==
    LET next == [builder EXCEPT !.features = AddedCounts(@, [f \in {feature} |-> 1])]
    IN  /\ builder' = next
        /\ outcome' = IF Overflows(next) THEN "OverflowError"
                      ELSE IF mode = "error" THEN "UnsupportedFeatureError" ELSE "running"

\* Mutant of RollBack: what was converted before the construct is merged.
RollBackLate ==
    /\ outcome = "running" /\ IsVisit /\ nodes < NodeLimit
    /\ Head(script)[2][1] = "unsupported"
    /\ builder' = [Merge(builder, Head(txn)) EXCEPT
                        !.features = AddedCounts(@, [f \in {Head(script)[2][2]} |-> 1])]
    /\ outcome' = IF mode = "error" THEN "UnsupportedFeatureError" ELSE "running"
    /\ txn' = <<>>
    /\ script' = <<>>
    /\ nodes' = 0
    /\ UNCHANGED <<ontology, mode, todo, rules, observed, compiled, overlay>>

\* UnsupportedConstruct: the transaction is rolled back.
RollBack ==
    /\ outcome = "running" /\ IsVisit /\ nodes < NodeLimit
    /\ Head(script)[2][1] = "unsupported"
    /\ Unsupport(Head(script)[2][2])
    /\ txn' = <<>>
    /\ script' = <<>>
    /\ nodes' = 0
    /\ UNCHANGED <<ontology, mode, todo, rules, observed, compiled, overlay>>

\* commit_into
CommitAxiom ==
    /\ outcome = "running" /\ txn # <<>> /\ script = <<>>
    /\ LET next == Merge(builder, Head(txn))
       IN  IF Overflows(next) THEN Raise("OverflowError")
           ELSE /\ builder' = next
                /\ txn' = <<>>
                /\ nodes' = 0
                /\ UNCHANGED <<ontology, mode, todo, rules, observed, script, outcome, compiled, overlay>>

\* A SWRL rule, after the axioms.
TakeRule ==
    /\ outcome = "running" /\ txn = <<>> /\ todo = {} /\ rules > 0
    /\ rules' = rules - 1
    /\ Unsupport("SWRL_RULE")
    /\ UNCHANGED <<ontology, mode, todo, observed, script, nodes, txn, compiled, overlay>>

\* freeze and return
FreezeBuilder ==
    /\ outcome = "running" /\ txn = <<>> /\ todo = {} /\ rules = 0
    /\ compiled' = <<Freeze(builder)>>
    /\ outcome' = "compiled"
    /\ UNCHANGED <<ontology, mode, todo, rules, observed, script, nodes, txn, builder, overlay>>

\* The number of nodes of an expression.
NodeCount(x) == Len(SelectSeq(ExpressionScript(x, DUAL), LAMBDA op : op[1] = "visit"))

\* _install_query: the merged tables, and for each expression of the ontology and of the
\* query its ID there.
OverlayOf(x, table, ir, over) ==
    [query |-> x, ir |-> ir, root |-> ExpressionId(ir, x), entityIds |-> OntologyIds(ir, table),
     table |-> over, ontologyIds |-> Remap(table, over), queryIds |-> Remap(ir, over)]

\* compile_query_expression and _install_query; a query with an unsupported construct has
\* no mini-IR, and one that is too large, or overflows a counter of its own or of the
\* overlay, is refused.
InstallQuery(x) ==
    LET ir == CompileQuery(x)
        loaded == Load(Head(compiled), ir)
    IN  /\ outcome = "compiled" /\ overlay = <<>>
        /\ Unsupported(x) = <<>>
        /\ NodeCount(x) <= NodeLimit
        /\ ~Overflows(AsIndex(ir))
        /\ ~Overflows(loaded)
        /\ overlay' = <<OverlayOf(x, Head(compiled), ir, Freeze(loaded))>>
        /\ UNCHANGED <<ontology, mode, todo, rules, observed, script, nodes, txn, builder, outcome, compiled>>

Next ==
    \/ \E m \in todo : SkipDuplicate(m) \/ BeginAxiom(m)
    \/ ConvertStep
    \/ ExceedNodes
    \/ RollBack
    \/ CommitAxiom
    \/ TakeRule
    \/ FreezeBuilder
    \/ \E x \in Queries : InstallQuery(x)

Spec == Init /\ [][Next]_vars

(***************************************************************************)
(* Properties                                                              *)
(***************************************************************************)

\* The expressions of a table, as structures.
Structures(table) ==
    FoldLeft(LAMBDA xs, r :
        Append(xs,
            CASE r.tag \in {"class", "individual"} -> table.entities[r.args[1]]
              [] r.tag = "self" -> <<"self", table.entities[r.args[1]][2]>>
              [] r.tag = "some" -> <<"some", table.entities[r.args[1]][2], xs[r.args[2]]>>
              [] r.tag = "not" -> <<"not", xs[r.args[1]]>>
              [] OTHER -> <<r.tag, [i \in DOMAIN r.args |-> xs[r.args[i]]]>>),
        <<>>, table.exprs)

\* The rows of a table as module Conversion writes them.
RowsOf(table) ==
    LET x == Structures(table)
        name(e) == table.entities[e][2]
        ids == DOMAIN table.exprs
    IN  {<<"expr", x[i]>> : i \in ids}
          \cup {<<"neg", x[i]>> : i \in {j \in ids : table.occ[j][1] > 0}}
          \cup {<<"pos", x[i]>> : i \in {j \in ids : table.occ[j][2] > 0}}
          \cup {e \in ToSet(table.entities) : e[1] = "property"}
          \cup {<<"subclass", x[row[1]], x[row[2]]>> : row \in table.subclass}
          \cup {<<"equivalent", x[row[1]], x[row[2]]>> : row \in table.equivalent}
          \cup {<<"disjoint", [i \in DOMAIN g |-> x[g[i]]]>> : g \in table.disjoint}
          \cup {<<"subproperty", [i \in DOMAIN row[1] |-> name(row[1][i])], name(row[2])>> :
                    row \in table.subproperty}
          \cup {<<"range", name(row[1]), x[row[2]]>> : row \in table.range}
          \cup {<<"feature", f>> : f \in DOMAIN table.features}

\* The axioms without their annotations, and those of them that are indexed.
Logical == {m.axiom : m \in ontology}
IndexedAxioms == {a \in Logical : AxiomUnsupported(a) = <<>>}

\* The counters that an operation of the converter adds to, and what it adds.
Counters(op) ==
    CASE op[1] = "intern" -> {<<"expression", op[2], sign>> : sign \in op[3]}
      [] op[1] = "property" ->
            {<<"property", op[2], sign>> : sign \in op[3]}
              \cup {<<"feature", row[2], "">> : row \in {q \in PropertyRows(op[2], op[3]) : q[1] = "feature"}}
      [] op[1] = "feature" -> {<<"feature", op[2], "">>}
      [] OTHER -> {}
Increment(op) == IF op[1] = "feature" THEN op[3] ELSE 1

\* Each counter that a script adds to, with the sum of what it adds.
Totals(ops) ==
    {Append(c, MapThenSumSet(LAMBDA i : Increment(ops[i]), {i \in DOMAIN ops : c \in Counters(ops[i])})) :
        c \in UNION {Counters(ops[i]) : i \in DOMAIN ops}}
Exceeds(totals) == \E c \in totals : c[4] > MaxCount

\* The counters of a table that are not zero.
TableTotals(table) ==
    LET x == Structures(table)
        properties == SelectSeq(table.entities, LAMBDA e : e[1] = "property")
        sign == <<"neg", "pos">>
    IN  {c \in {<<"expression", x[i], sign[s], table.occ[i][s]>> : i \in DOMAIN x, s \in 1 .. 2}
                 \cup {<<"property", properties[i][2], sign[s], table.props[i][s]>> :
                        i \in DOMAIN properties, s \in 1 .. 2}
                 \cup {<<"feature", f, "", table.features[f]>> : f \in DOMAIN table.features} :
            c[4] > 0}

\* The script of each axiom.
Scripts == [a \in Logical |-> AxiomScript(a)]

\* All that the axioms and rules come to, each once and in some order: a construct that is
\* not supported stands for the whole axiom.
Effects(scripts) ==
    LET axioms == SetToSeq(Logical)
        effect(a) == IF a \in IndexedAxioms THEN scripts[a] ELSE Feature(Head(AxiomUnsupported(a)))
    IN  FlattenSeq([i \in DOMAIN axioms |-> effect(axioms[i])])
          \o [i \in 1 .. Rules(ontology) |-> <<"feature", "SWRL_RULE", 1>>]

\* What is played of the script of an axiom.
Played(ops) ==
    LET stops == {i \in DOMAIN ops : ops[i][1] = "visit" /\ ops[i][2][1] = "unsupported"}
    IN  IF stops = {} THEN ops ELSE SubSeq(ops, 1, Min(stops) - 1)

\* Some counter is exceeded, by all axioms together or in the transaction of one.
Excess(scripts) ==
    \/ Exceeds(Totals(Effects(scripts)))
    \/ \E a \in Logical \ IndexedAxioms : Exceeds(Totals(Played(scripts[a])))

\* The counters are those of one copy of each axiom.  A compilation ends only if none of
\* them was exceeded on the way, in a transaction that was rolled back neither, and
\* OverflowError is raised only if one was.
CountersAreRight(scripts) ==
    /\ outcome = "compiled" => TableTotals(Head(compiled)) = Totals(Effects(scripts))
    /\ Excess(scripts) => outcome # "compiled"
    /\ outcome = "OverflowError" => Excess(scripts)

\* Whatever order the view lists its axioms in, whichever of them are rolled back or are
\* annotated copies of others: a compilation that ends has exactly the rows of the axioms
\* and their counters, none beyond its limit, and with unsupported="error" it ends only if
\* everything is supported; it is refused for a counter only if one would pass the limit.
CompilationRight ==
    /\ outcome = "compiled" =>
        /\ RowsOf(Head(compiled)) = Compile(Logical)
                \cup {<<"feature", "SWRL_RULE">> : i \in 1 .. Rules(ontology)}
        /\ mode = "error" => IndexedAxioms = Logical /\ Rules(ontology) = 0
    /\ outcome \in {"compiled", "OverflowError"} => CountersAreRight(Scripts)

\* The counters of a table are those of the ontology and the query, none beyond the limit,
\* with the features of the ontology alone.
AddsUp(table, effects, query) ==
    /\ TableTotals(table) = {c \in Totals(effects \o query) : c[1] # "feature"}
                               \cup {c \in Totals(effects) : c[1] = "feature"}
    /\ ~Exceeds(TableTotals(table))

\* The overlay of a query holds what the ontology and the query hold, and the maps from
\* their expression IDs to those of the overlay name the same expressions: the answers read
\* from its contexts are about the classes and the root that were asked about.  Its
\* counters are the sums of both, none beyond the limit, and its features those of the
\* ontology.  Its rows pass the validation of CompiledOntology, and the binary search in
\* the symbol table gives each entity of the query its ontology ID, or none if it is fresh.
OverlayRight ==
    overlay # <<>> =>
        LET o == Head(overlay)
            over == Structures(o.table)
            x == Structures(Head(compiled))
            q == Structures(o.ir)
            queryRows == {row \in RowsOf(o.ir) : row[1] # "feature"}
        IN  /\ RowsOf(o.table) = RowsOf(Head(compiled)) \cup queryRows
            /\ queryRows \subseteq ExpressionRows(o.query, DUAL)
                    \cup {<<"expr", e>> : e \in Signature(o.query)}
            /\ \A i \in DOMAIN x : over[o.ontologyIds[i]] = x[i]
            /\ \A i \in DOMAIN q : over[o.queryIds[i]] = q[i]
            /\ over[o.queryIds[o.root]] = Indexed(o.query)
            /\ AddsUp(o.table, Effects(Scripts), Convert(o.query, DUAL))
            /\ ValidOntology(Record(o.table))
            /\ \A i \in DOMAIN o.ir.entities :
                    LET e == o.ir.entities[i]
                    IN  o.entityIds[i] =
                            IF e \in ToSet(Head(compiled).entities)
                            THEN Positions(Head(compiled).entities)[e] - 1 ELSE None

=============================================================================
