SPECIFICATION TransferSpec
CONSTANTS
    Ontologies <- MCOntologies
    Rules <- MCRules
    EntityOrder <- MCEntityOrder
    Queries <- MCQueries
    Modes <- MCModes
    NodeLimit = 5
    MaxCount = 3
    Iri <- MCIri
    FeatureOrder <- MCFeatureOrder
    Fingerprint <- MCFingerprint
    Reserved = 65535
    FeatureLength <- MCFeatureLength
    FingerprintSize = 2
    PredefinedRecords <- MCPredefinedRecords
    Entailments <- MCEntailments
    Fragile <- MCFragile
    Junk <- MCJunk
INVARIANTS
    CompilationIsRight
    OverlayIsRight
    PayloadsAreExact
CHECK_DEADLOCK FALSE
