SPECIFICATION Spec
CONSTANTS
    Ontologies <- MCOntologies
    Compiled <- Compile
    Requests <- MCRequests
    Names <- MCNames
    Properties <- MCProperties
    Models <- AxiomModels
    Reference <- MCReference
INVARIANTS
    DrainedIsClosed
    EitherPremiseLast
    Sound
    Complete
    CacheIsExact
    SharedAgreesWithIsolated
