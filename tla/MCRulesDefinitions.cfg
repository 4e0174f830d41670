SPECIFICATION Spec
CONSTANTS
    Ontologies <- DefinitionOntologies
    Compiled <- Compile
    Requests <- MCRequests
    Names <- MCNames
    Properties <- MCProperties
    Models <- AxiomModels
    Reference <- NoReference
INVARIANTS
    Complete
