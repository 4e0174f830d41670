SPECIFICATION Spec
CONSTANTS
    Ontologies <- RangeOntologies
    Compiled <- Compile
    Requests <- MCRequests
    Names <- MCNames
    Properties <- MCProperties
    Models <- AxiomModels
    Reference <- RangeReference
INVARIANTS
    RootConsequenceIsSound
