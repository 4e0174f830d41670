SPECIFICATION AnswersSpec
CONSTANTS
    Ontologies <- RangeOntologies
    Compiled <- Compile
    ExtraRoots <- Never
    Names <- MCNames
    Properties <- MCProperties
    Reference <- MCReference
    Queries <- NoQueries
    Entailed <- RangeEntailed
    Goals <- Never
    MaxAnswers <- OneAnswer
INVARIANTS
    EntailmentIsRight
CHECK_DEADLOCK FALSE
