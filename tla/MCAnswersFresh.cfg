SPECIFICATION AnswersSpec
CONSTANTS
    Ontologies <- FreshOntologies
    Compiled <- Compile
    ExtraRoots <- Never
    Names <- MCNames
    Properties <- MCProperties
    Reference <- MCReference
    Queries <- FreshQueries
    Entailed <- NoEntailments
    Goals <- Never
    MaxAnswers <- OneAnswer
INVARIANTS
    QueryIsRight
CHECK_DEADLOCK FALSE
