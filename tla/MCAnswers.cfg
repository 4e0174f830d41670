SPECIFICATION AnswersSpec
CONSTANTS
    Ontologies <- MCOntologies
    Compiled <- Compile
    ExtraRoots <- MCExtraRoots
    Names <- MCNames
    Properties <- MCProperties
    Reference <- MCReference
    Queries <- MCQueries
    Entailed <- MCEntailed
    Goals <- MCGoals
    MaxAnswers <- MCMaxAnswers
INVARIANTS
    StageIsEarned
    VerdictIsRight
    TaxonomyIsRight
    RealizationIsRight
    QueryIsRight
    EntailmentIsRight
    PropertyTaxonomyIsRight
PROPERTIES
    StagesAdvance
    VerdictIsStable
CHECK_DEADLOCK FALSE
