SPECIFICATION ExplainSpec
CONSTANTS
    Relations <- MCRelations
    ColumnsOf <- MCColumnsOf
    Plans <- MCPlans
    Structures <- MCStructures
    RelationOrder <- MCRelationOrder
    Statements <- MCStatements
    PlansOf <- MCPlansOf
    MaxBlanks = 1
    Drafts <- MCDrafts
    MaxRowsPerRequest = 2
INVARIANTS
    PredicatesReadTrue
    SuggestionsUseful
PROPERTIES
    AnswersTellAll
    SelectionAgrees
CHECK_DEADLOCK FALSE
