SPECIFICATION Spec
INVARIANTS
    AnswerIsTrue
    PredecessorKept
    FilesInv
    AssetsFollowDatabase
PROPERTY
    PublicationIsFinal
