\* Expressions of a bounded language, and the values of a field of each type.
SPECIFICATION ConversionsSpec
CONSTANTS
    Fields <- MCFields
    Alias = "people"
    Added <- NoneAdded
    Requests <- Ordinary
INVARIANTS
    SupportedIsTranslated
    MeaningIsKept
    ValueIsKept
