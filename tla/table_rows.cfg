SPECIFICATION Spec
CONSTANTS
    MaxKey = 5
    MaxRows = 2
    Worlds <- MCWorlds
    Chars <- MCChars
    KeyText <- MCKeyText
INVARIANT ExportReadsBack
PROPERTY WritesWhatIsMeant
PROPERTY ImportsWhatIsShown
CHECK_DEADLOCK FALSE
