SPECIFICATION LoadSpec
CONSTANTS
    Files <- MCFiles
    Envs <- MCEnvs
    Added <- MCAdded
    Chars <- MCChars
    Alphabet <- MCAlphabet
    Root = FALSE
    MaxLoads = 2
    MaxChanges = 2
PROPERTIES
    AcceptedBoots
    OverridesLand
    SaveKeepsMeaning
CHECK_DEADLOCK FALSE
