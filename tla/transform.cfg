SPECIFICATION TransformSpec
CONSTANTS
    Characters = {"space", "tab", "nbsp", "emsp", "nel", "zwsp", "bom", "a", "A", "b", "|", "-", "linkedin", "LinkedIn"}
    Postings <- MCPostings
    Noise = {"tab", "nbsp", "emsp", "nel", "zwsp", "bom"}
    MaxNoise = 2
    UserID <- MCUserID
    Spellings <- MCSpellings
INVARIANTS
    TransformTypeOK
    SourcesAgree
    BlankRefused
    AddressKept
    KeysTellApart
