SPECIFICATION Spec
CONSTANTS
    Texts <- MCTexts
    Letters <- MCLetters
    Digits <- MCDigits
    Reserved <- MCReserved
    TokenTexts <- MCTokenTexts
    Programs <- MCPrograms
INVARIANTS TokensCoverText TreeMatchesTokens ProgramsReadBack
PROPERTIES EndsUnlessListOpen
