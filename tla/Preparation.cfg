\* See MCPreparation for the calls; models "m" (window 18, fallback "s" with 14) and
\* "u" (not in the catalog, no window); a message costs 4 and its size.
CONSTANTS
    Workloads <- MCWorkloads
    Catalog <- MCCatalog
    Fallbacks <- MCFallbacks
    Windows <- MCWindows
    ToolLists <- MCToolLists
    ToolTokens = 2
    NoProvider = NoProvider
    NoPrompt = NoPrompt
    Inline = Inline
    Unbounded = Unbounded
SPECIFICATION Spec
INVARIANTS
    VersionsAreDense
    AnswersAreTrue
    ReadsWhatWasAcknowledged
    OrganizationsAreApart
    FitsEveryRoute
    TruncationIsExact
    ToolNamesAreDistinct
