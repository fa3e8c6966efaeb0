\* Changes with renames, and what action.yml says of the output `full`.
CONSTANTS
    Change <- Changes
    Unusual = {}
    Quote = "quote"
    Root <- Mcp
    FullRules <- Full
    IgnoredRules <- Ignored
    DocRoots = {"docs"}
    Markdown = {"readme.md"}
    MaxPaths = 4
SPECIFICATION Spec
INVARIANT
    FullWhenTriggered
\* The step ends.
CHECK_DEADLOCK FALSE
