\* enabled-tools given on the command line, in the environment, or both.
CONSTANTS
    EnabledLists <- MCEnabledLists
    EnvValues <- MCEnvAny
    NotGiven = NotGiven
SPECIFICATION Spec
INVARIANT EnabledToolsHonoured
\* main exits after --list-tools or serves until its transport ends.
CHECK_DEADLOCK FALSE
