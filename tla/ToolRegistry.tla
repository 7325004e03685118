---------------------------- MODULE ToolRegistry ----------------------------
(***************************************************************************)
(* Tool registration in main (systemd-mcp.go, after the AuthKeeper is      *)
(* built): the unit tools are offered when a systemd connection could be   *)
(* made, list_log and get_file when the journal is readable and opens,     *)
(* get_man_page always.  --list-tools prints the offered tools and exits;  *)
(* otherwise the tools named by enabled-tools (all of them by default) are *)
(* registered with the MCP server.                                         *)
(*                                                                         *)
(* Options reach main through viper: a command-line flag, else the         *)
(* SYSTEMD_MCP_<NAME> environment variable (viper.AutomaticEnv), else the  *)
(* default.                                                                *)
(***************************************************************************)
CONSTANTS
    EnabledLists,  \* values the enabled-tools option may be given
    EnvValues,     \* values SYSTEMD_MCP_ENABLED_TOOLS may have in the environment
    NotGiven       \* an option neither on the command line nor in the environment

UnitTools == {"list_units", "change_unit_state", "check_restart_reload"}
LogTools == {"list_log", "get_file"}
ManTool == "get_man_page"
ToolNames == UnitTools \cup LogTools \cup {ManTool}

\* The constants are meant to satisfy: EnabledLists are sets of tool names
\* (and names main does not know), NotGiven is none of them, and
\* EnvValues are among the lists or NotGiven.

\* Where enabled-tools and list-tools may be set.
Config == [flag : EnabledLists \cup {NotGiven}, env : EnvValues,
           listTools : BOOLEAN]

\* viper.GetStringSlice("enabled-tools"): the flag if set on the command
\* line, else the environment variable, else the flag's default (nil).
ViperEnabledTools(c) ==
    IF c.flag # NotGiven THEN c.flag
    ELSE IF c.env # NotGiven THEN c.env
    ELSE {}

VARIABLES
    step,        \* the block of main being run
    config,      \* how the options were given
    tools,       \* names of the tools offered so far
    registered   \* names of the tools registered with the server

vars == <<step, config, tools, registered>>

Steps == {"system", "journal", "man", "choose", "serving", "exited"}

TypeOK ==
    /\ step \in Steps
    /\ config \in Config
    /\ tools \subseteq ToolNames
    /\ registered \subseteq ToolNames

Init ==
    /\ step = "system"
    /\ config \in Config
    /\ tools = {}
    /\ registered = {}
-----------------------------------------------------------------------------
\* systemd.NewSystem: on success the three unit tools are offered (and the
\* connection closed when main returns); on failure only a warning.
NewSystem(ok) ==
    /\ step = "system"
    /\ tools' = IF ok THEN tools \cup UnitTools ELSE tools
    /\ step' = "journal"
    /\ UNCHANGED <<config, registered>>

\* journal.CanAccessLogs, then journal.NewLog: both must succeed for
\* list_log and get_file to be offered.
AddLogTools(canAccess, logOK) ==
    /\ step = "journal"
    /\ tools' = IF canAccess /\ logOK THEN tools \cup LogTools ELSE tools
    /\ step' = "man"
    /\ UNCHANGED <<config, registered>>

AddManTool ==
    /\ step = "man"
    /\ tools' = tools \cup {ManTool}
    /\ step' = "choose"
    /\ UNCHANGED <<config, registered>>

\* --list-tools prints allTools and calls os.Exit(0).
ListTools ==
    /\ step = "choose"
    /\ config.listTools
    /\ step' = "exited"
    /\ UNCHANGED <<config, tools, registered>>

\* Seeded fault: every offered tool registered, enabled-tools ignored.
RegisterAll ==
    /\ step = "choose"
    /\ ~config.listTools
    /\ registered' = tools
    /\ step' = "serving"
    /\ UNCHANGED <<config, tools>>

\* enabledTools is allTools unless pflag reports the enabled-tools FLAG as
\* changed, in which case viper's value is used; every offered tool it
\* names is registered.
RegisterEnabled ==
    /\ step = "choose"
    /\ ~config.listTools
    /\ LET enabledTools == IF config.flag = NotGiven THEN tools
                           ELSE ViperEnabledTools(config)
       IN  registered' = {t \in tools : t \in enabledTools}
    /\ step' = "serving"
    /\ UNCHANGED <<config, tools>>

Next ==
    \/ \E ok \in BOOLEAN : NewSystem(ok)
    \/ \E canAccess, logOK \in BOOLEAN : AddLogTools(canAccess, logOK)
    \/ AddManTool
    \/ ListTools
    \/ RegisterEnabled

Spec == Init /\ [][Next]_vars
-----------------------------------------------------------------------------
\* The server exposes exactly the tools the operator enabled, as far as
\* they could be set up: the enabled-tools option restricts registration
\* however it is given, on the command line or as SYSTEMD_MCP_ENABLED_TOOLS.
EnabledToolsHonoured ==
    step = "serving" =>
        registered = tools \cap (IF config.flag = NotGiven /\ config.env = NotGiven
                                 THEN ToolNames ELSE ViperEnabledTools(config))
=============================================================================
