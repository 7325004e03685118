-------------------------- MODULE MC_ToolRegistry ---------------------------
(* Instances of ToolRegistry for TLC.                                       *)
EXTENDS ToolRegistry

\* An empty list, a list of one tool, and a list with a unit tool, a log
\* tool and a name main does not know.
MCEnabledLists ==
    {{}, {"list_units"}, {"change_unit_state", "get_file", "bogus_tool"}}

\* The environment variable unset, or set to any of the lists.
MCEnvAny == MCEnabledLists \cup {NotGiven}
=============================================================================
