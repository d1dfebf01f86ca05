---------------------------- MODULE MCPushStream ----------------------------
(***************************************************************************)
(* Small instances of PushStream for TLC: two Applications with two        *)
(* possible contents, watched in one or two namespaces.                    *)
(***************************************************************************)
EXTENDS PushStream

CONSTANTS a1, a2, v1, v2

TwoNamespaces == {{a1}, {a2}}
OneNamespace  == {{a1}}
AllNamespaces == {Apps}

=============================================================================
