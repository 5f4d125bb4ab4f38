-------------------------- MODULE MCWorkItemMutation --------------------------
\* Constants for the finite instance of WorkItemMutation.
EXTENDS WorkItemMutation

CONSTANTS caller1, reconciler, nobody, create1, enrich1

MCCallers == {caller1}
MCReconcilers == {reconciler}
MCCreates == {create1}
MCEnriches == {enrich1}
=============================================================================
