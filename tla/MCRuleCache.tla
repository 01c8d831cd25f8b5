----------------------------- MODULE MCRuleCache -----------------------------
EXTENDS RuleCache
CONSTANTS v1, v2, c1, c2
=============================================================================
