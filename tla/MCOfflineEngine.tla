---------------------------- MODULE MCOfflineEngine ----------------------------
EXTENDS OfflineEngine, TLC
CONSTANTS reflect, facts, cron, merged

\* reflect_episodes, started by cron, emits the episodes it merged and waits for
\* extract_atomic_facts to handle them.
MCRoutes == (cron :> {reflect}) @@ (merged :> {facts})
MCEmits  == (reflect :> merged) @@ (facts :> NoKind)
================================================================================
