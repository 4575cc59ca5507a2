---------------------------- MODULE MCDeployment ----------------------------
\* The three forward migrations of the application database: app-002 (columns of
\* two tables, then the backfills), app-004 (plain and unique indexes), app-007.
EXTENDS Deployment, TLC

AppNeeds == <<{}, {1}, {2}>>
AppPreflights == <<{"app-001"}, {"app-003"}, {"app-006"}>>
AppLength == <<3, 2, 1>>
AppShown == <<2, 2, 1>>
AppFragile == <<{}, {2}, {}>>

Symmetry == Permutations(Appliers)
=============================================================================
