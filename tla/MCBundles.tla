------------------------------ MODULE MCBundles -------------------------------
EXTENDS Bundles

CONSTANTS p1, p2, none

\* Two versions of an agent, another agent of that account, and another account's agent of
\* the same name.
FourBundles ==
  {<<"acme", "triage", 1>>, <<"acme", "triage", 2>>, <<"acme", "digest", 1>>,
   <<"bell", "triage", 1>>}
================================================================================
