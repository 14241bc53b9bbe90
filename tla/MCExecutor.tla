------------------------------ MODULE MCExecutor ------------------------------
EXTENDS Executor

CONSTANTS plain, async, raising, exiting, bare

\* Two bundles that run, and one of each kind that does not.
Bundles == [a \in Agents |-> CASE a \in {plain, async} -> "ok"
                               [] a = raising -> "raises"
                               [] a = exiting -> "exits"
                               [] a = bare -> "no_agent"]

\* The agent moves from project one to two, which has other secrets, one of them
\* under a name that is reserved.
TwoProjects == [one |-> {"OPENAI_API_KEY", "TOKEN"}, two |-> {"TOKEN", "PATH"}]
================================================================================
