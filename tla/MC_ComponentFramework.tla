----------------------- MODULE MC_ComponentFramework -----------------------
(* Model-checking instance of ComponentFramework. *)
EXTENDS ComponentFramework

\* Two components show the dict-ordered, one-at-a-time ctrl_stop joins.
MCNumComps == 2
\* Two startups cover a restart after shutdown, with the trigger flag left set.
MCMaxStarts == 2
MCMaxTriggers == 1
\* A second value can arrive while the value handler of the first runs.
MCMaxValues == 2
MCMaxFaults == 1

\* The violation run: no other thread triggers and no value arrives.
MCNone == 0
=============================================================================
