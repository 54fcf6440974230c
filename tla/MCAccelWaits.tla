----------------------------- MODULE MCAccelWaits -----------------------------
(***************************************************************************)
(* Jobs and programs for TLC.                                              *)
(***************************************************************************)
EXTENDS AccelWaits

AllJobs   == {"redmule", "a2o", "o2a", "fsync", "spatz", "cluster"}
AllEvents == AllJobs \cup RedmuleAll

\* One accelerator at a time, every initialisation, every wait for one job.
OneByOne ==
  [inits      |-> {<<j, {j}>> : j \in {"redmule", "spatz", "cluster"}}
                    \cup {<<"idma", {"a2o"}>>},
   waits      |-> {"polling", "wfe", "mask_wait", "idma_load", "spatz_wfe", "spatz_polling"},
   concurrent |-> FALSE, timeouts |-> TRUE]

\* Several at once, waited for together.
Together ==
  [inits      |-> {<<"multi", {"redmule", "a2o", "fsync"}>>,
                   <<"multi", {"a2o", "fsync"}>>, <<"fsync", {"fsync"}>>},
   waits      |-> {"multi_wfe", "multi_polling"},
   concurrent |-> TRUE, timeouts |-> TRUE]

\* A load among others, whose blocking wait checks the channel again.
Load ==
  [inits      |-> {<<"multi", {"redmule", "a2o", "o2a"}>>, <<"pair", {"a2o"}>>},
   waits      |-> {"idma_load"},
   concurrent |-> TRUE, timeouts |-> FALSE]

AllPrograms == {OneByOne, Together, Load}

ASSUME BlockingWaitsAreSolo == \A p \in AllPrograms : TakesAny(p) => Solo(p)
=============================================================================
