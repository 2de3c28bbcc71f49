-------------------------------- MODULE MCDrive --------------------------------
(***************************************************************************)
(* Google Drive for TLC: DriveStore under the configuration's constants    *)
(* and instances of it under other bounds.  The scenario is chosen at the  *)
(* start and never changes.                                                *)
(***************************************************************************)
EXTENDS DriveStore, TLC

CONSTANTS p1, p2,  \* pages
          k1, k2,  \* keys
          c1, c2   \* contents

VARIABLE scenario

driveVars == <<scenario, vars>>
-------------------------------------------------------------------------------
\* The requests for some of the keys and contents.
Of(ops, keys, contents) ==
  {r \in Store!Requests : /\ r.op \in ops /\ r.keys \subseteq keys
                          /\ {r.content, r.expected} \subseteq contents \cup {None}}

All == {"put", "cas", "trash", "sweep"}

\* Two pages and one key: three calls of any kind, one of which may fail.
OnOneKey == Of(All, {k1}, {c1, c2})

\* The same with a fourth call and nothing failing.
Calls == INSTANCE DriveStore WITH MaxCalls <- 4, MaxFaults <- 0

\* Two keys, removed and swept while others write them.
Sweeps == INSTANCE DriveStore WITH
  MaxCasAttempts <- 2, Operations <- Of(All, {k1, k2}, {c1}), MaxCalls <- 3

\* Two pages find no index in the folder; a full store.
Opening == INSTANCE DriveStore WITH
  Connected <- FALSE, MaxCasAttempts <- 1, MaxObjects <- 1,
  Operations <- Of({"put", "cas"}, {k1, k2}, {c1}), MaxCalls <- 2, MaxGets <- 1

\* Gets, fills of the index cache and writes of the same page.
Reads == INSTANCE DriveStore WITH
  MaxCasAttempts <- 1, Operations <- Of({"put", "cas"}, {k1}, {c1}), MaxCalls <- 2, MaxGets <- 3

ASSUME /\ DriveAssumption /\ Calls!DriveAssumption /\ Sweeps!DriveAssumption
       /\ Opening!DriveAssumption /\ Reads!DriveAssumption

Symmetry == Permutations({p1, p2})
-------------------------------------------------------------------------------
DriveInit ==
  \/ scenario = "faults" /\ Init
  \/ scenario = "calls" /\ Calls!Init
  \/ scenario = "sweeps" /\ Sweeps!Init
  \/ scenario = "opening" /\ Opening!Init
  \/ scenario = "reads" /\ Reads!Init

DriveNext ==
  /\ \/ scenario = "faults" /\ Next
     \/ scenario = "calls" /\ Calls!Next
     \/ scenario = "sweeps" /\ Sweeps!Next
     \/ scenario = "opening" /\ Opening!Next
     \/ scenario = "reads" /\ Reads!Next
  /\ UNCHANGED scenario

DriveSpec == DriveInit /\ [][DriveNext]_driveVars
===============================================================================
