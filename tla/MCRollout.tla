----------------------------- MODULE MCRollout ------------------------------
(* Small instances of Rollout: two contents that differ in one metric,      *)
(* which only the first defines; each version has a file of its own.        *)
EXTENDS Rollout, TLC

CONSTANTS v1, v2, m1, m2, revenue, cost, file1, file2

MCDefinition ==
  (m1 :> (revenue :> 1 @@ cost :> 1)) @@ (m2 :> (revenue :> 1 @@ cost :> None))

MCFiles == (v1 :> {file1}) @@ (v2 :> {file2})

MCDisk == (file1 :> m1 @@ file2 :> m2)

(* The versions may change places, together with their files and their      *)
(* bytes: all that is ever asked of two contents is what they differ in.    *)
(* So may the processes.                                                    *)
Twins == {swap \in Permutations(Names \cup Paths \cup Contents) :
            \A n \in Names :
              /\ swap[n] \in Names
              /\ {swap[f] : f \in MCFiles[n]} = MCFiles[swap[n]]
              /\ \A f \in MCFiles[n] : swap[MCDisk[f]] = MCDisk[swap[f]]}
Alike == Twins \cup Permutations(Procs)

=============================================================================
