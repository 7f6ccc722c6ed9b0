----------------------------- MODULE MCProposal -----------------------------
(***************************************************************************)
(* An instance of Proposal for TLC.  In "selection" three validators       *)
(* decide on one block, of candidates with any times and hashes; in        *)
(* "pools" two of them build a chain of what arrives in any order, early,  *)
(* late or never.                                                          *)
(***************************************************************************)
EXTENDS Proposal

CONSTANTS v1, v2, v3, t1, t2, t3

VARIABLE scenario

MCTxTime == (t1 :> 1) @@ (t2 :> 2) @@ (t3 :> 2)

\* Half seconds; two of the hashes are equally far away.
MCStamps ==
    {[time |-> time, distance |-> digest[1], hash |-> digest[2]] :
        time \in {0, 2, 3}, digest \in {<<1, 3>>, <<2, 1>>, <<2, 2>>}}

\* The validators are alike, so each has a hash of its own.  "selection": t1 before
\* t2 before anybody proposes, and one block.  "pools": one time; a transaction that
\* is missed is one that never arrives, and t1 arrives twice at v1.
Allowed ==
    /\ \A n \in Validators : proposed'[n] # None =>
            proposed'[n].hash = CASE n = v1 -> 1 [] n = v2 -> 2 [] n = v3 -> 3
    /\ CASE scenario = "selection" ->
                /\ Len(chain') <= 1
                /\ \A n \in Validators :
                    /\ copies'[n][t1] >= 1 /\ copies'[n][t2] >= 1 /\ copies'[n][t3] = 2
                    /\ copies'[n][t2] = 1 => copies'[n][t1] = 1
                    /\ proposed'[n] # None => \A m \in Validators : copies'[m][t2] = 1
          [] scenario = "pools" ->
                \A n \in Validators :
                    /\ proposed'[n] # None => proposed'[n].time = 0
                    /\ copies'[v1][t3] = 1 => copies'[v1][t2] = 1
                    /\ \A tx \in Tx :
                        /\ copies'[n][tx] < copies[n][tx] => tx \in ToSet(pool'[n])
                        /\ copies'[n][tx] >= (IF n = v1 /\ tx = t1 THEN 0 ELSE 1)

MCInit ==
    /\ Init
    /\ scenario \in {"selection", "pools"}
    /\ running = IF scenario = "selection" THEN Validators ELSE {v1, v2}

MCNext == Next /\ Allowed /\ UNCHANGED scenario

MCSpec == MCInit /\ [][MCNext]_<<vars, scenario>> /\ Fairness
=============================================================================
