----------------------------- MODULE MCBanList -----------------------------
(***************************************************************************)
(* Three peers, two of them in a narrow subnet inside a wide one; masks    *)
(* that give the wide subnet, the narrow one or none; ban times 1 and 2;   *)
(* clean-ups in every scan or after more than a second.                    *)
(***************************************************************************)
EXTENDS BanList, TLC

CONSTANTS p1, p2, p3, wide, narrow

MCIP == {p1, p2, p3}
MCNet == {wide, narrow}

Wide == [ip \in MCIP |-> wide]
Narrow == [ip \in MCIP |-> IF ip = p3 THEN NoNet ELSE narrow]

MCConfigs == {[mask |-> Wide, banTime |-> 2, cleanInterval |-> 0],
              [mask |-> Narrow, banTime |-> 1, cleanInterval |-> 1]}

\* p1 and p2 are alike under both masks.
Alike == Permutations({p1, p2})
=============================================================================
