------------------------------- MODULE MCBtn -------------------------------
(* Two servers, the user naming one of them or none.                       *)
EXTENDS Btn

CONSTANTS u1, u2, rules, v1, v2

MCAbilities == <<rules, Reconfigure>>
MCConfigs == {[url |-> NoUrl, sync |-> {rules}], [url |-> u1, sync |-> {rules}],
              [url |-> u2, sync |-> {rules}]}
Serves(fits, names, v) == [fits |-> fits, names |-> names, version |-> [k \in Kinds |-> v]]
MCServices ==
  u1 :> {Serves(TRUE, AllAbilities, v1), Serves(TRUE, {rules}, v2), Serves(FALSE, {}, v2)}
  @@ u2 :> {Serves(TRUE, {Reconfigure}, v2)}

(* Reloads that nothing interrupts.                                        *)
QuickReloads == Init /\ [][Next /\ (reloading => ~reloading')]_vars
=============================================================================
