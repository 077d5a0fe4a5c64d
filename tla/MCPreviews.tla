----------------------------- MODULE MCPreviews -----------------------------
(***************************************************************************)
(* Small instances of Previews and Snowflake for TLC.  The two share no    *)
(* state: a behaviour runs the preview service or the generator of ids.    *)
(***************************************************************************)
EXTENDS Previews, Snowflake

VARIABLE part   \* "previews" or "ids"

Kind(route, gate, want, inm) == [route |-> route, gate |-> gate, want |-> want, inm |-> inm]
MCKinds    == {Kind("core", "ok", "max", -1), Kind("photos", "ok", "small", 0),
               Kind("thumbnail", "not own", "max", -1)}

MCInit == Init /\ IdsInit /\ part \in {"previews", "ids"}

MCNext ==
    \/ part = "previews" /\ Next /\ UNCHANGED <<part, idvars>>
    \/ part = "ids" /\ IdsNext /\ UNCHANGED <<part, vars>>

(* The fairness of Previews. *)
MCSpec ==
    /\ MCInit /\ [][MCNext]_<<vars, idvars, part>>
    /\ \A r \in Reqs : WF_vars(ReqStep(r))
    /\ \A g \in Gens : WF_vars(GenStep(g))
=============================================================================
