--------------------------- MODULE ReleaseSettlement ---------------------------
(***************************************************************************)
(* What production activation promises, without workers, leases, receipts  *)
(* or probes.  At most one activation plan is in force.  The App Settings  *)
(* move only between the old and the desired map of that plan.  A plan is  *)
(* recorded as done only while production carries its desired map, as      *)
(* undone only while production carries the old one, a release never both, *)
(* and the plan in force gives way only once it has been recorded.  An     *)
(* owner of the site may meddle with its App Settings: from then on        *)
(* nothing is promised about the map, but all the rest.                    *)
(***************************************************************************)
CONSTANTS Plan, Initial, NoPlan

VARIABLES
    inforce,    \* the plan in force, or NoPlan
    map,        \* the App Settings of production
    done,       \* plans recorded as consumed or completed
    undone,     \* plans recorded as aborted
    calm        \* nobody has meddled with the map

svars == <<inforce, map, done, undone, calm>>

Ends(p) == {p.pre, p.desired}

Settles(p, plans) == \E q \in plans : q.release = p.release

Init == /\ inforce = NoPlan /\ map = Initial
        /\ done = {} /\ undone = {} /\ calm = TRUE

Take(p) == /\ inforce = NoPlan
           /\ inforce' = p
           /\ UNCHANGED <<map, done, undone, calm>>

Move == /\ inforce # NoPlan /\ (calm => map \in Ends(inforce))
        /\ map' \in Ends(inforce)
        /\ UNCHANGED <<inforce, done, undone, calm>>

Do == /\ inforce # NoPlan /\ (calm => map = inforce.desired)
      /\ ~Settles(inforce, undone)
      /\ done' = done \cup {inforce}
      /\ UNCHANGED <<inforce, map, undone, calm>>

Undo == /\ inforce # NoPlan /\ (calm => map = inforce.pre)
        /\ ~Settles(inforce, done)
        /\ undone' = undone \cup {inforce}
        /\ UNCHANGED <<inforce, map, done, calm>>

Free == /\ inforce \in done \cup undone
        /\ inforce' = NoPlan
        /\ UNCHANGED <<map, done, undone, calm>>

Meddle == calm' = FALSE /\ UNCHANGED <<inforce, done, undone>>

Next == (\E p \in Plan : Take(p)) \/ Move \/ Do \/ Undo \/ Free \/ Meddle

Spec == Init /\ [][Next]_svars
=============================================================================
