----------------------------- MODULE AnalyticsFeed -----------------------------
(***************************************************************************)
(* What the shadow signals promise the reader of published runs: a run is    *)
(* published in one step, and what it says of every client in its scope is   *)
(* what the stored sales say at that very moment, as of one closed day that  *)
(* never goes back.  How many batches it took, what was stopped, superseded  *)
(* or repeated on the way cannot be seen.                                    *)
(***************************************************************************)
EXTENDS PurchaseCycle

CONSTANTS Days

VARIABLES
    sales,      \* stored sales: id, client, date, positive
    scope,      \* the clients the directory names now
    feed        \* the published runs, oldest first

(* The clients in scope that a run of asOf must report at risk. *)
AtRisk(asOf) ==
    {c \in scope : LET days == {s.date : s \in {t \in sales : t.client = c /\ t.positive
                                                              /\ t.date <= asOf}}
                   IN  Verdict(Features(days, asOf), asOf).risk}

Publish(asOf) ==
    /\ feed # <<>> => Last(feed).asOf <= asOf
    /\ feed' = Append(feed, [asOf |-> asOf, scope |-> scope, risk |-> AtRisk(asOf)])
    /\ UNCHANGED <<sales, scope>>

Init == feed = <<>>
Next ==
    \/ UNCHANGED feed
    \/ \E asOf \in Days : Publish(asOf)
Spec == Init /\ [][Next]_<<sales, scope, feed>>
=============================================================================
