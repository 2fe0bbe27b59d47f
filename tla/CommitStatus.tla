---------------------------- MODULE CommitStatus ----------------------------
(***************************************************************************)
(* The promise of Chamber CI to whoever reads the commit statuses: each    *)
(* admitted commit gets one verdict, GitHub may show it as pending at any  *)
(* time before its verdict is shown, and what is shown last is the verdict.*)
(***************************************************************************)
CONSTANT Jobs

VARIABLES
    verdict,   \* "absent", "open" while undecided, or the verdict
    shown      \* the commit status on GitHub, "none" before the first

Final == {"success", "failure", "error"}

Init ==
    /\ verdict = [j \in Jobs |-> "absent"]
    /\ shown = [j \in Jobs |-> "none"]

Accept(j) ==
    /\ verdict[j] = "absent"
    /\ verdict' = [verdict EXCEPT ![j] = "open"]
    /\ UNCHANGED shown

\* A shutdown or a recovery decides several jobs at once.
Decide ==
    /\ verdict' \in [Jobs -> Final \cup {"absent", "open"}]
    /\ \A j \in Jobs :
         verdict'[j] # verdict[j] => verdict[j] = "open" /\ verdict'[j] \in Final
    /\ UNCHANGED shown

Show(j) ==
    /\ verdict[j] # "absent"
    /\ \E s \in {"pending", verdict[j]} \ {"open"} :
         /\ shown[j] \in Final => s = shown[j]
         /\ shown' = [shown EXCEPT ![j] = s]
    /\ UNCHANGED verdict

Next == Decide \/ \E j \in Jobs : Accept(j) \/ Show(j)

Spec == Init /\ [][Next]_<<verdict, shown>>
=============================================================================
