----------------------------- MODULE ContentUser ----------------------------
(***************************************************************************)
(* What the caches of NetSurf promise to the user of a handle, whatever    *)
(* becomes of the contents behind it (enum content_msg in                  *)
(* netsurf/content_type.h, content/hlcache.h): it is told LOADING, READY   *)
(* and DONE in this order, or of an error before it was told READY, or of  *)
(* a download, and in the end of one of DONE, ERROR and DOWNLOAD unless it *)
(* gives up.                                                               *)
(* Messages that do not end or advance the loading are left out.           *)
(***************************************************************************)
EXTENDS Integers, Sequences

CONSTANTS Handles

VARIABLES told,   \* what each handle was told since it was retrieved
          open    \* the handles whose users have not given up

Stories == {<<"LOADING", "READY", "DONE">>, <<"LOADING", "ERROR">>,
            <<"ERROR">>, <<"DOWNLOAD">>}

Beginnings == UNION {{SubSeq(s, 1, n) : n \in 0..Len(s)} : s \in Stories}

Over(t) == t \in Stories

IsBeginning(s, t) == Len(s) <= Len(t) /\ SubSeq(t, 1, Len(s)) = s

Init == told = [h \in Handles |-> <<>>] /\ open = {}

\* Any number of users may be told something more, at once: a content has
\* many.  Nobody is told anything who has given up, or was told the end.
Tell == /\ told' \in [Handles -> Beginnings]
        /\ \A h \in Handles : /\ IsBeginning(told[h], told'[h])
                              /\ told'[h] # told[h] => h \in open
        /\ open' \subseteq open

GiveUp(h) == /\ open' = open \ {h}
             /\ told' = [told EXCEPT ![h] = <<>>]

Retrieve(h) == /\ h \notin open
               /\ open' = open \cup {h}
               /\ told' = [told EXCEPT ![h] = <<>>]

Next == Tell \/ \E h \in Handles : Retrieve(h) \/ GiveUp(h)

Answered(h) == h \notin open \/ Over(told[h])

\* The order of what is told, and its end
Order == Init /\ [][Next]_<<told, open>>

Spec == /\ Order
        /\ \A h \in Handles : []<>Answered(h)
=============================================================================
