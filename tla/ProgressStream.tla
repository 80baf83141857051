--------------------------- MODULE ProgressStream ---------------------------
(***************************************************************************)
(* The progress stream of a session and the web page that follows it,      *)
(* composed with WanderSessions.  The server sends the steps of the trace  *)
(* from an index on, and the page asks again from the index after the last *)
(* one it has seen.  Indexes are positions in a trace that other writers   *)
(* may have replaced by a shorter one.  A page that is not connected is    *)
(* one to which nothing is sent for a while.  Progress and heartbeat       *)
(* events, which nothing depends on, are left out.                         *)
(***************************************************************************)
EXTENDS WanderSessions

VARIABLES
    page,      \* by session, the page that follows it: [over, next]
    rewound    \* sessions a stop() has reopened or shortened

streamVars == <<vars, page, rewound>>

NoPage == [over |-> FALSE, next |-> 0]

StreamInit == Init /\ page = [s \in Sessions |-> NoPage] /\ rewound = {}

(* Index after the last step that is sent to a page that has seen next.    *)
Upto(s) == IF page[s].next < row[s].steps THEN row[s].steps ELSE page[s].next

(* Bug variant: the status is looked at before the steps.                  *)
SendLate(s) ==
    /\ mode = "up" /\ Saved(s) /\ ~page[s].over
    /\ page' = [page EXCEPT ![s] = IF row[s].status \in Terminal
                                   THEN [@ EXCEPT !.over = TRUE]
                                   ELSE [@ EXCEPT !.next = Upto(s)]]

(* One round of the generator: the steps that are new, and the completion  *)
(* event when the status is final.                                         *)
Send(s) ==
    /\ mode = "up" /\ Saved(s) /\ ~page[s].over
    /\ page' = [page EXCEPT ![s] = [over |-> row[s].status \in Terminal, next |-> Upto(s)]]

(* The connection breaks when some of the steps of a round have arrived:   *)
(* the page reconnects with the index of the last one.                     *)
Break(s) ==
    /\ mode = "up" /\ Saved(s) /\ ~page[s].over
    /\ \E n \in page[s].next .. Upto(s) : page' = [page EXCEPT ![s].next = n]

(* The page stops following: it is loaded again, finds the session missing *)
(* or has reconnected eight times.  The next one starts at the beginning.  *)
GiveUp(s) == ~page[s].over /\ page' = [page EXCEPT ![s] = NoPage]

StreamNext ==
    \/ /\ Next
       /\ rewound' = rewound \cup {s \in Sessions : Rewound(s) /\ row'[s].cancel}
       /\ page' = page
    \/ /\ \E s \in Sessions : Send(s) \/ Break(s) \/ GiveUp(s)
       /\ UNCHANGED <<vars, rewound>>

StreamSpec == StreamInit /\ [][StreamNext]_streamVars
-----------------------------------------------------------------------------
(* A page that was told the session is over has been sent every step of    *)
(* its trace, and no page waits beyond the end of one, however connections *)
(* break, pages reload and runs are resumed after a restart - except when  *)
(* a stop() has rewound the trace: then new steps with known indexes are   *)
(* never sent (stream_wander_session and followSession).  A stopped inline *)
(* or polled run may go on after its page was told so.                     *)
Delivered ==
    \A s \in Stoppable \ rewound : Saved(s) =>
        /\ page[s].next <= row[s].steps
        /\ page[s].over => /\ row[s].status \in Terminal
                           /\ page[s].next = row[s].steps
=============================================================================
