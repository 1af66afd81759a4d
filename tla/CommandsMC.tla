------------------------------- MODULE CommandsMC -------------------------------
(***************************************************************************)
(* Commands on their way to cli_process, and those that then reach into    *)
(* the state of a classifier that runs.  The two share no state, so a      *)
(* behaviour is about one of them, the subject.                            *)
(***************************************************************************)
EXTENDS ConnServer, Classifier

VARIABLE subject

Bytes(n) == 2
(* The operator's first line is blank and does not fit msg_in together     *)
(* with the director's; a comment begins the second.                       *)
blank == <<"operator", 1>>
comment == <<"operator", 2>>
Terminal == <<blank, blank, NL, comment>>
Blank == {blank}
Comment == {comment}

Small == -3..3

MCInit ==
    /\ Init /\ ClassifierInit
    /\ subject \in {"channel", "classifier"}
    /\ subject = "channel" => frequency = 0

MCNext ==
    \/ subject = "channel" /\ Next /\ UNCHANGED <<subject, classifierVars>>
    \/ subject = "classifier" /\ ClassifierNext /\ UNCHANGED <<subject, vars>>

(* The fairness of ConnServer.                                             *)
Channel(A) == A /\ subject = "channel"
MCFairness ==
    /\ \A c \in Conns : /\ WF_vars(Channel(conn_poll_for_conn(c)))
                        /\ SF_vars(Channel(conn_poll_for_msg(c)))
    /\ WF_vars(Channel(DataEvent)) /\ WF_vars(Channel(Director))

MCSpec == MCInit /\ [][MCNext]_<<vars, classifierVars, subject>> /\ MCFairness
===============================================================================
