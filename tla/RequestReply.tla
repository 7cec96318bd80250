---------------------------- MODULE RequestReply ----------------------------
(***************************************************************************)
(* What every version of sipc promises: Sipc2 puts a request into the box, *)
(* Sipc1 hears the request and puts its reply there, Sipc2 gets the reply. *)
(***************************************************************************)

VARIABLES box,      \* what the shared text holds: "nothing" at first
          heard,    \* what Sipc1 printed as the request it received
          got       \* what Sipc2 printed as the reply it received

boxVars == <<box, heard, got>>

Init == box = "nothing" /\ heard = "nothing" /\ got = "nothing"

Ask == /\ box = "nothing"
       /\ box' = "request"
       /\ UNCHANGED <<heard, got>>

Hear == /\ box = "request" /\ heard = "nothing"
        /\ heard' = box
        /\ UNCHANGED <<box, got>>

Reply == /\ heard = "request" /\ box = "request"
         /\ box' = "reply"
         /\ UNCHANGED <<heard, got>>

Receive == /\ box = "reply" /\ got = "nothing"
           /\ got' = box
           /\ UNCHANGED <<box, heard>>

Next == Ask \/ Hear \/ Reply \/ Receive

Safety == Init /\ [][Next]_boxVars

\* Whatever was begun is carried through to the reply.
Spec == Safety /\ WF_boxVars(Next)
=============================================================================
