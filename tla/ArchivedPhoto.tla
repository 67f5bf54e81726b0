--------------------------- MODULE ArchivedPhoto ---------------------------
(***************************************************************************)
(* What archive confirmations promise about one photo and one device: the  *)
(* server may drop its copy once the device has confirmed one of its own,  *)
(* and a device confirms only a photo it has had whole.  What happens to   *)
(* that copy afterwards is the device's, and is said to be so.             *)
(***************************************************************************)

VARIABLES
    server,    \* whether the server keeps its copy
    device,    \* the device's copy: never whole so far, held, or lost
    asked,     \* a confirmation is on its way
    confirmed  \* the server has the device's confirmation

vars == <<server, device, asked, confirmed>>

Init == server = "kept" /\ device = "never" /\ asked = FALSE /\ confirmed = FALSE

\* A first copy comes from the server; one that was lost may have been under way again
\* when the server dropped its own.
Hold ==
    /\ device = "never" => server = "kept"
    /\ device' = "held" /\ UNCHANGED <<server, asked, confirmed>>

Lose == device' = "lost" /\ UNCHANGED <<server, asked, confirmed>>

Ask == device # "never" /\ asked' = TRUE /\ UNCHANGED <<server, device, confirmed>>

Confirm ==
    /\ asked /\ asked' = FALSE /\ confirmed' = (confirmed \/ server = "kept")
    /\ UNCHANGED <<server, device>>

\* Unanswered, or the process ended; that may have caught the device replacing its copy.
Drop ==
    /\ asked' = FALSE /\ device' \in {device, "lost"}
    /\ UNCHANGED <<server, confirmed>>

\* The device has new keys and has to confirm again.
Reset == confirmed' = FALSE /\ UNCHANGED <<server, device, asked>>

Evict == confirmed /\ server' = "gone" /\ UNCHANGED <<device, asked, confirmed>>

Next == Hold \/ Lose \/ Ask \/ Confirm \/ Drop \/ Reset \/ Evict

Spec == Init /\ [][Next]_vars

\* The server has not dropped a photo that this device never had.
Backed == server = "gone" => device # "never"
=============================================================================
